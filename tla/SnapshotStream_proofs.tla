------------------------ MODULE SnapshotStream_proofs -----------------------
(***************************************************************************)
(* Proofs about SnapshotStream.  The data file is described by a layout:   *)
(* what was announced for each database, the main size in its header, the  *)
(* pages copied, where it starts, and running sums of what was announced   *)
(* (Layouts).  The layout is a witness that grows with the file (Layout),  *)
(* and the cursor of the reader is a place in it (Read), however the two   *)
(* buffers divide what was read ahead.  That sizes agree in each database  *)
(* and not just in their sum needs that checkpoints change all main files  *)
(* in one direction (OneWay, Directed); SumsAgree then compares the sums.  *)
(***************************************************************************)
EXTENDS SnapshotStream, DqliteFolder_proofs

-----------------------------------------------------------------------------
(* Types. *)
Data == Content \cup {Hole}

FileUnit ==
  [type : {"page"}, data : Data, half : {1, 2}]
    \cup [type : {"frame"}, page : Nat \ {0}]
    \cup [type : {"wal"}]

Unit ==
  [type : {"header"}, n : Nat, half : {1, 2}]
    \cup [type : {"database"}, main_size : Nat, wal_size : Nat, half : {1, 2}]
    \cup FileUnit

WalFrame == [page : Nat \ {0}, data : Content]

OpenDatabase ==
  [main : Seq(Data), wal : Seq(WalFrame), valid : Nat, size : Nat, copied : Nat]

(* The rows of a database that was read. *)
Rows == UNION {[P -> Data] : P \in {Q \in SUBSET Nat : IsFiniteSet(Q)}}

FramePages(d) == {db[d].wal[f].page : f \in 1..db[d].valid}

Checkpointing == {"size", "header", "database", "main_len", "main"}
Writing == Checkpointing \cup {"encoded"}
Loading == {"read_main", "read_wal", "read_frame"}
Reading == {"read_header", "read_database", "done"} \cup Loading

-----------------------------------------------------------------------------
(* What the writer and the reader keep to whatever the headers say. *)
Files ==
  /\ db \in Seq(OpenDatabase)
  /\ \A d \in DOMAIN db :
       /\ db[d].valid <= Len(db[d].wal)
       /\ 1..db[d].size \subseteq DOMAIN db[d].main \cup FramePages(d)

Stages ==
  /\ stage \in Writing \cup Reading \cup {"failed"}
  /\ at \in Nat \ {0}
  /\ IF db = <<>> THEN at = 1 ELSE at <= Len(db)
  /\ stage \in {"size", "database", "main_len", "main", "read_database"} \cup Loading => db # <<>>
  /\ stage \in {"header", "encoded", "read_header"} => at = 1

Counters ==
  /\ total \in Nat /\ len \in Nat /\ page \in 0..len
  /\ limit \in Nat /\ n_databases \in Nat /\ wal_size \in Nat
  /\ stage \in Reading \ {"read_header"} => n_databases = Len(db)

(* The units that were read and not yet used are the last before pos, those of
   the loader first. *)
Taken == pos - Len(buf) - Len(lbuf)

Buffers ==
  /\ out \in Seq(Unit) /\ buf \in Seq(Unit) /\ lbuf \in Seq(Unit)
  /\ pos \in 0..Len(out)
  /\ Len(buf) < 2 + Chunk /\ Len(lbuf) < 3 + Chunk
  /\ Taken \in Nat
  /\ \A i \in 1..Len(lbuf) : lbuf[i] = out[Taken + i]
  /\ \A i \in 1..Len(buf) : buf[i] = out[Taken + Len(lbuf) + i]
  /\ stage \in Writing => pos = 0
  /\ stage \in Writing \cup {"read_header", "read_database"} => lbuf = <<>>
  /\ stage = "read_header" => Taken = 0

FirstIsHeader ==
  stage \in (Writing \cup Reading) \ {"size", "header"} =>
    /\ Len(out) >= 2
    /\ \A h \in {1, 2} : out[h] = [type |-> "header", n |-> Len(db), half |-> h]

LoadedInOrder ==
  /\ loaded \in Seq(Rows)
  /\ stage \in Writing \cup {"read_header"} => loaded = <<>>
  /\ stage = "read_database" => Len(loaded) = at - 1
  /\ stage \in Loading => Len(loaded) = at
  /\ stage = "done" => Len(loaded) = Len(db)

TInv == Files /\ Stages /\ Counters /\ Buffers /\ FirstIsHeader /\ LoadedInOrder

-----------------------------------------------------------------------------
(* Where everything is in the data file.  For each database: its length in pages
   as announced to the encoder, as in its header, and as copied; where it starts;
   what the announced sizes before it come to. *)
Layouts == [announced : [Nat -> Nat], header : [Nat -> Nat], copied : [Nat -> Nat],
            start : [Nat -> Nat], sum : [Nat -> Nat]]

(* How many databases were sized, have a header, were sized for the copy, are
   written. *)
Announced == IF stage = "size" THEN at - 1 ELSE Len(db)
Headed == IF stage \in {"size", "header"} THEN 0
          ELSE IF stage = "database" THEN at - 1
          ELSE IF stage \in {"main_len", "main"} THEN at
          ELSE Len(db)
Measured == IF stage \in {"size", "header"} THEN 0
            ELSE IF stage \in {"database", "main_len"} THEN at - 1
            ELSE IF stage = "main" THEN at
            ELSE Len(db)
Finished == IF stage \in {"size", "header"} THEN 0
            ELSE IF stage \in {"database", "main_len", "main"} THEN at - 1
            ELSE Len(db)

Sized(lay) ==
  /\ lay.sum[1] = 2
  /\ \A d \in 1..Announced : lay.sum[d + 1] = lay.sum[d] + 2 + 2 * lay.announced[d] + WalSize(d)
  /\ total = lay.sum[Announced + 1]

Placed(lay) ==
  /\ lay.start[1] = 3
  /\ \A d \in 1..Finished : lay.start[d + 1] = lay.start[d] + 2 + 2 * lay.copied[d] + WalSize(d)
  /\ \A d, e \in 1..(Finished + 1) :
       d < e => lay.start[d] + 2 + 2 * lay.copied[d] + WalSize(d) <= lay.start[e]

(* The end of the file while it is written. *)
EndsAt(lay) ==
  Len(out) = IF stage \in {"size", "header"} THEN 0
             ELSE IF stage = "database" THEN lay.start[at] - 1
             ELSE IF stage = "main_len" THEN lay.start[at] + 1
             ELSE IF stage = "main" THEN lay.start[at] + 1 + 2 * page
             ELSE lay.start[Len(db) + 1] - 1

HeaderAt(lay, d) ==
  \A h \in {1, 2} :
    out[lay.start[d] + h - 1] = [type |-> "database", main_size |-> 2 * lay.header[d],
                                 wal_size |-> WalSize(d), half |-> h]

PagesAt(lay, d, k) ==
  \A p \in 1..k : \E data \in Data :
    /\ out[lay.start[d] + 2 * p] = [type |-> "page", data |-> data, half |-> 1]
    /\ out[lay.start[d] + 2 * p + 1] = [type |-> "page", data |-> data, half |-> 2]
    /\ p \in 1..db[d].size \ FramePages(d) => data = db[d].main[p]

WalAt(lay, d) ==
  \A i \in 1..WalSize(d) : out[lay.start[d] + 1 + 2 * lay.copied[d] + i] = WalUnits(d)[i]

IsHeader(i) == out[i].type = "database" /\ out[i].half = 1

(* The headers are where databases start, and nowhere else. *)
HeadersAt(lay) ==
  /\ \A d \in 1..Headed : HeaderAt(lay, d)
  /\ \A i \in DOMAIN out : IsHeader(i) <=> \E d \in 1..Headed : i = lay.start[d]

(* A page that is in no WAL is copied, as SQLite reads it. *)
FilesAt(lay) ==
  /\ \A d \in 1..Measured : 1..db[d].size \ FramePages(d) \subseteq 1..lay.copied[d]
  /\ \A d \in 1..Finished : PagesAt(lay, d, lay.copied[d]) /\ WalAt(lay, d)
  /\ stage = "main" => lay.copied[at] = len /\ PagesAt(lay, at, page)

Layout(lay) ==
  /\ Sized(lay) /\ Placed(lay) /\ EndsAt(lay) /\ HeadersAt(lay) /\ FilesAt(lay)
  /\ stage \in Reading => Len(out) = total

(* Where checkpoints make every main file longer, or every one shorter, so do the
   three times a file is sized follow each other. *)
Directions == {"longer", "shorter"}
Towards(direction, x, y) == IF direction = "longer" THEN x <= y ELSE y <= x

Directed(direction, lay) ==
  /\ \A d \in DOMAIN db : Towards(direction, Len(db[d].main), db[d].size)
  /\ \A d \in 1..Announced : Towards(direction, lay.announced[d], Len(db[d].main))
  /\ \A d \in 1..Headed : /\ Towards(direction, lay.announced[d], lay.header[d])
                           /\ Towards(direction, lay.header[d], Len(db[d].main))
  /\ \A d \in 1..Measured : Towards(direction, lay.header[d], lay.copied[d])

(* A step of the writer, or of a checkpoint, extends the layout. *)
Extends(lay) ==
  \E new \in Layouts :
    /\ Layout(new)'
    /\ \A direction \in Directions : Directed(direction, lay) => Directed(direction, new)'

-----------------------------------------------------------------------------
(* The reader, where the headers are right. *)
Exact(lay) == \A d \in DOMAIN db : lay.header[d] = lay.copied[d]

DataAt(lay, d, p) == out[lay.start[d] + 2 * p].data

MainLoaded(lay, d, k) ==
  /\ DOMAIN loaded[d] = 1..k
  /\ \A p \in 1..k : loaded[d][p] = DataAt(lay, d, p)

(* The main file and the first f frames were loaded. *)
FramesLoaded(lay, d, f) ==
  LET wal == db[d].wal
  IN /\ \A g \in 1..f :
          /\ wal[g].page \in DOMAIN loaded[d]
          /\ (\A h \in (g + 1)..f : wal[h].page # wal[g].page) => loaded[d][wal[g].page] = wal[g].data
     /\ \A p \in 1..lay.copied[d] :
          /\ p \in DOMAIN loaded[d]
          /\ (\A g \in 1..f : wal[g].page # p) => loaded[d][p] = DataAt(lay, d, p)

(* The loader is to take units up to number n. *)
Limited(n) == Taken + Len(lbuf) + limit = n

Loaded == IF stage \in {"read_database"} \cup Loading THEN at - 1
          ELSE IF stage = "done" THEN Len(db) ELSE 0

Cursor(lay) ==
  LET pages == lay.start[at] + 1
      frames == pages + 2 * lay.copied[at]
      end == lay.start[at + 1] - 1
  IN /\ stage = "read_database" => Taken = lay.start[at] - 1
     /\ stage = "read_main" =>
          \E k \in 0..lay.copied[at] :
            /\ Taken = pages + 2 * k /\ Limited(frames)
            /\ wal_size = WalSize(at)
            /\ MainLoaded(lay, at, k)
     /\ stage = "read_wal" => Taken = frames /\ Limited(end) /\ FramesLoaded(lay, at, 0)
     /\ stage = "read_frame" =>
          \E f \in 0..Len(db[at].wal) :
            /\ db[at].wal # <<>>
            /\ Taken = frames + 1 + 3 * f /\ Limited(end)
            /\ FramesLoaded(lay, at, f)

Read(lay) ==
  /\ Cursor(lay)
  /\ \A d \in 1..Loaded : FramesLoaded(lay, d, Len(db[d].wal))

-----------------------------------------------------------------------------
(* Lemmas about units. *)
(* A frame is a header and a page: three units. *)
LEMMA FrameUnitsAre ==
  ASSUME NEW frame \in WalFrame
  PROVE  /\ FrameUnits(frame) \in Seq(FileUnit)
         /\ Len(FrameUnits(frame)) = 3
         /\ FrameUnits(frame)[1] = [type |-> "frame", page |-> frame.page]
         /\ FrameUnits(frame)[2] = [type |-> "page", data |-> frame.data, half |-> 1]
         /\ FrameUnits(frame)[3] = [type |-> "page", data |-> frame.data, half |-> 2]
<1> DEFINE first == <<[type |-> "frame", page |-> frame.page]>>
           units == PageUnits(frame.data)
<1>1. frame.page \in Nat \ {0} /\ frame.data \in Content
  BY DEF WalFrame
<1>2. first \in Seq(FileUnit) /\ Len(first) = 1 /\ first[1] = [type |-> "frame", page |-> frame.page]
  BY <1>1 DEF FileUnit
<1>3. /\ units \in Seq(FileUnit) /\ Len(units) = 2
      /\ units[1] = [type |-> "page", data |-> frame.data, half |-> 1]
      /\ units[2] = [type |-> "page", data |-> frame.data, half |-> 2]
  BY <1>1 DEF FileUnit, PageUnits, Data
<1>4. FrameUnits(frame) = first \o units
  BY DEF FrameUnits
<1> HIDE DEF first, units
<1>5. /\ first \o units \in Seq(FileUnit) /\ Len(first \o units) = Len(first) + Len(units)
      /\ \A i \in 1..Len(first) : (first \o units)[i] = first[i]
      /\ \A i \in 1..Len(units) : (first \o units)[Len(first) + i] = units[i]
  BY <1>2, <1>3, ConcatIs
<1>6. /\ (first \o units)[1] = first[1]
      /\ (first \o units)[2] = units[1]
      /\ (first \o units)[3] = units[2]
  BY <1>2, <1>3, <1>5
<1> QED BY <1>2, <1>3, <1>4, <1>5, <1>6

(* The units of a WAL, frame by frame. *)
LEMMA WalUnitsAre ==
  ASSUME NEW d, db[d].wal \in Seq(WalFrame)
  PROVE  /\ WalUnits(d) \in Seq(FileUnit)
         /\ db[d].wal = <<>> => WalSize(d) = 0
         /\ db[d].wal # <<>> =>
              /\ WalSize(d) = 1 + 3 * Len(db[d].wal)
              /\ WalUnits(d)[1] = [type |-> "wal"]
              /\ \A f \in 1..Len(db[d].wal) :
                   LET frame == db[d].wal[f]
                   IN /\ WalUnits(d)[3 * f - 1] = [type |-> "frame", page |-> frame.page]
                      /\ WalUnits(d)[3 * f] = [type |-> "page", data |-> frame.data, half |-> 1]
                      /\ WalUnits(d)[3 * f + 1] = [type |-> "page", data |-> frame.data, half |-> 2]
<1>1. CASE db[d].wal = <<>>
  BY <1>1 DEF WalUnits, WalSize
<1>2. CASE db[d].wal # <<>>
  <2> DEFINE wal == db[d].wal
             seqs == [f \in DOMAIN wal |-> FrameUnits(wal[f])]
             first == <<[type |-> "wal"]>>
             flat == FlattenSeq(seqs)
  <2>1. wal \in Seq(WalFrame) /\ Len(wal) \in Nat /\ DOMAIN wal = 1..Len(wal)
    OBVIOUS
  <2>2. \A f \in 1..Len(wal) : wal[f] \in WalFrame
    BY <2>1
  <2> HIDE DEF wal
  <2>3. \A f \in 1..Len(wal) : FrameUnits(wal[f]) \in Seq(FileUnit) /\ Len(FrameUnits(wal[f])) = 3
    BY <2>2, FrameUnitsAre
  <2>4. seqs \in Seq(Seq(FileUnit)) /\ Len(seqs) = Len(wal) /\ \A f \in DOMAIN seqs : Len(seqs[f]) = 3
    BY <2>1, <2>3
  <2>5. first \in Seq(FileUnit) /\ Len(first) = 1 /\ first[1] = [type |-> "wal"]
    BY DEF FileUnit
  <2>6. WalUnits(d) = first \o flat
    BY <1>2 DEF WalUnits, wal
  <2>7. \A f \in 1..Len(wal) : seqs[f] = FrameUnits(wal[f]) /\ f \in DOMAIN seqs
    BY <2>1
  <2> HIDE DEF seqs, first
  <2>8. /\ flat \in Seq(FileUnit)
        /\ Len(flat) = 3 * Len(wal)
        /\ \A f \in DOMAIN seqs, i \in 1..3 : flat[3 * (f - 1) + i] = seqs[f][i]
    <3> DEFINE w == 3
    <3>1. w \in Nat /\ \A f \in DOMAIN seqs : Len(seqs[f]) = w
      BY <2>4
    <3> HIDE DEF w
    <3>2. /\ FlattenSeq(seqs) \in Seq(FileUnit)
          /\ Len(FlattenSeq(seqs)) = w * Len(seqs)
          /\ \A f \in DOMAIN seqs, i \in 1..w : FlattenSeq(seqs)[w * (f - 1) + i] = seqs[f][i]
      <4>1. /\ seqs \in Seq(Seq(FileUnit)) /\ w \in Nat
            /\ \A f \in DOMAIN seqs : Len(seqs[f]) = w
        BY <2>4, <3>1
      <4> QED BY ONLY <4>1, FlattenEqualLengths
    <3> QED BY <2>4, <3>2 DEF w
  <2> HIDE DEF flat
  <2>9. /\ WalUnits(d) \in Seq(FileUnit) /\ Len(WalUnits(d)) = 1 + 3 * Len(wal)
        /\ WalUnits(d)[1] = [type |-> "wal"]
        /\ \A j \in 1..(3 * Len(wal)) : WalUnits(d)[1 + j] = flat[j]
    <3>0. first \in Seq(FileUnit) /\ flat \in Seq(FileUnit)
      BY <2>5, <2>8
    <3>1. /\ first \o flat \in Seq(FileUnit) /\ Len(first \o flat) = Len(first) + Len(flat)
          /\ \A i \in 1..Len(first) : (first \o flat)[i] = first[i]
          /\ \A j \in 1..Len(flat) : (first \o flat)[Len(first) + j] = flat[j]
      BY <3>0, ConcatIs
    <3> QED BY <2>5, <2>6, <2>8, <3>1
  <2>10. ASSUME NEW f \in 1..Len(wal), NEW i \in 1..3
         PROVE  WalUnits(d)[3 * f - 2 + i] = FrameUnits(wal[f])[i]
    <3>1. 3 * (f - 1) + i \in 1..(3 * Len(wal)) /\ 1 + (3 * (f - 1) + i) = 3 * f - 2 + i
      BY <2>1
    <3>2. f \in DOMAIN seqs /\ seqs[f] = FrameUnits(wal[f])
      BY <2>7
    <3>3. flat[3 * (f - 1) + i] = seqs[f][i]
      BY <2>8, <3>2
    <3>4. WalUnits(d)[1 + (3 * (f - 1) + i)] = flat[3 * (f - 1) + i]
      BY <2>9, <3>1
    <3> QED BY <3>1, <3>2, <3>3, <3>4
  <2>11. ASSUME NEW f \in 1..Len(wal)
         PROVE  /\ WalUnits(d)[3 * f - 1] = [type |-> "frame", page |-> wal[f].page]
                /\ WalUnits(d)[3 * f] = [type |-> "page", data |-> wal[f].data, half |-> 1]
                /\ WalUnits(d)[3 * f + 1] = [type |-> "page", data |-> wal[f].data, half |-> 2]
    <3>1. 3 * f - 2 + 1 = 3 * f - 1 /\ 3 * f - 2 + 2 = 3 * f /\ 3 * f - 2 + 3 = 3 * f + 1
      BY <2>1
    <3>2. /\ WalUnits(d)[3 * f - 1] = FrameUnits(wal[f])[1]
          /\ WalUnits(d)[3 * f] = FrameUnits(wal[f])[2]
          /\ WalUnits(d)[3 * f + 1] = FrameUnits(wal[f])[3]
      BY <2>10, <3>1
    <3> QED BY <2>2, <3>2, FrameUnitsAre
  <2> QED BY <1>2, <2>9, <2>11 DEF WalSize, wal
<1> QED BY <1>1, <1>2

-----------------------------------------------------------------------------
(* TInv. *)
LEMMA MaxOfTwo ==
  ASSUME NEW a \in Nat, NEW b \in Nat
  PROVE  Max({a, b}) = IF a <= b THEN b ELSE a
<1>1. CASE a <= b
  <2>1. b \in {a, b} /\ {a, b} \subseteq Nat /\ \A x \in {a, b} : x <= b
    BY <1>1
  <2>2. Max({a, b}) = b
    BY <2>1, MaxIs
  <2> QED BY <1>1, <2>2
<1>2. CASE ~(a <= b)
  <2>1. a \in {a, b} /\ {a, b} \subseteq Nat /\ \A x \in {a, b} : x <= a
    BY <1>2
  <2>2. Max({a, b}) = a
    BY <2>1, MaxIs
  <2> QED BY <1>2, <2>2
<1> QED BY <1>1, <1>2

(* The invariant contains the types. *)
LEMMA InvIsTyped == TInv => TypeOK
<1> SUFFICES ASSUME TInv PROVE TypeOK
  OBVIOUS
<1>1. /\ stage \in {"size", "header", "database", "main_len", "main", "encoded",
                    "read_header", "read_database", "read_main", "read_wal", "read_frame",
                    "done", "failed"}
      /\ total \in Nat /\ len \in Nat /\ page \in 0..len
      /\ pos \in 0..Len(out) /\ limit \in Nat
      /\ Len(buf) < 2 + Chunk /\ Len(lbuf) < 3 + Chunk
  BY DEF TInv, Stages, Counters, Buffers, Writing, Checkpointing, Reading, Loading
<1>2. at \in 1..Max({1, Len(db)})
  <2>1. Len(db) \in Nat /\ (db = <<>> => Len(db) = 0)
    BY DEF TInv, Files
  <2>2. Max({1, Len(db)}) = IF 1 <= Len(db) THEN Len(db) ELSE 1
    BY <2>1, MaxOfTwo
  <2> QED BY <2>1, <2>2 DEF TInv, Stages
<1>3. ASSUME NEW d \in DOMAIN loaded, NEW p \in DOMAIN loaded[d]
      PROVE  loaded[d][p] \in Content \cup {Hole}
  <2>1. loaded[d] \in Rows
    BY DEF TInv, LoadedInOrder
  <2> QED BY <2>1 DEF Rows, Data
<1> QED BY <1>1, <1>2, <1>3 DEF TypeOK

(* Nothing has been read or written at first. *)
LEMMA TInit == Init => TInv
<1> SUFFICES ASSUME Init PROVE TInv
  OBVIOUS
<1>1. PICK s \in Attached : db = [i \in DOMAIN s |-> Opened(s[i])]
  BY DEF Init
<1>2. s \in Seq(AttachedDatabase)
  BY <1>1, AttachedAssumption
<1>3. Len(s) \in Nat /\ DOMAIN s = 1..Len(s) /\ \A i \in 1..Len(s) : s[i] \in AttachedDatabase
  BY <1>2
<1>4. Files
  <2>1. ASSUME NEW i \in 1..Len(s)
        PROVE  /\ Opened(s[i]) \in OpenDatabase
               /\ Opened(s[i]).wal = s[i].wal /\ Opened(s[i]).valid = s[i].valid
               /\ Opened(s[i]).main = s[i].main /\ Opened(s[i]).size = s[i].size
    <3>1. s[i].main \in Seq(Data)
      <4>1. s[i].main \in Seq(Content)
        BY <1>3 DEF AttachedDatabase
      <4> QED BY <4>1, SeqMonotonic DEF Data
    <3>2. s[i].wal \in Seq(WalFrame) /\ s[i].valid \in Nat /\ s[i].size \in Nat
      BY <1>3 DEF AttachedDatabase, WalFrame
    <3> QED BY <3>1, <3>2 DEF Opened, OpenDatabase
  <2>2. db \in Seq(OpenDatabase) /\ DOMAIN db = 1..Len(s)
    BY <1>1, <1>3, <2>1
  <2>3. ASSUME NEW d \in DOMAIN db
        PROVE  /\ db[d].valid <= Len(db[d].wal)
               /\ 1..db[d].size \subseteq DOMAIN db[d].main \cup FramePages(d)
    <3>1. d \in 1..Len(s) /\ db[d] = Opened(s[d])
      BY <1>1, <2>2
    <3>2. /\ s[d].valid <= Len(s[d].wal)
          /\ 1..s[d].size \subseteq DOMAIN s[d].main \cup {s[d].wal[f].page : f \in 1..s[d].valid}
      BY <1>3, <3>1, AttachedAssumption
    <3> QED BY <2>1, <3>1, <3>2 DEF FramePages
  <2> QED BY <2>2, <2>3 DEF Files
<1>5. stage \in {"size", "header"} /\ (stage = "size" => db # <<>>) /\ at = 1
  BY DEF Init
<1>6. db # <<>> => at <= Len(db)
  BY <1>4, <1>5, EmptySeq DEF Files
<1>7. Stages
  BY <1>5, <1>6 DEF Stages, Writing, Checkpointing, Loading
<1>8. Counters
  BY <1>5 DEF Init, Counters, Reading, Loading
<1>9. <<>> \in Seq(Unit) /\ Len(<<>>) = 0 /\ <<>> \in Seq(Rows)
  OBVIOUS
<1>10. Chunk \in Nat \ {0}
  BY AttachedAssumption
<1>11. Buffers
  BY <1>9, <1>10 DEF Init, Buffers, Taken
<1>12. FirstIsHeader
  BY <1>5 DEF FirstIsHeader
<1>13. LoadedInOrder
  BY <1>5, <1>9 DEF Init, LoadedInOrder, Writing, Checkpointing, Loading
<1> QED BY <1>4, <1>7, <1>8, <1>11, <1>12, <1>13 DEF TInv

(* The fields of an attached database. *)
LEMMA DatabaseIs ==
  ASSUME Files, NEW d \in DOMAIN db
  PROVE  /\ DOMAIN db = 1..Len(db) /\ Len(db) \in Nat /\ d \in 1..Len(db)
         /\ db[d] \in OpenDatabase
         /\ db[d].main \in Seq(Data) /\ db[d].size \in Nat /\ db[d].copied \in Nat
         /\ db[d].wal \in Seq(WalFrame) /\ db[d].valid \in Nat /\ db[d].valid <= Len(db[d].wal)
         /\ 1..db[d].size \subseteq DOMAIN db[d].main \cup FramePages(d)
         /\ FramePages(d) \subseteq Nat \ {0}
         /\ Len(db[d].main) \in Nat /\ DOMAIN db[d].main = 1..Len(db[d].main)
         /\ Len(db[d].wal) \in Nat
<1>1. db \in Seq(OpenDatabase) /\ DOMAIN db = 1..Len(db) /\ Len(db) \in Nat
  BY DEF Files
<1>2. db[d] \in OpenDatabase /\ d \in 1..Len(db)
  BY <1>1
<1>3. /\ db[d].main \in Seq(Data) /\ db[d].size \in Nat /\ db[d].copied \in Nat
      /\ db[d].wal \in Seq(WalFrame) /\ db[d].valid \in Nat
  BY <1>2 DEF OpenDatabase
<1>4. /\ db[d].valid <= Len(db[d].wal)
      /\ 1..db[d].size \subseteq DOMAIN db[d].main \cup FramePages(d)
  BY DEF Files
<1>5. /\ Len(db[d].main) \in Nat /\ DOMAIN db[d].main = 1..Len(db[d].main)
      /\ Len(db[d].wal) \in Nat
  BY <1>3
<1>6. ASSUME NEW f \in 1..db[d].valid PROVE db[d].wal[f].page \in Nat \ {0}
  <2>1. f \in 1..Len(db[d].wal)
    BY <1>3, <1>4, <1>5
  <2>2. db[d].wal[f] \in WalFrame
    BY <1>3, <2>1
  <2> QED BY <2>2 DEF WalFrame
<1> QED BY <1>1, <1>2, <1>3, <1>4, <1>5, <1>6 DEF FramePages

(* What a checkpoint does to the files: WALs stay, and so does every page that is
   not in one; a main file goes towards the size and not beyond it. *)
Moved(d) ==
  LET size == db[d].size
      old == Len(db[d].main)
      new == Len(db'[d].main)
  IN /\ old <= size => old <= new /\ new <= size
     /\ size <= old => size <= new /\ new <= old

(* A step of a checkpoint changes one main file, and copies a page into it or
   cuts it to the size of its database. *)
LEMMA CheckpointIs ==
  ASSUME Files, NEW d \in DOMAIN db, Checkpoint(d)
  PROVE  /\ db' \in Seq(OpenDatabase) /\ Len(db') = Len(db) /\ DOMAIN db' = DOMAIN db
         /\ \A e \in DOMAIN db :
              /\ db'[e].wal = db[e].wal /\ db'[e].valid = db[e].valid /\ db'[e].size = db[e].size
              /\ \A p \in 1..db[e].size \ FramePages(e) :
                   p \in DOMAIN db[e].main /\ p \in DOMAIN db'[e].main /\ db'[e].main[p] = db[e].main[p]
              /\ Moved(e)
<1> DEFINE main == db[d].main
           size == db[d].size
           left == {p \in Copied(d) : p > db[d].copied}
           m == Min(left)
           put == PutPage(main, m, PageOf(d, m))
           cut == SubSeq(main, 1, size)
<1>1. /\ db \in Seq(OpenDatabase) /\ db[d] \in OpenDatabase /\ DOMAIN db = 1..Len(db) /\ Len(db) \in Nat
      /\ main \in Seq(Data) /\ size \in Nat /\ db[d].wal \in Seq(WalFrame) /\ db[d].valid \in Nat
      /\ db[d].valid <= Len(db[d].wal)
      /\ \A e \in DOMAIN db : 1..db[e].size \subseteq DOMAIN db[e].main \cup FramePages(e)
  BY DatabaseIs DEF Files
<1>2. ASSUME NEW f \in 1..db[d].valid PROVE db[d].wal[f] \in WalFrame
  <2>1. f \in 1..Len(db[d].wal)
    BY <1>1
  <2> QED BY <1>1, <2>1
<1>3. Copied(d) = {p \in FramePages(d) : p <= size} /\ FramePages(d) \subseteq Nat \ {0}
  BY <1>2 DEF Copied, FramePages, WalFrame
<1>4. Len(main) \in Nat /\ DOMAIN main = 1..Len(main)
  BY <1>1
<1>5. ASSUME left # {}
      PROVE  /\ put \in Seq(Data) /\ m \in FramePages(d) /\ m \in 1..size
             /\ Len(put) = IF m <= Len(main) THEN Len(main) ELSE m
             /\ DOMAIN put = 1..Len(put)
             /\ \A q \in DOMAIN main : q # m => put[q] = main[q]
  <2>1. left \subseteq Nat
    BY <1>3
  <2>2. m \in left
    <3> HIDE DEF left
    <3> QED BY <1>5, <2>1, MinExists
  <2>3. m \in FramePages(d) /\ m \in 1..size
    <3> HIDE DEF m
    <3> QED BY <1>1, <1>3, <2>2
  <2>4. PageOf(d, m) \in Data
    <3> DEFINE frames == {f \in 1..db[d].valid : db[d].wal[f].page = m}
    <3>0. PICK f \in 1..db[d].valid : m = db[d].wal[f].page
      BY <2>3 DEF FramePages
    <3>1. f \in frames /\ frames \subseteq 1..db[d].valid
      BY <3>0
    <3> HIDE DEF frames
    <3>2. frames # {} /\ frames \subseteq Nat /\ \A g \in frames : g <= db[d].valid
      BY <1>1, <3>1
    <3>3. Max(frames) \in frames
      BY <1>1, <3>2, MaxExists
    <3>4. db[d].wal[Max(frames)].data \in Content
      BY <1>2, <3>1, <3>3 DEF WalFrame
    <3> QED BY <3>2, <3>4 DEF PageOf, Data, frames
  <2> HIDE DEF m
  <2> DEFINE k == IF m <= Len(main) THEN Len(main) ELSE m
  <2>5. Max({m, Len(main)}) = k /\ k \in Nat
    BY <1>4, <2>3, MaxOfTwo
  <2>6. put = [q \in 1..k |-> IF q = m THEN PageOf(d, m) ELSE IF q <= Len(main) THEN main[q] ELSE Hole]
    BY <2>5 DEF PutPage
  <2>7. \A q \in 1..k : put[q] \in Data
    <3>1. \A q \in 1..Len(main) : main[q] \in Data
      BY <1>1
    <3> HIDE DEF main
    <3> QED BY <1>4, <2>4, <2>5, <2>6, <3>1 DEF Data
  <2> HIDE DEF k, put
  <2>8. put \in Seq(Data) /\ Len(put) = k /\ DOMAIN put = 1..k
    BY <2>5, <2>6, <2>7
  <2>9. \A q \in DOMAIN main : q # m => put[q] = main[q]
    BY <1>4, <2>3, <2>5, <2>6 DEF k
  <2> QED BY <2>3, <2>8, <2>9 DEF k
<1> HIDE DEF m
<1>6. ASSUME Len(main) > size
      PROVE  /\ cut \in Seq(Data) /\ Len(cut) = size /\ DOMAIN cut = 1..size
             /\ \A q \in 1..size : cut[q] = main[q]
  BY <1>1, <1>4, <1>6
<1>7. \/ left # {} /\ db' = [db EXCEPT ![d].main = put, ![d].copied = m]
      \/ Len(main) > size /\ db' = [db EXCEPT ![d].main = cut]
  BY DEF Checkpoint, m
<1>8. \E r \in OpenDatabase :
        /\ db' = [db EXCEPT ![d] = r]
        /\ r.wal = db[d].wal /\ r.valid = db[d].valid /\ r.size = size
        /\ \A p \in 1..size \ FramePages(d) : p \in DOMAIN r.main /\ r.main[p] = main[p]
        /\ Len(main) <= size => Len(main) <= Len(r.main) /\ Len(r.main) <= size
        /\ size <= Len(main) => size <= Len(r.main) /\ Len(r.main) <= Len(main)
  <2>1. CASE left # {} /\ db' = [db EXCEPT ![d].main = put, ![d].copied = m]
    <3>1. /\ put \in Seq(Data) /\ m \in FramePages(d) /\ m \in 1..size
          /\ Len(put) = IF m <= Len(main) THEN Len(main) ELSE m
          /\ DOMAIN put = 1..Len(put)
          /\ \A q \in DOMAIN main : q # m => put[q] = main[q]
      BY <1>5, <2>1
    <3>2. m \in Nat
      BY <3>1
    <3> DEFINE r == [db[d] EXCEPT !.main = put, !.copied = m]
    <3>3. db' = [db EXCEPT ![d] = r]
      BY <2>1
    <3>4. /\ r \in OpenDatabase
          /\ r.main = put /\ r.wal = db[d].wal /\ r.valid = db[d].valid /\ r.size = db[d].size
      <4> HIDE DEF put
      <4>1. put \in Seq(Data) /\ m \in Nat /\ db[d] \in OpenDatabase
        BY <1>1, <3>1, <3>2
      <4>2. PICK old \in OpenDatabase : old = db[d]
        BY <4>1
      <4>3. PICK new \in Seq(Data), copied \in Nat : new = put /\ copied = m
        BY <4>1
      <4> DEFINE s == [old EXCEPT !.main = new, !.copied = copied]
      <4>4. s \in OpenDatabase /\ s.main = new /\ s.wal = old.wal /\ s.valid = old.valid /\ s.size = old.size
        BY DEF OpenDatabase
      <4>5. r = s
        BY <4>2, <4>3
      <4> HIDE DEF r, s
      <4> QED BY <4>2, <4>3, <4>4, <4>5
    <3> HIDE DEF put, left, r
    <3>5. \A p \in 1..size \ FramePages(d) : p \in DOMAIN put /\ put[p] = main[p]
      <4>1. ASSUME NEW p \in 1..size \ FramePages(d) PROVE p \in DOMAIN put /\ put[p] = main[p]
        <5>1. p \in DOMAIN main /\ p # m
          BY <1>1, <3>1
        <5>2. Len(main) <= Len(put) /\ Len(put) \in Nat
          <6> HIDE DEF m, main
          <6> QED BY <1>4, <3>1, <3>2
        <5> HIDE DEF m, main
        <5>3. p \in 1..Len(put)
          BY <1>4, <5>1, <5>2
        <5> QED BY <3>1, <5>1, <5>3
      <4> QED BY <4>1
    <3>6. /\ Len(main) <= size => Len(main) <= Len(put) /\ Len(put) <= size
          /\ size <= Len(main) => size <= Len(put) /\ Len(put) <= Len(main)
      BY <1>1, <1>4, <3>1
    <3> QED BY <3>3, <3>4, <3>5, <3>6
  <2>2. CASE Len(main) > size /\ db' = [db EXCEPT ![d].main = cut]
    <3>1. /\ cut \in Seq(Data) /\ Len(cut) = size /\ DOMAIN cut = 1..size
          /\ \A q \in 1..size : cut[q] = main[q]
      BY <1>6, <2>2
    <3> DEFINE r == [db[d] EXCEPT !.main = cut]
    <3>3. db' = [db EXCEPT ![d] = r]
      BY <2>2
    <3>4. /\ r \in OpenDatabase
          /\ r.main = cut /\ r.wal = db[d].wal /\ r.valid = db[d].valid /\ r.size = db[d].size
      <4> HIDE DEF cut
      <4>1. db[d] \in OpenDatabase /\ cut \in Seq(Data)
        BY <1>1, <3>1
      <4> QED BY <4>1 DEF OpenDatabase
    <3> HIDE DEF cut, r
    <3>6. /\ Len(main) <= size => Len(main) <= Len(cut) /\ Len(cut) <= size
          /\ size <= Len(main) => size <= Len(cut) /\ Len(cut) <= Len(main)
      BY <1>1, <1>4, <2>2, <3>1
    <3> QED BY <3>1, <3>3, <3>4, <3>6
  <2> QED BY <1>7, <2>1, <2>2
<1> HIDE DEF put, cut, left
<1>9. PICK r \in OpenDatabase :
        /\ db' = [db EXCEPT ![d] = r]
        /\ r.wal = db[d].wal /\ r.valid = db[d].valid /\ r.size = size
        /\ \A p \in 1..size \ FramePages(d) : p \in DOMAIN r.main /\ r.main[p] = main[p]
        /\ Len(main) <= size => Len(main) <= Len(r.main) /\ Len(r.main) <= size
        /\ size <= Len(main) => size <= Len(r.main) /\ Len(r.main) <= Len(main)
  BY <1>8
<1>10. /\ db' \in Seq(OpenDatabase) /\ Len(db') = Len(db) /\ DOMAIN db' = DOMAIN db
       /\ \A e \in DOMAIN db : e # d => db'[e] = db[e]
       /\ db'[d] = r
  BY <1>1, <1>9
<1>11. ASSUME NEW e \in DOMAIN db
       PROVE  /\ db'[e].wal = db[e].wal /\ db'[e].valid = db[e].valid /\ db'[e].size = db[e].size
              /\ \A p \in 1..db[e].size \ FramePages(e) :
                   p \in DOMAIN db[e].main /\ p \in DOMAIN db'[e].main /\ db'[e].main[p] = db[e].main[p]
              /\ Moved(e)
  <2>1. CASE e = d
    BY <1>1, <1>9, <1>10, <2>1 DEF Moved
  <2>2. CASE e # d
    <3>1. db'[e] = db[e]
      BY <1>10, <2>2
    <3>2. \A p \in 1..db[e].size \ FramePages(e) : p \in DOMAIN db[e].main
      BY <1>1
    <3>3. Len(db[e].main) \in Nat /\ db[e].size \in Nat
      BY DatabaseIs
    <3> QED BY <3>1, <3>2, <3>3 DEF Moved
  <2> QED BY <2>1, <2>2
<1> QED BY <1>10, <1>11

(* Units by their type. *)
LEMMA UnitIs ==
  ASSUME NEW u \in Unit
  PROVE  /\ u.type = "header" => u.n \in Nat
         /\ u.type = "database" => u.main_size \in Nat /\ u.wal_size \in Nat
         /\ u.type = "page" => u.data \in Data
         /\ u.type = "frame" => u.page \in Nat \ {0}
<1>1. CASE u \in [type : {"header"}, n : Nat, half : {1, 2}]
  BY <1>1
<1>2. CASE u \in [type : {"database"}, main_size : Nat, wal_size : Nat, half : {1, 2}]
  BY <1>2
<1>3. CASE u \in [type : {"page"}, data : Data, half : {1, 2}]
  BY <1>3
<1>4. CASE u \in [type : {"frame"}, page : Nat \ {0}]
  BY <1>4
<1>5. CASE u \in [type : {"wal"}]
  BY <1>5
<1> QED BY <1>1, <1>2, <1>3, <1>4, <1>5 DEF Unit, FileUnit

(* What is left of a sequence without its first k elements. *)
LEMMA RestIs ==
  ASSUME NEW S, NEW s \in Seq(S), NEW k \in 0..Len(s)
  PROVE  /\ SubSeq(s, k + 1, Len(s)) \in Seq(S)
         /\ Len(SubSeq(s, k + 1, Len(s))) = Len(s) - k
         /\ \A i \in 1..(Len(s) - k) : SubSeq(s, k + 1, Len(s))[i] = s[k + i]
<1>1. Len(s) \in Nat /\ \A i \in 1..Len(s) : s[i] \in S
  OBVIOUS
<1> QED BY <1>1

(* What a read may return. *)
LEMMA SizesAre ==
  ASSUME NEW room \in Nat, NEW available \in Nat, NEW n \in Sizes(room, available)
  PROVE  n \in Nat \ {0} /\ n <= Chunk /\ n <= room /\ n <= available
<1> DEFINE sizes == {Chunk, room, available}
<1>1. sizes # {} /\ sizes \subseteq Nat
  BY AttachedAssumption
<1>2. Min(sizes) \in sizes /\ \A x \in sizes : Min(sizes) <= x
  <2> HIDE DEF sizes
  <2> QED BY <1>1, MinExists
<1>3. n \in 1..Min(sizes)
  BY DEF Sizes
<1> DEFINE m == Min(sizes)
<1>4. m \in Nat /\ m <= Chunk /\ m <= room /\ m <= available /\ n \in 1..m
  BY <1>1, <1>2, <1>3
<1> HIDE DEF m
<1> QED BY <1>4, AttachedAssumption

(* A read returns the next units of the file. *)
LEMMA NextUnitsAre ==
  ASSUME Buffers, NEW n \in Nat, n <= Len(out) - pos
  PROVE  /\ NextUnits(n) \in Seq(Unit) /\ Len(NextUnits(n)) = n
         /\ \A i \in 1..n : NextUnits(n)[i] = out[pos + i]
<1>1. out \in Seq(Unit) /\ Len(out) \in Nat /\ pos \in Nat /\ \A i \in 1..Len(out) : out[i] \in Unit
  BY DEF Buffers
<1> QED BY <1>1 DEF NextUnits

(* The buffers when what was read grows, and when the front of it is used. *)
Grow(n) ==
  /\ n <= Len(out) - pos /\ n <= Chunk
  /\ stage \notin Writing /\ UNCHANGED <<out, stage>>
  /\ pos' = pos + n
  /\ \/ /\ Len(buf) < 2
        /\ buf' = buf \o NextUnits(n) /\ UNCHANGED lbuf
     \/ /\ stage \notin {"read_header", "read_database"}
        /\ buf = <<>> /\ Len(lbuf) < 3
        /\ lbuf' = lbuf \o NextUnits(n) /\ UNCHANGED buf

(* A read keeps the buffers pieces of the file, one behind the other. *)
LEMMA BuffersGrow ==
  ASSUME Buffers, NEW n \in Nat, Grow(n)
  PROVE  Buffers' /\ Taken' = Taken
<1> DEFINE next == NextUnits(n)
<1>1. next \in Seq(Unit) /\ Len(next) = n /\ \A i \in 1..n : next[i] = out[pos + i]
  BY NextUnitsAre DEF Grow
<1>2. /\ out \in Seq(Unit) /\ buf \in Seq(Unit) /\ lbuf \in Seq(Unit)
      /\ Len(out) \in Nat /\ Len(buf) \in Nat /\ Len(lbuf) \in Nat
      /\ pos \in 0..Len(out) /\ Taken \in Nat
      /\ Len(buf) < 2 + Chunk /\ Len(lbuf) < 3 + Chunk
      /\ \A i \in 1..Len(lbuf) : lbuf[i] = out[Taken + i]
      /\ \A i \in 1..Len(buf) : buf[i] = out[Taken + Len(lbuf) + i]
  BY DEF Buffers
<1>3. Taken = pos - Len(buf) - Len(lbuf) /\ Chunk \in Nat
  BY AttachedAssumption DEF Taken
<1> HIDE DEF next
<1>6. stage \notin Writing /\ out' = out /\ stage' = stage /\ pos' = pos + n /\ n <= Chunk /\ n <= Len(out) - pos
  BY DEF Grow
<1>4. CASE buf' = buf \o next /\ lbuf' = lbuf /\ Len(buf) < 2
  <2>1. /\ buf' \in Seq(Unit) /\ Len(buf') = Len(buf) + n
        /\ \A i \in 1..Len(buf) : buf'[i] = buf[i]
        /\ \A i \in 1..n : buf'[Len(buf) + i] = next[i]
    <3>0. buf \in Seq(Unit) /\ next \in Seq(Unit)
      BY <1>1, <1>2
    <3>1. /\ buf \o next \in Seq(Unit) /\ Len(buf \o next) = Len(buf) + Len(next)
          /\ \A i \in 1..Len(buf) : (buf \o next)[i] = buf[i]
          /\ \A i \in 1..Len(next) : (buf \o next)[Len(buf) + i] = next[i]
      BY <3>0, ConcatIs
    <3> QED BY <1>1, <1>4, <3>1
  <2>2. Taken' = Taken
    <3>1. /\ pos \in Nat /\ Len(buf) \in Nat /\ Len(lbuf) \in Nat
          /\ pos' = pos + n /\ Len(buf') = Len(buf) + n /\ lbuf' = lbuf
      BY <1>2, <1>4, <1>6, <2>1
    <3> QED BY <3>1 DEF Taken
  <2>3. ASSUME NEW i \in 1..Len(buf') PROVE buf'[i] = out[Taken + Len(lbuf) + i]
    <3>1. CASE i <= Len(buf)
      BY <1>2, <2>1, <3>1
    <3>2. CASE ~(i <= Len(buf))
      <4>1. i - Len(buf) \in 1..n /\ i = Len(buf) + (i - Len(buf))
            /\ pos + (i - Len(buf)) = Taken + Len(lbuf) + i
        BY <1>2, <1>3, <2>1, <3>2
      <4> QED BY <1>1, <2>1, <4>1
    <3> QED BY <3>1, <3>2
  <2>4. pos' \in 0..Len(out') /\ Len(buf') < 2 + Chunk
    BY <1>2, <1>3, <1>4, <1>6, <2>1
  <2> QED BY <1>2, <1>4, <1>6, <2>1, <2>2, <2>3, <2>4 DEF Buffers
<1>5. CASE /\ lbuf' = lbuf \o next /\ buf' = buf /\ buf = <<>> /\ Len(lbuf) < 3
           /\ stage \notin {"read_header", "read_database"}
  <2>1. /\ lbuf' \in Seq(Unit) /\ Len(lbuf') = Len(lbuf) + n
        /\ \A i \in 1..Len(lbuf) : lbuf'[i] = lbuf[i]
        /\ \A i \in 1..n : lbuf'[Len(lbuf) + i] = next[i]
    <3>0. lbuf \in Seq(Unit) /\ next \in Seq(Unit)
      BY <1>1, <1>2
    <3>1. /\ lbuf \o next \in Seq(Unit) /\ Len(lbuf \o next) = Len(lbuf) + Len(next)
          /\ \A i \in 1..Len(lbuf) : (lbuf \o next)[i] = lbuf[i]
          /\ \A i \in 1..Len(next) : (lbuf \o next)[Len(lbuf) + i] = next[i]
      BY <3>0, ConcatIs
    <3> QED BY <1>1, <1>5, <3>1
  <2>2. Taken' = Taken /\ Len(buf) = 0
    BY <1>2, <1>3, <1>5, <1>6, <2>1 DEF Taken
  <2>3. ASSUME NEW i \in 1..Len(lbuf') PROVE lbuf'[i] = out[Taken + i]
    <3>1. CASE i <= Len(lbuf)
      BY <1>2, <2>1, <3>1
    <3>2. CASE ~(i <= Len(lbuf))
      <4>1. PICK c \in Nat : c = Len(lbuf)
        BY <1>2
      <4>2. Taken = pos - c /\ Taken \in Nat /\ pos \in Nat
        BY <1>2, <1>3, <2>2, <4>1 DEF Taken
      <4>3. i \in 1..(c + n) /\ ~(i <= c)
        BY <2>1, <3>2, <4>1
      <4>4. i - c \in 1..n /\ i = c + (i - c) /\ pos + (i - c) = Taken + i
        BY ONLY <4>2, <4>3, c \in Nat, n \in Nat
      <4>5. PICK j \in 1..n : j = i - c
        BY <4>4
      <4>6. lbuf'[i] = next[j] /\ next[j] = out[pos + j]
        BY <1>1, <2>1, <4>1, <4>4, <4>5
      <4> QED BY <4>4, <4>5, <4>6
    <3> QED BY <3>1, <3>2
  <2>4. pos' \in 0..Len(out') /\ Len(lbuf') < 3 + Chunk
    BY <1>2, <1>3, <1>5, <1>6, <2>1
  <2> QED BY <1>2, <1>5, <1>6, <2>1, <2>2, <2>3, <2>4 DEF Buffers
<1> QED BY <1>4, <1>5 DEF Grow, next

(* The loader gets what deserialize left. *)
Pass(n) ==
  /\ n <= Len(buf) /\ n <= Chunk
  /\ stage \in Loading /\ UNCHANGED <<out, stage, pos>>
  /\ Len(lbuf) < 3
  /\ lbuf' = lbuf \o SubSeq(buf, 1, n) /\ buf' = SubSeq(buf, n + 1, Len(buf))

(* So does BufReader, which takes units out of BufferedReader.buf, *)
LEMMA BuffersPass ==
  ASSUME Buffers, NEW n \in Nat, Pass(n)
  PROVE  Buffers' /\ Taken' = Taken
<1> DEFINE front == SubSeq(buf, 1, n)
<1>2. /\ out \in Seq(Unit) /\ buf \in Seq(Unit) /\ lbuf \in Seq(Unit)
      /\ Len(out) \in Nat /\ Len(buf) \in Nat /\ Len(lbuf) \in Nat
      /\ pos \in 0..Len(out) /\ Taken \in Nat
      /\ Len(buf) < 2 + Chunk /\ Len(lbuf) < 3 + Chunk
      /\ \A i \in 1..Len(lbuf) : lbuf[i] = out[Taken + i]
      /\ \A i \in 1..Len(buf) : buf[i] = out[Taken + Len(lbuf) + i]
  BY DEF Buffers
<1>10. /\ n <= Len(buf) /\ n <= Chunk /\ Len(lbuf) < 3
       /\ stage \in Loading /\ stage' = stage /\ out' = out /\ pos' = pos
  BY DEF Pass
<1>1. front \in Seq(Unit) /\ Len(front) = n /\ \A i \in 1..n : front[i] = buf[i]
  BY <1>2, <1>10
<1>3. Taken = pos - Len(buf) - Len(lbuf) /\ Chunk \in Nat
  BY AttachedAssumption DEF Taken
<1> HIDE DEF front
<1>4. /\ lbuf' \in Seq(Unit) /\ Len(lbuf') = Len(lbuf) + n
      /\ \A i \in 1..Len(lbuf) : lbuf'[i] = lbuf[i]
      /\ \A i \in 1..n : lbuf'[Len(lbuf) + i] = front[i]
  <2>0. lbuf \in Seq(Unit) /\ front \in Seq(Unit)
    BY <1>1, <1>2
  <2>1. /\ lbuf \o front \in Seq(Unit) /\ Len(lbuf \o front) = Len(lbuf) + Len(front)
        /\ \A i \in 1..Len(lbuf) : (lbuf \o front)[i] = lbuf[i]
        /\ \A i \in 1..Len(front) : (lbuf \o front)[Len(lbuf) + i] = front[i]
    BY <2>0, ConcatIs
  <2>2. lbuf' = lbuf \o front
    BY DEF Pass, front
  <2> QED BY <1>1, <2>1, <2>2
<1>5. /\ buf' \in Seq(Unit) /\ Len(buf') = Len(buf) - n
      /\ \A i \in 1..(Len(buf) - n) : buf'[i] = buf[n + i]
  <2>1. n \in 0..Len(buf) /\ buf' = SubSeq(buf, n + 1, Len(buf))
    BY <1>2, <1>10 DEF Pass
  <2> QED BY <1>2, <2>1, RestIs
<1>6. Taken' = Taken
  <2>1. PICK p \in Nat, a \in Nat, c \in Nat : p = pos /\ a = Len(buf) /\ c = Len(lbuf)
    <3>1. pos \in Nat /\ Len(buf) \in Nat /\ Len(lbuf) \in Nat
      BY <1>2
    <3> QED BY ONLY <3>1
  <2>2. Len(buf') = a - n /\ Len(lbuf') = c + n /\ pos' = p
    BY <1>10, <1>4, <1>5, <2>1
  <2>3. p - (a - n) - (c + n) = p - a - c
    BY <1>10
  <2> QED BY <2>1, <2>2, <2>3 DEF Taken
<1>7. ASSUME NEW i \in 1..Len(lbuf') PROVE lbuf'[i] = out[Taken + i]
  <2>1. CASE i <= Len(lbuf)
    BY <1>2, <1>4, <2>1
  <2>2. CASE ~(i <= Len(lbuf))
    <3>1. /\ i - Len(lbuf) \in 1..n /\ i = Len(lbuf) + (i - Len(lbuf))
          /\ i - Len(lbuf) \in 1..Len(buf) /\ Taken + Len(lbuf) + (i - Len(lbuf)) = Taken + i
      BY <1>2, <1>10, <1>4, <2>2
    <3>2. PICK j \in 1..n : j = i - Len(lbuf)
      BY <3>1
    <3>3. lbuf'[i] = front[j] /\ front[j] = buf[j]
      BY <1>1, <1>4, <3>1, <3>2
    <3>4. buf[j] = out[Taken + Len(lbuf) + j]
      BY <1>2, <3>1, <3>2
    <3> QED BY <3>1, <3>2, <3>3, <3>4
  <2> QED BY <2>1, <2>2
<1>8. ASSUME NEW i \in 1..Len(buf') PROVE buf'[i] = out[Taken + Len(lbuf') + i]
  <2>1. /\ i \in 1..(Len(buf) - n) /\ n + i \in 1..Len(buf)
        /\ Taken + Len(lbuf) + (n + i) = Taken + Len(lbuf') + i
    <3>1. /\ Len(buf) \in Nat /\ Len(lbuf) \in Nat /\ Taken \in Nat
          /\ Len(buf') = Len(buf) - n /\ Len(lbuf') = Len(lbuf) + n
      BY <1>2, <1>10, <1>4, <1>5
    <3> QED BY <1>10, <3>1
  <2> QED BY <1>2, <1>5, <2>1
<1>9. Len(buf') < 2 + Chunk /\ Len(lbuf') < 3 + Chunk
  <2>1. PICK a \in Nat, c \in Nat : a = Len(buf) /\ c = Len(lbuf)
    BY <1>2
  <2>2. /\ a < 2 + Chunk /\ c < 3 /\ n <= Chunk
        /\ Len(buf') = a - n /\ Len(lbuf') = c + n
    BY <1>2, <1>10, <1>4, <1>5, <2>1
  <2> QED BY ONLY <2>2, <1>3, a \in Nat, c \in Nat, n \in Nat
<1> QED BY <1>2, <1>10, <1>4, <1>5, <1>6, <1>7, <1>8, <1>9 DEF Buffers, Writing, Loading, Checkpointing

(* The front of a buffer was used. *)
Use(k) ==
  /\ UNCHANGED <<out, pos>>
  /\ stage' \notin Writing \cup {"read_header"}
  /\ \/ /\ stage' # "read_database"
        /\ k <= Len(lbuf)
        /\ lbuf' = SubSeq(lbuf, k + 1, Len(lbuf)) /\ UNCHANGED buf
     \/ /\ lbuf = <<>> /\ UNCHANGED lbuf
        /\ k <= Len(buf)
        /\ buf' = SubSeq(buf, k + 1, Len(buf))

(* and the loader, which takes a page or a frame from the front. *)
LEMMA BuffersUse ==
  ASSUME Buffers, NEW k \in Nat, Use(k)
  PROVE  Buffers' /\ Taken' = Taken + k
<1>2. /\ out \in Seq(Unit) /\ buf \in Seq(Unit) /\ lbuf \in Seq(Unit)
      /\ Len(out) \in Nat /\ Len(buf) \in Nat /\ Len(lbuf) \in Nat
      /\ pos \in 0..Len(out) /\ Taken \in Nat
      /\ Len(buf) < 2 + Chunk /\ Len(lbuf) < 3 + Chunk
      /\ \A i \in 1..Len(lbuf) : lbuf[i] = out[Taken + i]
      /\ \A i \in 1..Len(buf) : buf[i] = out[Taken + Len(lbuf) + i]
  BY DEF Buffers
<1>3. Taken = pos - Len(buf) - Len(lbuf) /\ Chunk \in Nat
  BY AttachedAssumption DEF Taken
<1>6. out' = out /\ pos' = pos /\ stage' \notin Writing \cup {"read_header"}
  BY DEF Use
<1>4. CASE /\ k <= Len(lbuf) /\ lbuf' = SubSeq(lbuf, k + 1, Len(lbuf)) /\ buf' = buf
           /\ stage' # "read_database"
  <2>1. /\ lbuf' \in Seq(Unit) /\ Len(lbuf') = Len(lbuf) - k
        /\ \A i \in 1..(Len(lbuf) - k) : lbuf'[i] = lbuf[k + i]
    <3>1. k \in 0..Len(lbuf)
      BY <1>2, <1>4
    <3> QED BY <1>2, <1>4, <3>1, RestIs
  <2>2. Taken' = Taken + k
    <3>1. /\ pos \in Nat /\ Len(buf) \in Nat /\ Len(lbuf) \in Nat
          /\ pos' = pos /\ Len(lbuf') = Len(lbuf) - k /\ buf' = buf
      BY <1>2, <1>4, <1>6, <2>1
    <3> QED BY <3>1 DEF Taken
  <2>3. ASSUME NEW i \in 1..Len(lbuf') PROVE lbuf'[i] = out[Taken' + i]
    <3>1. i \in 1..(Len(lbuf) - k) /\ k + i \in 1..Len(lbuf) /\ Taken + (k + i) = Taken' + i
      BY <1>2, <2>1, <2>2
    <3> QED BY <1>2, <2>1, <3>1
  <2>4. \A i \in 1..Len(buf) : Taken + Len(lbuf) + i = Taken' + Len(lbuf') + i
    BY <1>2, <2>1, <2>2
  <2>5. Len(lbuf') < 3 + Chunk /\ Taken' \in Nat
    BY <1>2, <1>3, <2>1, <2>2
  <2>6. \A i \in 1..Len(buf) : buf[i] = out[Taken' + Len(lbuf') + i]
    BY <1>2, <2>4
  <2>7. stage' \notin Writing /\ stage' \notin {"read_header", "read_database"}
    BY <1>4, <1>6
  <2>8. \A i \in 1..Len(buf)' : buf'[i] = out'[Taken' + Len(lbuf)' + i]
    BY <1>4, <1>6, <2>6
  <2>9. \A i \in 1..Len(lbuf)' : lbuf'[i] = out'[Taken' + i]
    BY <1>6, <2>3
  <2>10. out' \in Seq(Unit) /\ buf' \in Seq(Unit) /\ lbuf' \in Seq(Unit) /\ pos' \in 0..Len(out')
         /\ Len(buf') < 2 + Chunk /\ Len(lbuf') < 3 + Chunk /\ Taken' \in Nat
    BY <1>2, <1>4, <1>6, <2>1, <2>5
  <2> HIDE DEF Writing
  <2> QED BY <2>2, <2>7, <2>8, <2>9, <2>10 DEF Buffers
<1>5. CASE lbuf = <<>> /\ lbuf' = <<>> /\ k <= Len(buf) /\ buf' = SubSeq(buf, k + 1, Len(buf))
  <2>1. /\ buf' \in Seq(Unit) /\ Len(buf') = Len(buf) - k
        /\ \A i \in 1..(Len(buf) - k) : buf'[i] = buf[k + i]
    <3>1. k \in 0..Len(buf)
      BY <1>2, <1>5
    <3> QED BY <1>2, <1>5, <3>1, RestIs
  <2>2. Len(lbuf) = 0 /\ Len(lbuf') = 0 /\ lbuf' \in Seq(Unit)
    BY <1>5
  <2>3. Taken' = Taken + k
    BY <1>2, <1>3, <1>6, <2>1, <2>2 DEF Taken
  <2>4. ASSUME NEW i \in 1..Len(buf') PROVE buf'[i] = out[Taken' + Len(lbuf') + i]
    <3>1. /\ i \in 1..(Len(buf) - k) /\ k + i \in 1..Len(buf)
          /\ Taken + Len(lbuf) + (k + i) = Taken' + Len(lbuf') + i
      BY <1>2, <2>1, <2>2, <2>3
    <3> QED BY <1>2, <2>1, <3>1
  <2>5. Len(buf') < 2 + Chunk /\ Taken' \in Nat /\ Len(lbuf') < 3 + Chunk
    BY <1>2, <1>3, <2>1, <2>2, <2>3
  <2>6. stage' \notin Writing /\ stage' # "read_header"
    BY <1>6
  <2>7. \A i \in 1..Len(buf)' : buf'[i] = out'[Taken' + Len(lbuf)' + i]
    BY <1>6, <2>4
  <2>8. \A i \in 1..Len(lbuf)' : lbuf'[i] = out'[Taken' + i]
    BY <2>2
  <2>9. out' \in Seq(Unit) /\ buf' \in Seq(Unit) /\ lbuf' \in Seq(Unit) /\ pos' \in 0..Len(out')
        /\ Len(buf') < 2 + Chunk /\ Len(lbuf') < 3 + Chunk /\ Taken' \in Nat
    BY <1>2, <1>6, <2>1, <2>2, <2>5
  <2> QED BY <1>5, <2>3, <2>6, <2>7, <2>8, <2>9 DEF Buffers
<1> QED BY <1>4, <1>5 DEF Use

(* Where the writer or the reader is at a database, there is one. *)
LEMMA AtIs ==
  ASSUME TInv,
         stage \in {"size", "database", "main_len", "main", "read_database"} \cup Loading
  PROVE  at \in DOMAIN db /\ at \in Nat \ {0} /\ at <= Len(db) /\ Len(db) \in Nat
<1>1. db # <<>> /\ at \in Nat \ {0} /\ at <= Len(db)
  BY DEF TInv, Stages
<1>2. db \in Seq(OpenDatabase)
  BY DEF TInv, Files
<1> QED BY <1>1, <1>2

(* The types of the files need nothing else. *)
LEMMA FilesStay == ASSUME Files, UNCHANGED db PROVE Files'
BY DEF Files, FramePages

(* What the writer leaves to the reader. *)
LEMMA BuffersStay ==
  ASSUME Buffers, stage \in Writing, stage' \in Writing \cup {"read_header"},
         out' \in Seq(Unit), UNCHANGED reading
  PROVE  Buffers'
<1>1. UNCHANGED <<pos, buf, lbuf>>
  BY DEF reading
<1>2. /\ pos = 0 /\ Len(buf) \in Nat /\ Len(lbuf) \in Nat /\ pos - Len(buf) - Len(lbuf) \in Nat
      /\ buf \in Seq(Unit) /\ lbuf \in Seq(Unit) /\ lbuf = <<>>
      /\ Len(buf) < 2 + Chunk /\ Len(lbuf) < 3 + Chunk
  BY DEF Buffers, Taken
<1>3. Len(buf) = 0 /\ Len(lbuf) = 0
  BY <1>2
<1>4. Taken' = 0 /\ Len(out') \in Nat
  <2>1. pos' = 0 /\ Len(buf') = 0 /\ Len(lbuf') = 0
    BY <1>1, <1>2, <1>3
  <2> QED BY <2>1 DEF Taken
<1>5. /\ pos' \in 0..Len(out') /\ Len(buf') = 0 /\ Len(lbuf') = 0
      /\ lbuf' = <<>> /\ pos' = 0
      /\ buf' \in Seq(Unit) /\ lbuf' \in Seq(Unit) /\ Len(buf') < 2 + Chunk /\ Len(lbuf') < 3 + Chunk
  BY <1>1, <1>2, <1>3, <1>4
<1> QED BY <1>4, <1>5 DEF Buffers

(* The sizes that are announced are numbers. *)
LEMMA MainSizeIs ==
  ASSUME Files, NEW d \in DOMAIN db
  PROVE  /\ MainSize(d) \in Nat /\ WalSize(d) \in Nat
         /\ WalUnits(d) \in Seq(FileUnit) /\ WalUnits(d) \in Seq(Unit)
<1>1. Len(db[d].main) \in Nat /\ db[d].wal \in Seq(WalFrame)
  BY DatabaseIs
<1>2. WalUnits(d) \in Seq(FileUnit)
  BY <1>1, WalUnitsAre
<1>3. WalUnits(d) \in Seq(Unit)
  <2>1. FileUnit \subseteq Unit
    BY DEF Unit
  <2> QED BY <1>2, <2>1, SeqMonotonic
<1> QED BY <1>1, <1>2, <1>3 DEF MainSize, WalSize

(* What a step of the writer appends. *)
LEMMA TAppend ==
  ASSUME TInv, NEW x \in Seq(Unit), out' = out \o x,
         stage \in Writing \ {"size", "header"}, stage' \in Writing \ {"size", "header"},
         UNCHANGED <<db, reading>>
  PROVE  Files' /\ Buffers' /\ FirstIsHeader' /\ LoadedInOrder'
<1>1. out \in Seq(Unit)
  BY DEF TInv, Buffers
<1>2. /\ out \o x \in Seq(Unit) /\ Len(out \o x) = Len(out) + Len(x)
      /\ \A i \in 1..Len(out) : (out \o x)[i] = out[i]
  BY <1>1, ConcatIs
<1>3. Files'
  BY FilesStay DEF TInv
<1>4. Buffers'
  BY <1>2, BuffersStay DEF TInv
<1>5. Len(out) >= 2 /\ \A h \in {1, 2} : out[h] = [type |-> "header", n |-> Len(db), half |-> h]
  BY DEF TInv, FirstIsHeader
<1>6. Len(out') >= 2 /\ out'[1] = out[1] /\ out'[2] = out[2] /\ Len(db') = Len(db)
  <2>1. Len(out) \in Nat /\ Len(x) \in Nat
    BY <1>1
  <2> QED BY <1>2, <1>5, <2>1
<1>7. FirstIsHeader'
  BY <1>5, <1>6 DEF FirstIsHeader
<1>8. LoadedInOrder'
  <2>1. loaded' = loaded /\ loaded = <<>> /\ loaded \in Seq(Rows)
    BY DEF reading, TInv, LoadedInOrder
  <2> QED BY <2>1 DEF LoadedInOrder, Writing, Checkpointing, Loading
<1> QED BY <1>3, <1>4, <1>7, <1>8

(* Steps of the writer keep the types. *)
LEMMA TWriteStep == ASSUME TInv, WriteStep PROVE TInv'
<1> USE DEF Writing, Checkpointing, Reading, Loading
<1>1. CASE AddSize
  <2>1. /\ stage = "size" /\ total' = total + 2 + MainSize(at) + WalSize(at)
        /\ IF at = Len(db) THEN stage' = "header" /\ at' = 1 ELSE stage' = stage /\ at' = at + 1
        /\ UNCHANGED <<db, len, page, out, reading>>
    BY <1>1 DEF AddSize, IsLast
  <2>2. at \in DOMAIN db /\ at \in Nat \ {0} /\ at <= Len(db) /\ Len(db) \in Nat /\ db # <<>>
    BY <2>1, AtIs DEF TInv, Stages
  <2>3. MainSize(at) \in Nat /\ WalSize(at) \in Nat
    BY <2>2, MainSizeIs DEF TInv
  <2>4. Files'
    BY <2>1, FilesStay DEF TInv
  <2>5. Stages'
    BY <2>1, <2>2 DEF Stages
  <2>6. Counters'
    BY <2>1, <2>3 DEF TInv, Counters, reading
  <2>7. Buffers'
    BY <2>1, BuffersStay DEF TInv, Buffers
  <2>8. LoadedInOrder' /\ FirstIsHeader'
    BY <2>1 DEF TInv, LoadedInOrder, FirstIsHeader, reading
  <2> QED BY <2>4, <2>5, <2>6, <2>7, <2>8 DEF TInv
<1>2. CASE WriteHeader
  <2>1. /\ stage = "header" /\ out' = Header(Len(db))
        /\ stage' = (IF db = <<>> THEN "encoded" ELSE "database")
        /\ UNCHANGED <<db, at, total, len, page, reading>>
    BY <1>2 DEF WriteHeader
  <2>2. Len(db) \in Nat /\ at = 1
    BY <2>1 DEF TInv, Files, Stages
  <2>3. Header(Len(db)) \in Seq(Unit) /\ Len(Header(Len(db))) = 2
    BY <2>2 DEF Header, Unit
  <2>4. \A h \in {1, 2} : Header(Len(db))[h] = [type |-> "header", n |-> Len(db), half |-> h]
    BY DEF Header
  <2>5. Files'
    BY <2>1, FilesStay DEF TInv
  <2>6. Stages'
    BY <2>1, <2>2 DEF TInv, Stages, Files
  <2>7. Counters'
    BY <2>1 DEF TInv, Counters, reading
  <2>8. Buffers'
    BY <2>1, <2>3, BuffersStay DEF TInv
  <2>9. FirstIsHeader'
    BY <2>1, <2>3, <2>4 DEF FirstIsHeader
  <2>10. LoadedInOrder'
    BY <2>1 DEF TInv, LoadedInOrder, reading
  <2> QED BY <2>5, <2>6, <2>7, <2>8, <2>9, <2>10 DEF TInv
<1>3. CASE WriteDatabaseHeader
  <2>1. /\ stage = "database" /\ stage' = "main_len"
        /\ out' = out \o DatabaseHeader(MainSize(at), WalSize(at))
        /\ UNCHANGED <<db, at, total, len, page, reading>>
    BY <1>3 DEF WriteDatabaseHeader
  <2>2. at \in DOMAIN db
    BY <2>1, AtIs
  <2>3. MainSize(at) \in Nat /\ WalSize(at) \in Nat
    BY <2>2, MainSizeIs DEF TInv
  <2>4. DatabaseHeader(MainSize(at), WalSize(at)) \in Seq(Unit)
    BY <2>3 DEF DatabaseHeader, Unit
  <2>5. Files' /\ Buffers' /\ FirstIsHeader' /\ LoadedInOrder'
    BY <2>1, <2>4, TAppend
  <2>6. Stages' /\ Counters'
    BY <2>1 DEF TInv, Stages, Counters, reading
  <2> QED BY <2>5, <2>6 DEF TInv
<1>4. CASE BeginMain
  <2>1. /\ stage = "main_len" /\ stage' = "main" /\ len' = Len(db[at].main) /\ page' = 0
        /\ UNCHANGED <<db, at, total, out, reading>>
    BY <1>4 DEF BeginMain
  <2>2. at \in DOMAIN db
    BY <2>1, AtIs
  <2>3. Len(db[at].main) \in Nat
    BY <2>2, DatabaseIs DEF TInv
  <2>4. Files'
    BY <2>1, FilesStay DEF TInv
  <2>5. Stages' /\ Counters'
    BY <2>1, <2>3 DEF TInv, Stages, Counters, reading
  <2>6. Buffers'
    BY <2>1, BuffersStay DEF TInv, Buffers
  <2>7. FirstIsHeader' /\ LoadedInOrder'
    BY <2>1 DEF TInv, FirstIsHeader, LoadedInOrder, reading
  <2> QED BY <2>4, <2>5, <2>6, <2>7 DEF TInv
<1>5. CASE WritePage
  <2> DEFINE data == IF page' <= Len(db[at].main) THEN db[at].main[page'] ELSE Hole
  <2>1. /\ stage = "main" /\ stage' = stage /\ page < len /\ page' = page + 1
        /\ out' = out \o PageUnits(data)
        /\ UNCHANGED <<db, at, total, len, reading>>
    BY <1>5 DEF WritePage
  <2>2. at \in DOMAIN db
    BY <2>1, AtIs
  <2>3. page \in Nat /\ len \in Nat
    BY DEF TInv, Counters
  <2>4. data \in Data
    <3>1. db[at].main \in Seq(Data) /\ page' \in Nat \ {0}
      BY <2>1, <2>2, <2>3, DatabaseIs DEF TInv
    <3> QED BY <3>1 DEF Data
  <2> HIDE DEF data
  <2>5. PageUnits(data) \in Seq(Unit)
    BY <2>4 DEF PageUnits, Unit, FileUnit
  <2>6. Files' /\ Buffers' /\ FirstIsHeader' /\ LoadedInOrder'
    BY <2>1, <2>5, TAppend
  <2>7. Stages' /\ Counters'
    BY <2>1, <2>3 DEF TInv, Stages, Counters, reading
  <2> QED BY <2>6, <2>7 DEF TInv
<1>6. CASE WriteWal
  <2>1. /\ stage = "main" /\ out' = out \o WalUnits(at)
        /\ IF at = Len(db) THEN stage' = "encoded" /\ at' = 1 ELSE stage' = "database" /\ at' = at + 1
        /\ UNCHANGED <<db, total, len, page, reading>>
    BY <1>6 DEF WriteWal, IsLast
  <2>2. at \in DOMAIN db /\ at \in Nat \ {0} /\ at <= Len(db) /\ Len(db) \in Nat /\ db # <<>>
    BY <2>1, AtIs DEF TInv, Stages
  <2>3. WalUnits(at) \in Seq(Unit)
    BY <2>2, MainSizeIs DEF TInv
  <2>4. Files' /\ Buffers' /\ FirstIsHeader' /\ LoadedInOrder'
    BY <2>1, <2>3, TAppend
  <2>5. Stages' /\ Counters'
    BY <2>1, <2>2 DEF TInv, Stages, Counters, reading
  <2> QED BY <2>4, <2>5 DEF TInv
<1>7. CASE FinishEncoder
  <2>1. /\ stage = "encoded" /\ stage' \in {"read_header", "failed"}
        /\ UNCHANGED <<db, at, writing, reading>>
    BY <1>7 DEF FinishEncoder
  <2>2. Files'
    BY <2>1, FilesStay DEF TInv
  <2>3. Stages' /\ Counters'
    BY <2>1 DEF TInv, Stages, Counters, reading, writing
  <2>4. Buffers'
    <3>1. CASE stage' = "read_header"
      BY <2>1, <3>1, BuffersStay DEF TInv, Buffers, writing
    <3>2. CASE stage' = "failed"
      BY <2>1, <3>2 DEF TInv, Buffers, Taken, reading, writing
    <3> QED BY <2>1, <3>1, <3>2
  <2>5. FirstIsHeader' /\ LoadedInOrder'
    BY <2>1 DEF TInv, FirstIsHeader, LoadedInOrder, reading, writing
  <2> QED BY <2>2, <2>3, <2>4, <2>5 DEF TInv
<1> QED BY <1>1, <1>2, <1>3, <1>4, <1>5, <1>6, <1>7 DEF WriteStep
(* What a read of the loader gets, from the buffer below or from the file. *)
LEMMA FillIs ==
  ASSUME TInv, NEW n, Fill(n)
  PROVE  /\ stage \in Loading /\ n \in Nat \ {0}
         /\ limit' = limit - n /\ limit' \in Nat
         /\ UNCHANGED <<db, stage, at, writing, n_databases, wal_size, loaded>>
         /\ Grow(n) \/ Pass(n)
<1>1. stage \in Loading /\ Len(lbuf) < 3
  <2>1. Len(lbuf) \in Nat
    BY DEF TInv, Buffers
  <2> QED BY <2>1 DEF Fill, Wants, Loading
<1>2. /\ limit' = limit - n
      /\ UNCHANGED <<db, stage, at, writing, n_databases, wal_size, loaded>>
  BY DEF Fill
<1>3. /\ limit \in Nat /\ Len(buf) \in Nat /\ Len(out) - pos \in Nat
  BY DEF TInv, Counters, Buffers
<1>4. stage \notin Writing /\ stage \notin {"read_header", "read_database"} /\ UNCHANGED <<out, stage>>
  BY <1>1, <1>2 DEF Loading, Writing, Checkpointing, writing
<1>5. CASE buf # <<>>
  <2>1. n \in Sizes(limit, Len(buf)) /\ lbuf' = lbuf \o SubSeq(buf, 1, n)
        /\ buf' = SubSeq(buf, n + 1, Len(buf)) /\ UNCHANGED pos
    BY <1>5 DEF Fill
  <2>2. n \in Nat \ {0} /\ n <= Chunk /\ n <= limit /\ n <= Len(buf)
    BY <1>3, <2>1, SizesAre
  <2>3. Pass(n)
    BY <1>1, <1>4, <2>1, <2>2 DEF Pass
  <2> QED BY <1>1, <1>2, <1>3, <2>2, <2>3
<1>6. CASE buf = <<>>
  <2>1. n \in Sizes(limit, Len(out) - pos) /\ lbuf' = lbuf \o NextUnits(n)
        /\ pos' = pos + n /\ UNCHANGED buf
    BY <1>6 DEF Fill
  <2>2. n \in Nat \ {0} /\ n <= Chunk /\ n <= limit /\ n <= Len(out) - pos
    BY <1>3, <2>1, SizesAre
  <2>3. Grow(n)
    BY <1>1, <1>4, <1>6, <2>1, <2>2 DEF Grow
  <2> QED BY <1>1, <1>2, <1>3, <2>2, <2>3
<1> QED BY <1>5, <1>6

(* A read into BufferedReader.buf makes it grow and changes nothing else. *)
LEMMA RefillIs ==
  ASSUME TInv, NEW n, Refill(n)
  PROVE  /\ stage \in {"read_header", "read_database"}
         /\ n \in Nat \ {0} /\ Grow(n)
         /\ UNCHANGED <<db, stage, at, writing, limit, lbuf, n_databases, wal_size, loaded>>
<1>1. /\ stage \in {"read_header", "read_database"} /\ Len(buf) < 2
      /\ n \in Sizes(Chunk, Len(out) - pos)
      /\ buf' = buf \o NextUnits(n) /\ pos' = pos + n
      /\ UNCHANGED <<db, stage, at, writing, limit, lbuf, n_databases, wal_size, loaded>>
  BY DEF Refill
<1>2. Len(out) - pos \in Nat /\ Chunk \in Nat
  BY AttachedAssumption DEF TInv, Buffers
<1>3. n \in Nat \ {0} /\ n <= Chunk /\ n <= Len(out) - pos
  BY <1>1, <1>2, SizesAre
<1>4. Grow(n)
  BY <1>1, <1>3 DEF Grow, Writing, Checkpointing, writing
<1> QED BY <1>1, <1>3, <1>4

(* What is used of the buffers is at the place in the file that was reached. *)
LEMMA WholeIs ==
  ASSUME NEW units \in Seq(Unit), NEW type, Whole(units, type)
  PROVE  /\ Len(units) \in Nat /\ Len(units) >= 2
         /\ units[1] \in Unit /\ units[2] \in Unit
         /\ units[1].type = type /\ units[1].half = 1
BY DEF Whole

(* A row is added or replaced. *)
LEMMA LoadIs ==
  ASSUME loaded \in Seq(Rows), at \in 1..Len(loaded),
         NEW number \in Nat, NEW data \in Data, Load(number, data)
  PROVE  /\ loaded' \in Seq(Rows) /\ Len(loaded') = Len(loaded)
         /\ DOMAIN loaded'[at] = DOMAIN loaded[at] \cup {number}
         /\ \A p \in DOMAIN loaded'[at] :
              loaded'[at][p] = IF p = number THEN data ELSE loaded[at][p]
         /\ \A d \in 1..Len(loaded) : d # at => loaded'[d] = loaded[d]
<1> DEFINE row == [p \in DOMAIN loaded[at] \cup {number} |-> IF p = number THEN data ELSE loaded[at][p]]
<1>1. loaded[at] \in Rows
  OBVIOUS
<1>2. PICK P \in SUBSET Nat : IsFiniteSet(P) /\ loaded[at] \in [P -> Data]
  BY <1>1 DEF Rows
<1>3. row \in Rows
  <2>1. P \cup {number} \in SUBSET Nat /\ DOMAIN loaded[at] = P
    BY <1>2
  <2>2. IsFiniteSet(P \cup {number})
    BY <1>2, FS_AddElement
  <2>3. row \in [P \cup {number} -> Data]
    BY <1>2, <2>1
  <2> QED BY <2>1, <2>2, <2>3 DEF Rows
<1>4. loaded' = [loaded EXCEPT ![at] = row]
  BY DEF Load
<1>5. /\ DOMAIN row = DOMAIN loaded[at] \cup {number}
      /\ \A p \in DOMAIN row : row[p] = IF p = number THEN data ELSE loaded[at][p]
  OBVIOUS
<1> HIDE DEF row
<1>6. /\ loaded' \in Seq(Rows) /\ Len(loaded') = Len(loaded) /\ loaded'[at] = row
      /\ \A d \in 1..Len(loaded) : d # at => loaded'[d] = loaded[d]
  BY <1>3, <1>4
<1> QED BY <1>5, <1>6

(* What the loader keeps while it reads a database. *)
LEMMA TLoading ==
  ASSUME TInv, stage \in Loading, stage' \in Loading, Buffers',
         UNCHANGED <<db, at, writing, n_databases>>,
         limit' \in Nat, wal_size' \in Nat, loaded' \in Seq(Rows), Len(loaded') = Len(loaded)
  PROVE  TInv'
<1> USE DEF Writing, Checkpointing, Reading, Loading
<1>1. Files'
  BY FilesStay DEF TInv
<1>2. Stages' /\ Counters'
  BY DEF TInv, Stages, Counters, writing
<1>3. FirstIsHeader'
  BY DEF TInv, FirstIsHeader, writing
<1>4. LoadedInOrder'
  BY DEF TInv, LoadedInOrder
<1> QED BY <1>1, <1>2, <1>3, <1>4 DEF TInv

(* Steps of the reader keep the types. *)
LEMMA TReadStep == ASSUME TInv, ReadStep PROVE TInv'
<1> USE DEF Writing, Checkpointing, Reading, Loading
<1>0. /\ buf \in Seq(Unit) /\ lbuf \in Seq(Unit) /\ Len(buf) \in Nat /\ Len(lbuf) \in Nat
      /\ loaded \in Seq(Rows) /\ limit \in Nat /\ wal_size \in Nat
      /\ Len(db) \in Nat /\ Len(loaded) \in Nat
  BY DEF TInv, Buffers, LoadedInOrder, Counters, Files
<1>1. ASSUME NEW n \in 1..Chunk, Refill(n) PROVE TInv'
  <2>1. /\ stage \in {"read_header", "read_database"}
        /\ n \in Nat \ {0} /\ Grow(n)
        /\ UNCHANGED <<db, stage, at, writing, limit, lbuf, n_databases, wal_size, loaded>>
    BY <1>1, RefillIs
  <2>2. Buffers'
    BY <2>1, BuffersGrow DEF TInv
  <2>3. Files'
    BY <2>1, FilesStay DEF TInv
  <2>4. Stages' /\ Counters' /\ FirstIsHeader' /\ LoadedInOrder'
    BY <2>1 DEF TInv, Stages, Counters, FirstIsHeader, LoadedInOrder, writing
  <2> QED BY <2>2, <2>3, <2>4 DEF TInv
<1>2. ASSUME NEW n \in 1..Chunk, Fill(n) PROVE TInv'
  <2>1. /\ stage \in Loading /\ n \in Nat \ {0}
        /\ limit' = limit - n /\ limit' \in Nat
        /\ UNCHANGED <<db, stage, at, writing, n_databases, wal_size, loaded>>
        /\ Grow(n) \/ Pass(n)
    BY <1>2, FillIs
  <2>2. Buffers'
    BY <2>1, BuffersGrow, BuffersPass DEF TInv
  <2> QED BY <1>0, <2>1, <2>2, TLoading
<1>3. CASE DecodeHeader
  <2>1. /\ stage = "read_header" /\ Whole(buf, "header")
        /\ buf' = SubSeq(buf, 3, Len(buf)) /\ n_databases' = buf[1].n
        /\ stage' = (IF buf[1].n = 0 THEN "done" ELSE "read_database")
        /\ UNCHANGED <<db, at, writing, pos, limit, lbuf, wal_size, loaded>>
    BY <1>3 DEF DecodeHeader, Drop2
  <2>2. Len(buf) >= 2
    BY <1>0, <2>1, WholeIs
  <2>3. n_databases' = Len(db) /\ lbuf = <<>> /\ loaded = <<>> /\ at = 1
    <3>1. buf[1] = out[Taken + Len(lbuf) + 1] /\ lbuf = <<>> /\ Taken = 0 /\ Len(lbuf) = 0
      BY <1>0, <2>1, <2>2 DEF TInv, Buffers
    <3>2. buf[1] = [type |-> "header", n |-> Len(db), half |-> 1]
      BY <2>1, <3>1 DEF TInv, FirstIsHeader
    <3> QED BY <2>1, <3>1, <3>2 DEF TInv, LoadedInOrder, Stages
  <2>4. Use(2)
    BY <2>1, <2>2, <2>3 DEF Use, writing
  <2>5. Buffers'
    <3> DEFINE k == 2
    <3>1. k \in Nat /\ Use(k)
      BY <2>4
    <3> HIDE DEF k
    <3> QED BY <3>1, BuffersUse DEF TInv
  <2>6. Files'
    BY <2>1, FilesStay DEF TInv
  <2>7. Len(db) = 0 <=> db = <<>>
    BY DEF TInv, Files
  <2>8. Stages'
    BY <1>0, <2>1, <2>3, <2>7 DEF TInv, Stages
  <2>9. Counters' /\ FirstIsHeader'
    BY <1>0, <2>1, <2>3 DEF TInv, Counters, FirstIsHeader, writing
  <2>10. LoadedInOrder'
    BY <1>0, <2>1, <2>3 DEF LoadedInOrder
  <2> QED BY <2>5, <2>6, <2>8, <2>9, <2>10 DEF TInv
<1>4. CASE DecodeDatabase
  <2>1. /\ stage = "read_database" /\ Whole(buf, "database")
        /\ buf' = SubSeq(buf, 3, Len(buf))
        /\ limit' = buf[1].main_size /\ wal_size' = buf[1].wal_size
        /\ loaded' = Append(loaded, <<>>) /\ stage' = "read_main"
        /\ UNCHANGED <<db, at, writing, pos, lbuf, n_databases>>
    BY <1>4 DEF DecodeDatabase, Drop2
  <2>2. /\ Len(buf) >= 2 /\ buf[1] \in Unit /\ buf[1].type = "database"
    BY <1>0, <2>1, WholeIs
  <2>3. limit' \in Nat /\ wal_size' \in Nat
    BY <2>1, <2>2, UnitIs
  <2>4. Use(2)
    BY <2>1, <2>2 DEF TInv, Buffers, Use, writing
  <2>5. Buffers'
    <3> DEFINE k == 2
    <3>1. k \in Nat /\ Use(k)
      BY <2>4
    <3> HIDE DEF k
    <3> QED BY <3>1, BuffersUse DEF TInv
  <2>6. Files'
    BY <2>1, FilesStay DEF TInv
  <2>7. Stages' /\ Counters' /\ FirstIsHeader'
    BY <2>1, <2>3 DEF TInv, Stages, Counters, FirstIsHeader, writing
  <2>8. LoadedInOrder'
    <3>1. <<>> \in Rows
      <4>1. <<>> \in [{} -> Data] /\ {} \in SUBSET Nat /\ IsFiniteSet({})
        BY FS_EmptySet
      <4> QED BY <4>1 DEF Rows
    <3>2. Len(loaded) = at - 1 /\ at \in Nat
      BY <2>1 DEF TInv, LoadedInOrder, Stages
    <3>3. loaded' \in Seq(Rows) /\ Len(loaded') = at
      BY <1>0, <2>1, <3>1, <3>2
    <3> QED BY <2>1, <3>3 DEF LoadedInOrder
  <2> QED BY <2>5, <2>6, <2>7, <2>8 DEF TInv
<1>5. CASE LoadMainPage
  <2>1. /\ stage = "read_main" /\ Whole(lbuf, "page")
        /\ Load(Cardinality(DOMAIN loaded[at]) + 1, lbuf[1].data)
        /\ lbuf' = SubSeq(lbuf, 3, Len(lbuf))
        /\ UNCHANGED <<db, stage, at, writing, pos, buf, limit, n_databases, wal_size>>
    BY <1>5 DEF LoadMainPage, Drop2
  <2>2. Len(lbuf) >= 2 /\ lbuf[1] \in Unit /\ lbuf[1].type = "page"
    BY <1>0, <2>1, WholeIs
  <2>3. lbuf[1].data \in Data
    BY <2>2, UnitIs
  <2>4. at \in 1..Len(loaded) /\ loaded[at] \in Rows
    BY <1>0, <2>1 DEF TInv, LoadedInOrder, Stages
  <2>5. Cardinality(DOMAIN loaded[at]) + 1 \in Nat
    <3>1. IsFiniteSet(DOMAIN loaded[at])
      BY <2>4 DEF Rows
    <3>2. Cardinality(DOMAIN loaded[at]) \in Nat
      BY <3>1, FS_CardinalityType
    <3> QED BY <3>2
  <2>6. loaded' \in Seq(Rows) /\ Len(loaded') = Len(loaded)
    BY <1>0, <2>1, <2>3, <2>4, <2>5, LoadIs
  <2>7. Use(2)
    BY <2>1, <2>2 DEF Use, writing
  <2>8. Buffers'
    <3> DEFINE k == 2
    <3>1. k \in Nat /\ Use(k)
      BY <2>7
    <3> HIDE DEF k
    <3> QED BY <3>1, BuffersUse DEF TInv
  <2> QED BY <1>0, <2>1, <2>6, <2>8, TLoading
<1>6. CASE LoadMainEnd
  <2>1. /\ stage = "read_main" /\ stage' = "read_wal" /\ limit' = wal_size
        /\ UNCHANGED <<db, at, writing, pos, buf, lbuf, n_databases, wal_size, loaded>>
    BY <1>6 DEF LoadMainEnd
  <2>2. Buffers'
    BY <2>1 DEF TInv, Buffers, Taken, writing
  <2> QED BY <1>0, <2>1, <2>2, TLoading
<1>7. CASE SkipWalHeader
  <2>1. /\ stage = "read_wal" /\ stage' = "read_frame" /\ lbuf # <<>> /\ lbuf' = Tail(lbuf)
        /\ UNCHANGED <<db, at, writing, pos, buf, limit, n_databases, wal_size, loaded>>
    BY <1>7 DEF SkipWalHeader
  <2>2. Len(lbuf) >= 1 /\ Tail(lbuf) = SubSeq(lbuf, 2, Len(lbuf))
    BY <1>0, <2>1
  <2>3. Use(1)
    BY <2>1, <2>2 DEF Use, writing
  <2>4. Buffers'
    <3> DEFINE k == 1
    <3>1. k \in Nat /\ Use(k)
      BY <2>3
    <3> HIDE DEF k
    <3> QED BY <3>1, BuffersUse DEF TInv
  <2> QED BY <1>0, <2>1, <2>4, TLoading
<1>8. CASE LoadWalFrame
  <2>1. /\ stage = "read_frame" /\ Len(lbuf) >= 3
        /\ lbuf[1].type = "frame" /\ Whole(Tail(lbuf), "page")
        /\ Load(lbuf[1].page, lbuf[2].data)
        /\ lbuf' = SubSeq(Tail(lbuf), 3, Len(Tail(lbuf)))
        /\ UNCHANGED <<db, stage, at, writing, pos, buf, limit, n_databases, wal_size>>
    BY <1>8 DEF LoadWalFrame, Drop2
  <2>2. /\ lbuf[1] \in Unit /\ lbuf[2] \in Unit /\ Tail(lbuf)[1] = lbuf[2]
        /\ lbuf' = SubSeq(lbuf, 4, Len(lbuf))
    BY <1>0, <2>1
  <2>3. lbuf[1].page \in Nat /\ lbuf[2].data \in Data
    BY <2>1, <2>2, UnitIs DEF Whole
  <2>4. at \in 1..Len(loaded)
    BY <1>0, <2>1 DEF TInv, LoadedInOrder, Stages
  <2>6. loaded' \in Seq(Rows) /\ Len(loaded') = Len(loaded)
    BY <1>0, <2>1, <2>3, <2>4, LoadIs
  <2>7. Use(3)
    BY <2>1, <2>2 DEF Use, writing
  <2>8. Buffers'
    <3> DEFINE k == 3
    <3>1. k \in Nat /\ Use(k)
      BY <2>7
    <3> HIDE DEF k
    <3> QED BY <3>1, BuffersUse DEF TInv
  <2> QED BY <1>0, <2>1, <2>6, <2>8, TLoading
<1>9. CASE LoadWalEnd
  <2>1. /\ stage \in {"read_wal", "read_frame"} /\ lbuf = <<>>
        /\ IF at = n_databases THEN stage' = "done" /\ at' = at
           ELSE stage' = "read_database" /\ at' = at + 1
        /\ UNCHANGED <<db, writing, reading>>
    BY <1>9 DEF LoadWalEnd, AtEnd
  <2>2. n_databases = Len(db) /\ at \in Nat \ {0} /\ at <= Len(db) /\ db # <<>> /\ Len(loaded) = at
    BY <2>1, AtIs DEF TInv, Counters, LoadedInOrder, Stages
  <2>3. Files'
    BY <2>1, FilesStay DEF TInv
  <2>4. Stages'
    BY <1>0, <2>1, <2>2 DEF Stages
  <2>5. Counters' /\ FirstIsHeader'
    BY <2>1 DEF TInv, Counters, FirstIsHeader, writing, reading
  <2>6. Buffers'
    BY <2>1 DEF TInv, Buffers, Taken, writing, reading
  <2>7. LoadedInOrder'
    BY <1>0, <2>1, <2>2 DEF LoadedInOrder, reading
  <2> QED BY <2>3, <2>4, <2>5, <2>6, <2>7 DEF TInv
<1> QED BY <1>1, <1>2, <1>3, <1>4, <1>5, <1>6, <1>7, <1>8, <1>9 DEF ReadStep

(* A checkpoint keeps the types. *)
LEMMA TCheckpoint ==
  ASSUME TInv, NEW d \in DOMAIN db, Checkpoint(d)
  PROVE  TInv'
<1> USE DEF Writing, Checkpointing, Reading, Loading
<1>1. /\ db' \in Seq(OpenDatabase) /\ Len(db') = Len(db) /\ DOMAIN db' = DOMAIN db
      /\ \A e \in DOMAIN db :
           /\ db'[e].wal = db[e].wal /\ db'[e].valid = db[e].valid /\ db'[e].size = db[e].size
           /\ \A p \in 1..db[e].size \ FramePages(e) : p \in DOMAIN db'[e].main
  BY CheckpointIs DEF TInv
<1>2. UNCHANGED <<stage, at, writing, reading>>
  BY DEF Checkpoint
<1>3. \A e \in DOMAIN db : FramePages(e)' = FramePages(e)
  BY <1>1 DEF FramePages
<1>4. Files'
  <2>1. \A e \in DOMAIN db : db[e].valid <= Len(db[e].wal)
    BY DEF TInv, Files
  <2>2. ASSUME NEW e \in DOMAIN db
        PROVE  1..db'[e].size \subseteq DOMAIN db'[e].main \cup FramePages(e)'
    BY <1>1, <1>3
  <2> QED BY <1>1, <2>1, <2>2 DEF Files
<1>5. (db' = <<>>) = (db = <<>>)
  <2>1. db \in Seq(OpenDatabase)
    BY DEF TInv, Files
  <2> QED BY <1>1, <2>1
<1>6. Stages' /\ Counters' /\ FirstIsHeader' /\ LoadedInOrder'
  BY <1>1, <1>2, <1>5 DEF TInv, Stages, Counters, FirstIsHeader, LoadedInOrder, writing, reading
<1>7. Buffers'
  BY <1>2 DEF TInv, Buffers, Taken, writing, reading
<1> QED BY <1>4, <1>6, <1>7 DEF TInv

(* TInv is inductive. *)
LEMMA TNext == ASSUME TInv, [Next]_vars PROVE TInv'
<1>1. CASE WriteStep
  BY <1>1, TWriteStep
<1>2. CASE ReadStep
  BY <1>2, TReadStep
<1>3. CASE Fails
  <2> USE DEF Writing, Checkpointing, Reading, Loading
  <2>1. stage' = "failed" /\ UNCHANGED <<db, at, writing, reading>>
    BY <1>3 DEF Fails
  <2>2. Files'
    BY <2>1, FilesStay DEF TInv
  <2>3. Stages' /\ Counters' /\ FirstIsHeader' /\ LoadedInOrder'
    BY <2>1 DEF TInv, Stages, Counters, FirstIsHeader, LoadedInOrder, writing, reading
  <2>4. Buffers'
    BY <2>1 DEF TInv, Buffers, Taken, writing, reading
  <2> QED BY <2>2, <2>3, <2>4 DEF TInv
<1>4. ASSUME NEW d \in DOMAIN db, Checkpoint(d) PROVE TInv'
  BY <1>4, TCheckpoint
<1>5. CASE UNCHANGED vars
  BY <1>5 DEF TInv, Files, FramePages, Stages, Counters, Buffers, Taken, FirstIsHeader,
              LoadedInOrder, vars, writing, reading
<1> QED BY <1>1, <1>2, <1>3, <1>4, <1>5 DEF Next, Ended

(* Every variable keeps to its type; no buffer grows beyond what a header or a
   frame takes and one more read. *)
THEOREM TypeCorrect == Spec => []TypeOK
<1>1. Init => TInv
  BY TInit
<1>2. TInv /\ [Next]_vars => TInv'
  BY TNext
<1> QED BY <1>1, <1>2, InvIsTyped, PTL DEF Spec
-----------------------------------------------------------------------------
(* The layout. *)
LEMMA LayoutIs ==
  ASSUME NEW lay \in Layouts, NEW d \in Nat
  PROVE  /\ lay.announced[d] \in Nat /\ lay.header[d] \in Nat /\ lay.copied[d] \in Nat
         /\ lay.start[d] \in Nat /\ lay.sum[d] \in Nat
BY DEF Layouts

(* How far the writer has come. *)
LEMMA CountsAre ==
  ASSUME TInv, stage # "failed"
  PROVE  /\ Announced \in 0..Len(db) /\ Headed \in 0..Len(db) /\ Measured \in 0..Len(db)
         /\ Finished \in 0..Len(db)
         /\ Finished <= Headed /\ Headed <= Finished + 1
         /\ Finished <= Measured /\ Measured <= Headed
         /\ Headed <= Announced
         /\ Headed = Finished + 1 => Headed = at /\ stage \in {"main_len", "main"}
         /\ Measured = Finished + 1 => Measured = at /\ stage = "main"
         /\ Len(db) \in Nat /\ DOMAIN db = 1..Len(db)
<1>1. Len(db) \in Nat /\ DOMAIN db = 1..Len(db)
  BY DEF TInv, Files
<1>2. CASE stage \in {"size", "database", "main_len", "main"}
  <2>1. at \in Nat \ {0} /\ at <= Len(db)
    BY <1>2, AtIs DEF Loading
  <2>2. CASE stage = "size"
    BY <1>1, <2>1, <2>2 DEF Announced, Headed, Measured, Finished
  <2>3. CASE stage = "database"
    BY <1>1, <2>1, <2>3 DEF Announced, Headed, Measured, Finished
  <2>4. CASE stage = "main_len"
    BY <1>1, <2>1, <2>4 DEF Announced, Headed, Measured, Finished
  <2>5. CASE stage = "main"
    BY <1>1, <2>1, <2>5 DEF Announced, Headed, Measured, Finished
  <2> QED BY <1>2, <2>2, <2>3, <2>4, <2>5
<1>3. CASE stage \notin {"size", "database", "main_len", "main"}
  BY <1>1, <1>3 DEF Announced, Headed, Measured, Finished
<1> QED BY <1>2, <1>3

(* A database that was written lies inside the file. *)
LEMMA Within ==
  ASSUME TInv, stage # "failed", NEW lay \in Layouts, Layout(lay), NEW d \in 1..Finished
  PROVE  /\ lay.start[d] \in Nat /\ lay.copied[d] \in Nat /\ WalSize(d) \in Nat
         /\ lay.start[d] >= 3
         /\ lay.start[d] + 1 + 2 * lay.copied[d] + WalSize(d) <= Len(out)
<1>1. /\ Finished \in 0..Len(db) /\ Len(db) \in Nat /\ DOMAIN db = 1..Len(db)
      /\ d \in DOMAIN db /\ d \in Nat
  BY CountsAre
<1>2. WalSize(d) \in Nat
  BY <1>1, MainSizeIs DEF TInv
<1>3. lay.start[d] \in Nat /\ lay.copied[d] \in Nat /\ lay.start[1] = 3
  BY <1>1, LayoutIs DEF Layout, Placed
<1>4. lay.start[d] >= 3
  <2>1. CASE d = 1
    BY <1>3, <2>1
  <2>2. CASE d # 1
    <3>1. 1 \in 1..(Finished + 1) /\ d \in 1..(Finished + 1) /\ 1 < d /\ 1 \in DOMAIN db /\ 1 \in Nat
      BY <1>1, <2>2
    <3>2. lay.start[1] + 2 + 2 * lay.copied[1] + WalSize(1) <= lay.start[d]
      BY <3>1 DEF Layout, Placed
    <3>3. WalSize(1) \in Nat /\ lay.copied[1] \in Nat
      BY <3>1, MainSizeIs, LayoutIs DEF TInv
    <3> QED BY <1>3, <3>2, <3>3
  <2> QED BY <2>1, <2>2
<1>5. Len(out) >= lay.start[Finished + 1] - 1
  <2>0. page \in Nat
    BY DEF TInv, Counters
  <2>1. Finished + 1 \in Nat /\ page \in Nat
    BY <1>1, <2>0
  <2>2. lay.start[Finished + 1] \in Nat
    BY <2>1, LayoutIs
  <2>3. CASE stage \in {"size", "header"}
    BY <1>1, <2>3 DEF Finished
  <2>4. CASE stage \in {"database", "main_len", "main"}
    <3>1. Finished + 1 = at
      <4>1. at \in Nat
        BY DEF TInv, Stages
      <4> QED BY <2>4, <4>1 DEF Finished
    <3>2. Len(out) = IF stage = "database" THEN lay.start[at] - 1
                     ELSE IF stage = "main_len" THEN lay.start[at] + 1
                     ELSE lay.start[at] + 1 + 2 * page
      BY <2>4 DEF Layout, EndsAt
    <3> QED BY <2>1, <2>2, <2>4, <3>1, <3>2
  <2>5. CASE stage \notin {"size", "header", "database", "main_len", "main"}
    <3>1. Finished = Len(db) /\ Len(out) = lay.start[Len(db) + 1] - 1
      BY <2>5 DEF Finished, Layout, EndsAt
    <3> QED BY <2>2, <3>1
  <2> QED BY <2>3, <2>4, <2>5
<1>6. lay.start[d] + 2 + 2 * lay.copied[d] + WalSize(d) <= lay.start[Finished + 1]
  <2>1. d \in 1..(Finished + 1) /\ Finished + 1 \in 1..(Finished + 1) /\ d < Finished + 1
    BY <1>1
  <2> QED BY <2>1 DEF Layout, Placed
<1>7. lay.start[Finished + 1] \in Nat /\ Len(out) \in Nat
  <2>1. Finished + 1 \in Nat
    BY <1>1
  <2> QED BY <2>1, LayoutIs DEF TInv, Buffers
<1> QED
  <2>1. \A s, c, w, e, l \in Nat :
          l >= e - 1 /\ s + 2 + 2 * c + w <= e => s + 1 + 2 * c + w <= l
    OBVIOUS
  <2> QED BY <1>2, <1>3, <1>4, <1>5, <1>6, <1>7, <2>1

(* So does every header. *)
LEMMA HeaderWithin ==
  ASSUME TInv, stage # "failed", NEW lay \in Layouts, Layout(lay), NEW d \in 1..Headed
  PROVE  lay.start[d] \in Nat /\ lay.start[d] >= 1 /\ lay.start[d] + 1 <= Len(out)
<1>1. /\ Finished \in Nat /\ Headed \in Nat /\ Headed <= Finished + 1
      /\ Headed = Finished + 1 => Headed = at /\ stage \in {"main_len", "main"}
  BY CountsAre
<1>2. CASE d <= Finished
  <2>1. d \in 1..Finished
    BY <1>1, <1>2
  <2>2. /\ lay.start[d] \in Nat /\ lay.copied[d] \in Nat /\ WalSize(d) \in Nat
        /\ lay.start[d] >= 3
        /\ lay.start[d] + 1 + 2 * lay.copied[d] + WalSize(d) <= Len(out)
    BY <2>1, Within
  <2>3. Len(out) \in Nat
    BY DEF TInv, Buffers
  <2>4. \A s, c, w, l \in Nat :
          s >= 3 /\ s + 1 + 2 * c + w <= l => s >= 1 /\ s + 1 <= l
    OBVIOUS
  <2> QED BY <2>2, <2>3, <2>4
<1>3. CASE ~(d <= Finished)
  <2>1. d = at /\ stage \in {"main_len", "main"} /\ Finished + 1 = at /\ d \in Nat
    BY <1>1, <1>3
  <2>2. lay.start[at] \in Nat /\ page \in Nat
    BY <2>1, LayoutIs DEF TInv, Counters
  <2>3. Len(out) = IF stage = "main_len" THEN lay.start[at] + 1 ELSE lay.start[at] + 1 + 2 * page
    BY <2>1 DEF Layout, EndsAt
  <2>4. lay.start[at] >= 1
    <3>1. CASE at = 1
      BY <3>1 DEF Layout, Placed
    <3>2. CASE at # 1
      <4>1. 1 \in 1..Finished /\ 1 \in 1..(Finished + 1) /\ at \in 1..(Finished + 1) /\ 1 < at
        BY <1>1, <2>1, <3>2
      <4>2. lay.start[1] + 2 + 2 * lay.copied[1] + WalSize(1) <= lay.start[at] /\ lay.start[1] = 3
        BY <4>1 DEF Layout, Placed
      <4>3. lay.copied[1] \in Nat /\ WalSize(1) \in Nat
        BY <4>1, Within
      <4> QED BY <2>2, <4>2, <4>3
    <3> QED BY <3>1, <3>2
  <2> QED BY <2>1, <2>2, <2>3, <2>4
<1> QED BY <1>2, <1>3

(* The places of what was written are inside the file. *)
LEMMA PlacesInside ==
  ASSUME NEW s \in Nat, NEW c \in Nat, NEW w \in Nat, NEW l \in Nat,
         s >= 3, s + 1 + 2 * c + w <= l
  PROVE  /\ \A p \in 1..c : s + 2 * p \in 1..l /\ s + 2 * p + 1 \in 1..l
         /\ \A i \in 1..w : s + 1 + 2 * c + i \in 1..l
<1>1. ASSUME NEW p \in 1..c PROVE s + 2 * p \in 1..l /\ s + 2 * p + 1 \in 1..l
  OBVIOUS
<1>2. ASSUME NEW i \in 1..w PROVE s + 1 + 2 * c + i \in 1..l
  OBVIOUS
<1> QED BY <1>1, <1>2

(* Where the file grows at its end, what was written stays. *)
LEMMA WrittenStays ==
  ASSUME TInv, stage # "failed", NEW lay \in Layouts, Layout(lay), UNCHANGED db,
         \A i \in 1..Len(out) : out'[i] = out[i]
  PROVE  /\ \A d \in 1..Headed : HeaderAt(lay, d)'
         /\ \A d \in 1..Finished : PagesAt(lay, d, lay.copied[d])' /\ WalAt(lay, d)'
         /\ \A i \in 1..Len(out) : IsHeader(i)' <=> \E d \in 1..Headed : i = lay.start[d]
<1>0. out \in Seq(Unit) /\ Len(out) \in Nat /\ DOMAIN out = 1..Len(out)
  BY DEF TInv, Buffers
<1>1. ASSUME NEW d \in 1..Headed PROVE HeaderAt(lay, d)'
  <2>1. lay.start[d] \in Nat /\ lay.start[d] >= 1 /\ lay.start[d] + 1 <= Len(out)
    BY HeaderWithin
  <2>2. HeaderAt(lay, d)
    BY DEF Layout, HeadersAt
  <2>3. WalSize(d)' = WalSize(d)
    BY DEF WalSize, WalUnits
  <2>4. \A h \in {1, 2} : lay.start[d] + h - 1 \in 1..Len(out)
    BY <1>0, <2>1
  <2> QED BY <2>2, <2>3, <2>4 DEF HeaderAt
<1>2. ASSUME NEW d \in 1..Finished PROVE PagesAt(lay, d, lay.copied[d])' /\ WalAt(lay, d)'
  <2>1. /\ lay.start[d] \in Nat /\ lay.copied[d] \in Nat /\ WalSize(d) \in Nat
        /\ lay.start[d] >= 3
        /\ lay.start[d] + 1 + 2 * lay.copied[d] + WalSize(d) <= Len(out)
    BY Within
  <2>2. PagesAt(lay, d, lay.copied[d]) /\ WalAt(lay, d)
    BY DEF Layout, FilesAt
  <2>3. /\ \A p \in 1..lay.copied[d] : /\ lay.start[d] + 2 * p \in 1..Len(out)
                                       /\ lay.start[d] + 2 * p + 1 \in 1..Len(out)
        /\ \A i \in 1..WalSize(d) : lay.start[d] + 1 + 2 * lay.copied[d] + i \in 1..Len(out)
    <3>1. PICK s \in Nat, c \in Nat, w \in Nat, l \in Nat :
            s = lay.start[d] /\ c = lay.copied[d] /\ w = WalSize(d) /\ l = Len(out)
      BY <1>0, <2>1
    <3>2. s >= 3 /\ s + 1 + 2 * c + w <= l
      BY <2>1, <3>1
    <3>3. /\ \A p \in 1..c : s + 2 * p \in 1..l /\ s + 2 * p + 1 \in 1..l
          /\ \A i \in 1..w : s + 1 + 2 * c + i \in 1..l
      BY <3>2, PlacesInside
    <3> QED BY <3>1, <3>3
  <2>5. WalSize(d)' = WalSize(d) /\ WalUnits(d)' = WalUnits(d)
    BY DEF WalSize, WalUnits
  <2>6. PagesAt(lay, d, lay.copied[d])'
    <3>1. FramePages(d)' = FramePages(d) /\ db'[d] = db[d]
      BY DEF FramePages
    <3>2. ASSUME NEW p \in 1..lay.copied[d]
          PROVE  /\ out'[lay.start[d] + 2 * p] = out[lay.start[d] + 2 * p]
                 /\ out'[lay.start[d] + 2 * p + 1] = out[lay.start[d] + 2 * p + 1]
      BY <2>3
    <3>3. PagesAt(lay, d, lay.copied[d])
      BY <2>2
    <3>4. ASSUME NEW p \in 1..lay.copied[d]
          PROVE  \E data \in Data :
                   /\ out'[lay.start[d] + 2 * p] = [type |-> "page", data |-> data, half |-> 1]
                   /\ out'[lay.start[d] + 2 * p + 1] = [type |-> "page", data |-> data, half |-> 2]
                   /\ p \in 1..db'[d].size \ FramePages(d)' => data = db'[d].main[p]
      <4>1. PICK data \in Data :
              /\ out[lay.start[d] + 2 * p] = [type |-> "page", data |-> data, half |-> 1]
              /\ out[lay.start[d] + 2 * p + 1] = [type |-> "page", data |-> data, half |-> 2]
              /\ p \in 1..db[d].size \ FramePages(d) => data = db[d].main[p]
        BY <3>3 DEF PagesAt
      <4> QED BY ONLY <3>1, <3>2, <4>1, data \in Data, p \in 1..lay.copied[d]
    <3> QED BY ONLY <3>4 DEF PagesAt
  <2>7. WalAt(lay, d)'
    BY <2>2, <2>3, <2>5 DEF WalAt
  <2> QED BY <2>6, <2>7
<1>3. ASSUME NEW i \in 1..Len(out) PROVE IsHeader(i)' <=> \E d \in 1..Headed : i = lay.start[d]
  <2>1. IsHeader(i)' <=> IsHeader(i)
    BY DEF IsHeader
  <2> QED BY <1>0, <2>1 DEF Layout, HeadersAt
<1> QED BY <1>1, <1>2, <1>3

(* At first nothing is announced and nothing is written. *)
LEMMA LayInit ==
  ASSUME Init
  PROVE  \E lay \in Layouts :
           /\ Layout(lay)
           /\ \A direction \in Directions :
                (\A d \in DOMAIN db : Towards(direction, Len(db[d].main), db[d].size)) =>
                  Directed(direction, lay)
<1> DEFINE zero == [d \in Nat |-> 0]
           lay == [announced |-> zero, header |-> zero, copied |-> zero,
                   start |-> [d \in Nat |-> 3], sum |-> [d \in Nat |-> 2]]
<1>1. lay \in Layouts
  BY DEF Layouts
<1>2. /\ stage \in {"size", "header"} /\ at = 1 /\ total = 2 /\ out = <<>> /\ Len(out) = 0
      /\ stage = "header" => db = <<>>
  BY DEF Init
<1>3. Announced = 0 /\ Headed = 0 /\ Measured = 0 /\ Finished = 0
  <2>1. db = <<>> => Len(db) = 0
    OBVIOUS
  <2> QED BY <1>2, <2>1 DEF Announced, Headed, Measured, Finished
<1>4. lay.sum[1] = 2 /\ lay.start[1] = 3
  OBVIOUS
<1> HIDE DEF lay
<1>5. Sized(lay)
  BY <1>2, <1>3, <1>4 DEF Sized
<1>6. Placed(lay)
  BY <1>3, <1>4 DEF Placed
<1>7. EndsAt(lay) /\ stage \notin Reading
  BY <1>2 DEF EndsAt, Reading, Loading
<1>8. HeadersAt(lay)
  BY <1>2, <1>3 DEF HeadersAt
<1>9. FilesAt(lay)
  BY <1>2, <1>3 DEF FilesAt
<1>10. ASSUME NEW direction \in Directions,
              \A d \in DOMAIN db : Towards(direction, Len(db[d].main), db[d].size)
       PROVE  Directed(direction, lay)
  BY <1>3, <1>10 DEF Directed
<1> QED BY <1>1, <1>5, <1>6, <1>7, <1>8, <1>9, <1>10 DEF Layout

(* A checkpoint copies pages that are in a WAL; it goes on in its direction. *)
LEMMA LayCheckpoint ==
  ASSUME TInv, NEW lay \in Layouts, Layout(lay), NEW d \in DOMAIN db, Checkpoint(d)
  PROVE  Extends(lay)
<1>1. /\ Len(db') = Len(db) /\ DOMAIN db' = DOMAIN db
      /\ \A e \in DOMAIN db :
           /\ db'[e].wal = db[e].wal /\ db'[e].valid = db[e].valid /\ db'[e].size = db[e].size
           /\ \A p \in 1..db[e].size \ FramePages(e) :
                p \in DOMAIN db'[e].main /\ db'[e].main[p] = db[e].main[p]
           /\ Moved(e)
  BY CheckpointIs DEF TInv
<1>2. UNCHANGED <<stage, at, total, len, page, out>> /\ stage \in Checkpointing
  BY DEF Checkpoint, writing, Checkpointing
<1>3. ASSUME NEW e \in DOMAIN db
      PROVE  /\ FramePages(e)' = FramePages(e)
             /\ WalUnits(e)' = WalUnits(e) /\ WalSize(e)' = WalSize(e)
  <2>1. db'[e].wal = db[e].wal /\ db'[e].valid = db[e].valid
    BY <1>1
  <2>2. FramePages(e)' = FramePages(e)
    BY <2>1 DEF FramePages
  <2>3. WalUnits(e)' = WalUnits(e)
    BY <2>1 DEF WalUnits
  <2> QED BY <2>2, <2>3 DEF WalSize
<1>4. /\ Announced' = Announced /\ Headed' = Headed /\ Measured' = Measured /\ Finished' = Finished
  BY <1>1, <1>2 DEF Announced, Headed, Measured, Finished
<1>5. /\ Announced \in 0..Len(db) /\ Headed \in 0..Len(db) /\ Measured \in 0..Len(db)
      /\ Finished \in 0..Len(db)
      /\ Len(db) \in Nat /\ DOMAIN db = 1..Len(db)
  BY <1>2, CountsAre DEF Checkpointing
<1>6. /\ \A e \in 1..Announced : e \in DOMAIN db
      /\ \A e \in 1..Headed : e \in DOMAIN db
      /\ \A e \in 1..Measured : e \in DOMAIN db
      /\ \A e \in 1..Finished : e \in DOMAIN db
  BY <1>5
<1>7. Sized(lay)'
  BY <1>2, <1>3, <1>4, <1>6 DEF Layout, Sized
<1>8. Placed(lay)'
  <2>1. lay.start[1] = 3
    BY DEF Layout, Placed
  <2>2. \A e \in 1..Finished :
          lay.start[e + 1] = lay.start[e] + 2 + 2 * lay.copied[e] + WalSize(e)'
    BY <1>3, <1>6 DEF Layout, Placed
  <2>3. ASSUME NEW e \in 1..(Finished + 1), NEW f \in 1..(Finished + 1), e < f
        PROVE  lay.start[e] + 2 + 2 * lay.copied[e] + WalSize(e)' <= lay.start[f]
    <3>1. e \in 1..Finished
      BY <1>5, <2>3
    <3>2. WalSize(e)' = WalSize(e)
      BY <1>3, <1>6, <3>1
    <3> QED BY <2>3, <3>2 DEF Layout, Placed
  <2> QED BY <1>4, <2>1, <2>2, <2>3 DEF Placed
<1>9. EndsAt(lay)'
  BY <1>1, <1>2 DEF Layout, EndsAt
<1>10. HeadersAt(lay)'
  BY <1>2, <1>3, <1>4, <1>6 DEF Layout, HeadersAt, HeaderAt, IsHeader
<1>11. ASSUME NEW e \in DOMAIN db, NEW k \in Nat, PagesAt(lay, e, k) PROVE PagesAt(lay, e, k)'
  <2>1. ASSUME NEW p \in 1..k
        PROVE  \E data \in Data :
                 /\ out'[lay.start[e] + 2 * p] = [type |-> "page", data |-> data, half |-> 1]
                 /\ out'[lay.start[e] + 2 * p + 1] = [type |-> "page", data |-> data, half |-> 2]
                 /\ p \in 1..db'[e].size \ FramePages(e)' => data = db'[e].main[p]
    <3>1. PICK data \in Data :
            /\ out[lay.start[e] + 2 * p] = [type |-> "page", data |-> data, half |-> 1]
            /\ out[lay.start[e] + 2 * p + 1] = [type |-> "page", data |-> data, half |-> 2]
            /\ p \in 1..db[e].size \ FramePages(e) => data = db[e].main[p]
      BY <1>11 DEF PagesAt
    <3>2. p \in 1..db'[e].size \ FramePages(e)' => data = db'[e].main[p]
      BY <1>1, <1>3, <3>1
    <3> QED BY <1>2, <3>1, <3>2
  <2> QED BY <2>1 DEF PagesAt
<1>12. FilesAt(lay)'
  <2>1. \A e \in 1..Measured : 1..db'[e].size \ FramePages(e)' \subseteq 1..lay.copied[e]
    BY <1>1, <1>3, <1>6 DEF Layout, FilesAt
  <2>2. ASSUME NEW e \in 1..Finished PROVE PagesAt(lay, e, lay.copied[e])' /\ WalAt(lay, e)'
    <3>1. e \in DOMAIN db /\ e \in Nat
      BY <1>6
    <3>2. lay.copied[e] \in Nat /\ PagesAt(lay, e, lay.copied[e]) /\ WalAt(lay, e)
      BY <3>1, LayoutIs DEF Layout, FilesAt
    <3>3. PagesAt(lay, e, lay.copied[e])'
      BY <1>11, <3>1, <3>2
    <3>4. WalAt(lay, e)'
      BY <1>2, <1>3, <3>1, <3>2 DEF WalAt
    <3> QED BY <3>3, <3>4
  <2>3. ASSUME stage = "main" PROVE lay.copied[at] = len /\ PagesAt(lay, at, page)'
    <3>1. at \in DOMAIN db /\ page \in Nat
      BY <2>3, AtIs DEF TInv, Counters
    <3>2. lay.copied[at] = len /\ PagesAt(lay, at, page)
      BY <2>3 DEF Layout, FilesAt
    <3>3. PICK e \in DOMAIN db, k \in Nat : e = at /\ k = page
      BY <3>1
    <3>4. PagesAt(lay, e, k)'
      BY <1>11, <3>2, <3>3
    <3>5. at' = e /\ page' = k
      BY <1>2, <3>3
    <3> QED BY <3>2, <3>4, <3>5 DEF PagesAt
  <2>4. stage' = "main" => lay.copied[at'] = len' /\ PagesAt(lay, at, page)'
    BY <1>2, <2>3
  <2> QED BY <1>4, <2>1, <2>2, <2>4 DEF FilesAt
<1>13. stage' \notin Reading
  BY <1>2 DEF Reading, Loading, Checkpointing
<1>14. ASSUME NEW direction \in Directions, Directed(direction, lay)
       PROVE  Directed(direction, lay)'
  <2>1. ASSUME NEW e \in DOMAIN db
        PROVE  /\ Towards(direction, Len(db'[e].main), db'[e].size)
               /\ \A x \in Nat : Towards(direction, x, Len(db[e].main)) =>
                                   Towards(direction, x, Len(db'[e].main))
    <3>1. PICK old \in Nat, new \in Nat, size \in Nat :
            old = Len(db[e].main) /\ new = Len(db'[e].main) /\ size = db[e].size
      <4>1. Len(db[e].main) \in Nat /\ db[e].size \in Nat
        BY DatabaseIs DEF TInv
      <4>2. TInv'
        BY TCheckpoint
      <4>3. Len(db'[e].main) \in Nat
        <5>1. db'[e] \in OpenDatabase
          BY <1>1, <4>2 DEF TInv, Files
        <5>2. db'[e].main \in Seq(Data)
          BY <5>1 DEF OpenDatabase
        <5> QED BY <5>2
      <4> QED BY <4>1, <4>3
    <3>2. /\ old <= size => old <= new /\ new <= size
          /\ size <= old => size <= new /\ new <= old
      BY <1>1, <3>1 DEF Moved
    <3>3. Towards(direction, old, size)
      BY <1>14, <3>1 DEF Directed
    <3>4. Towards(direction, new, size) /\ \A x \in Nat : Towards(direction, x, old) => Towards(direction, x, new)
      BY <3>2, <3>3 DEF Towards, Directions
    <3> QED BY <1>1, <3>1, <3>4
  <2>2. ASSUME NEW e \in 1..Announced
        PROVE  Towards(direction, lay.announced[e], Len(db'[e].main))
    <3>1. e \in DOMAIN db /\ lay.announced[e] \in Nat
      BY <1>6, LayoutIs
    <3> QED BY <1>14, <2>1, <3>1 DEF Directed
  <2>3. ASSUME NEW e \in 1..Headed
        PROVE  /\ Towards(direction, lay.announced[e], lay.header[e])
               /\ Towards(direction, lay.header[e], Len(db'[e].main))
    <3>1. e \in DOMAIN db /\ lay.header[e] \in Nat
      BY <1>6, LayoutIs
    <3> QED BY <1>14, <2>1, <3>1 DEF Directed
  <2>4. \A e \in 1..Measured : Towards(direction, lay.header[e], lay.copied[e])
    BY <1>14 DEF Directed
  <2> QED BY <1>1, <1>4, <2>1, <2>2, <2>3, <2>4 DEF Directed
<1> QED BY <1>7, <1>8, <1>9, <1>10, <1>12, <1>13, <1>14 DEF Extends, Layout

(* Layouts that differ in one number. *)
LEMMA NewAnnounced ==
  ASSUME NEW lay \in Layouts, NEW k \in Nat, NEW n \in Nat
  PROVE  \E new \in Layouts :
           /\ new.announced[k] = n /\ \A d \in Nat \ {k} : new.announced[d] = lay.announced[d]
           /\ new.header = lay.header /\ new.copied = lay.copied /\ new.start = lay.start /\ new.sum = lay.sum
<1> DEFINE g == [lay.announced EXCEPT ![k] = n]
           new == [announced |-> g, header |-> lay.header, copied |-> lay.copied,
                  start |-> lay.start, sum |-> lay.sum]
<1>1. lay.announced \in [Nat -> Nat] /\ lay.header \in [Nat -> Nat] /\ lay.copied \in [Nat -> Nat]
      /\ lay.start \in [Nat -> Nat] /\ lay.sum \in [Nat -> Nat]
  BY DEF Layouts
<1>2. g \in [Nat -> Nat] /\ g[k] = n /\ \A d \in Nat \ {k} : g[d] = lay.announced[d]
  BY <1>1
<1> HIDE DEF g
<1>3. new \in Layouts
  BY <1>1, <1>2 DEF Layouts
<1> QED BY <1>2, <1>3

(* The same for the place of a header, *)
LEMMA NewHeader ==
  ASSUME NEW lay \in Layouts, NEW k \in Nat, NEW n \in Nat
  PROVE  \E new \in Layouts :
           /\ new.header[k] = n /\ \A d \in Nat \ {k} : new.header[d] = lay.header[d]
           /\ new.announced = lay.announced /\ new.copied = lay.copied /\ new.start = lay.start /\ new.sum = lay.sum
<1> DEFINE g == [lay.header EXCEPT ![k] = n]
           new == [announced |-> lay.announced, header |-> g, copied |-> lay.copied,
                  start |-> lay.start, sum |-> lay.sum]
<1>1. lay.announced \in [Nat -> Nat] /\ lay.header \in [Nat -> Nat] /\ lay.copied \in [Nat -> Nat]
      /\ lay.start \in [Nat -> Nat] /\ lay.sum \in [Nat -> Nat]
  BY DEF Layouts
<1>2. g \in [Nat -> Nat] /\ g[k] = n /\ \A d \in Nat \ {k} : g[d] = lay.header[d]
  BY <1>1
<1> HIDE DEF g
<1>3. new \in Layouts
  BY <1>1, <1>2 DEF Layouts
<1> QED BY <1>2, <1>3

(* for the length that is copied, *)
LEMMA NewCopied ==
  ASSUME NEW lay \in Layouts, NEW k \in Nat, NEW n \in Nat
  PROVE  \E new \in Layouts :
           /\ new.copied[k] = n /\ \A d \in Nat \ {k} : new.copied[d] = lay.copied[d]
           /\ new.announced = lay.announced /\ new.header = lay.header /\ new.start = lay.start /\ new.sum = lay.sum
<1> DEFINE g == [lay.copied EXCEPT ![k] = n]
           new == [announced |-> lay.announced, header |-> lay.header, copied |-> g,
                  start |-> lay.start, sum |-> lay.sum]
<1>1. lay.announced \in [Nat -> Nat] /\ lay.header \in [Nat -> Nat] /\ lay.copied \in [Nat -> Nat]
      /\ lay.start \in [Nat -> Nat] /\ lay.sum \in [Nat -> Nat]
  BY DEF Layouts
<1>2. g \in [Nat -> Nat] /\ g[k] = n /\ \A d \in Nat \ {k} : g[d] = lay.copied[d]
  BY <1>1
<1> HIDE DEF g
<1>3. new \in Layouts
  BY <1>1, <1>2 DEF Layouts
<1> QED BY <1>2, <1>3

(* for the place where the next database starts, *)
LEMMA NewStart ==
  ASSUME NEW lay \in Layouts, NEW k \in Nat, NEW n \in Nat
  PROVE  \E new \in Layouts :
           /\ new.start[k] = n /\ \A d \in Nat \ {k} : new.start[d] = lay.start[d]
           /\ new.announced = lay.announced /\ new.header = lay.header /\ new.copied = lay.copied /\ new.sum = lay.sum
<1> DEFINE g == [lay.start EXCEPT ![k] = n]
           new == [announced |-> lay.announced, header |-> lay.header, copied |-> lay.copied,
                  start |-> g, sum |-> lay.sum]
<1>1. lay.announced \in [Nat -> Nat] /\ lay.header \in [Nat -> Nat] /\ lay.copied \in [Nat -> Nat]
      /\ lay.start \in [Nat -> Nat] /\ lay.sum \in [Nat -> Nat]
  BY DEF Layouts
<1>2. g \in [Nat -> Nat] /\ g[k] = n /\ \A d \in Nat \ {k} : g[d] = lay.start[d]
  BY <1>1
<1> HIDE DEF g
<1>3. new \in Layouts
  BY <1>1, <1>2 DEF Layouts
<1> QED BY <1>2, <1>3

(* and for the sum of what was announced. *)
LEMMA NewSum ==
  ASSUME NEW lay \in Layouts, NEW k \in Nat, NEW n \in Nat
  PROVE  \E new \in Layouts :
           /\ new.sum[k] = n /\ \A d \in Nat \ {k} : new.sum[d] = lay.sum[d]
           /\ new.announced = lay.announced /\ new.header = lay.header /\ new.copied = lay.copied /\ new.start = lay.start
<1> DEFINE g == [lay.sum EXCEPT ![k] = n]
           new == [announced |-> lay.announced, header |-> lay.header, copied |-> lay.copied,
                  start |-> lay.start, sum |-> g]
<1>1. lay.announced \in [Nat -> Nat] /\ lay.header \in [Nat -> Nat] /\ lay.copied \in [Nat -> Nat]
      /\ lay.start \in [Nat -> Nat] /\ lay.sum \in [Nat -> Nat]
  BY DEF Layouts
<1>2. g \in [Nat -> Nat] /\ g[k] = n /\ \A d \in Nat \ {k} : g[d] = lay.sum[d]
  BY <1>1
<1> HIDE DEF g
<1>3. new \in Layouts
  BY <1>1, <1>2 DEF Layouts
<1> QED BY <1>2, <1>3

(* Sizing a database adds one to what was announced. *)
LEMMA LayAddSize ==
  ASSUME TInv, NEW lay \in Layouts, Layout(lay), AddSize
  PROVE  Extends(lay)
<1> DEFINE size == Len(db[at].main)
<1>1. /\ stage = "size" /\ total' = total + 2 + MainSize(at) + WalSize(at)
      /\ IF at = Len(db) THEN stage' = "header" /\ at' = 1 ELSE stage' = stage /\ at' = at + 1
      /\ UNCHANGED <<db, len, page, out, reading>>
  BY DEF AddSize, IsLast
<1>2. at \in DOMAIN db /\ at \in Nat \ {0} /\ at <= Len(db) /\ Len(db) \in Nat
  BY <1>1, AtIs
<1>3. size \in Nat /\ WalSize(at) \in Nat /\ MainSize(at) = 2 * size
  BY <1>2, DatabaseIs, MainSizeIs DEF TInv, MainSize
<1> HIDE DEF size
<1>4. /\ Announced = at - 1 /\ Announced' = at
      /\ Headed = 0 /\ Headed' = 0 /\ Measured' = 0 /\ Finished' = 0 /\ Finished = 0
  BY <1>1, <1>2 DEF Announced, Headed, Measured, Finished
<1>5. \A d \in 1..(at + 1) : lay.announced[d] \in Nat /\ lay.sum[d] \in Nat
  BY LayoutIs
<1>6. PICK one \in Layouts :
        /\ one.announced[at] = size /\ \A d \in Nat \ {at} : one.announced[d] = lay.announced[d]
        /\ one.header = lay.header /\ one.copied = lay.copied /\ one.start = lay.start /\ one.sum = lay.sum
  <2>1. at \in Nat
    BY <1>2
  <2> QED BY <1>3, <2>1, NewAnnounced
<1>14. PICK new \in Layouts :
        /\ new.sum[at + 1] = lay.sum[at] + 2 + 2 * size + WalSize(at)
        /\ \A d \in Nat \ {at + 1} : new.sum[d] = one.sum[d]
        /\ new.announced = one.announced /\ new.header = one.header
        /\ new.copied = one.copied /\ new.start = one.start
  <2>1. at + 1 \in Nat /\ at \in 1..(at + 1)
    BY <1>2
  <2>2. lay.sum[at] + 2 + 2 * size + WalSize(at) \in Nat
    BY <1>3, <1>5, <2>1
  <2>3. PICK k \in Nat, n \in Nat : k = at + 1 /\ n = lay.sum[at] + 2 + 2 * size + WalSize(at)
    BY <2>1, <2>2
  <2>4. \E new \in Layouts :
          /\ new.sum[k] = n /\ \A d \in Nat \ {k} : new.sum[d] = one.sum[d]
          /\ new.announced = one.announced /\ new.header = one.header
          /\ new.copied = one.copied /\ new.start = one.start
    BY NewSum
  <2> QED BY <2>3, <2>4
<1>7. /\ new.announced[at] = size /\ \A d \in 1..(at - 1) : new.announced[d] = lay.announced[d]
      /\ new.sum[at + 1] = lay.sum[at] + 2 + 2 * size + WalSize(at)
      /\ \A d \in 1..at : new.sum[d] = lay.sum[d]
  <2>1. /\ \A d \in 1..(at - 1) : d \in Nat \ {at}
        /\ \A d \in 1..at : d \in Nat \ {at + 1}
    BY <1>2
  <2> QED BY <1>6, <1>14, <2>1
<1>8. Sized(new)'
  <2>1. /\ lay.sum[1] = 2 /\ total = lay.sum[at]
        /\ \A d \in 1..(at - 1) : lay.sum[d + 1] = lay.sum[d] + 2 + 2 * lay.announced[d] + WalSize(d)
    BY <1>2, <1>4 DEF Layout, Sized
  <2>2. \A d : WalSize(d)' = WalSize(d)
    BY <1>1 DEF WalSize, WalUnits
  <2>3. ASSUME NEW d \in 1..at
        PROVE  new.sum[d + 1] = new.sum[d] + 2 + 2 * new.announced[d] + WalSize(d)
    <3>1. CASE d = at
      BY <1>2, <1>7, <3>1
    <3>2. CASE d # at
      <4>1. d \in 1..(at - 1) /\ d + 1 \in 1..at
        BY <1>2, <3>2
      <4> QED BY <1>7, <2>1, <4>1
    <3> QED BY <3>1, <3>2
  <2>4. total' = new.sum[at + 1] /\ new.sum[1] = 2
    BY <1>1, <1>2, <1>3, <1>7, <2>1
  <2> QED BY <1>4, <2>2, <2>3, <2>4 DEF Sized
<1>9. Placed(new)'
  <2>1. new.start[1] = 3
    BY <1>6, <1>14 DEF Layout, Placed
  <2> QED BY <1>4, <2>1 DEF Placed
<1>10. EndsAt(new)' /\ stage' \notin Reading
  BY <1>1 DEF Layout, EndsAt, Reading, Loading
<1>11. HeadersAt(new)'
  BY <1>1, <1>4 DEF Layout, HeadersAt, IsHeader
<1>12. FilesAt(new)'
  BY <1>1, <1>4 DEF FilesAt
<1>13. ASSUME NEW direction \in Directions, Directed(direction, lay)
       PROVE  Directed(direction, new)'
  <2>1. \A d \in DOMAIN db : Towards(direction, Len(db[d].main), db[d].size)
    BY <1>13 DEF Directed
  <2>2. ASSUME NEW d \in 1..at PROVE Towards(direction, new.announced[d], Len(db[d].main))
    <3>1. CASE d = at
      BY <1>3, <1>7, <3>1 DEF Towards, size
    <3>2. CASE d # at
      <4>1. d \in 1..(at - 1)
        BY <1>2, <3>2
      <4> QED BY <1>4, <1>7, <1>13, <4>1 DEF Directed
    <3> QED BY <3>1, <3>2
  <2>3. db' = db
    BY <1>1
  <2> QED BY <1>4, <2>1, <2>2, <2>3 DEF Directed
<1> QED BY <1>6, <1>8, <1>9, <1>10, <1>11, <1>12, <1>13 DEF Extends, Layout

(* The header of the file comes first. *)
LEMMA LayWriteHeader ==
  ASSUME TInv, NEW lay \in Layouts, Layout(lay), WriteHeader
  PROVE  Extends(lay)
<1>1. /\ stage = "header" /\ out' = Header(Len(db))
      /\ stage' = (IF db = <<>> THEN "encoded" ELSE "database")
      /\ UNCHANGED <<db, at, total, len, page, reading>>
  BY DEF WriteHeader
<1>2. at = 1 /\ Len(db) \in Nat /\ (db = <<>> => Len(db) = 0)
  BY <1>1 DEF TInv, Stages, Files
<1>3. /\ Announced = Len(db) /\ Announced' = Len(db) /\ Headed' = 0 /\ Measured' = 0 /\ Finished' = 0
      /\ Finished = 0
  BY <1>1, <1>2 DEF Announced, Headed, Measured, Finished
<1>4. Len(out') = 2 /\ DOMAIN out' = 1..2 /\ \A i \in 1..2 : out'[i].type = "header"
  BY <1>1 DEF Header
<1>5. Sized(lay)'
  BY <1>1, <1>3 DEF Layout, Sized, WalSize, WalUnits
<1>6. Placed(lay)'
  BY <1>3 DEF Layout, Placed
<1>7. EndsAt(lay)' /\ stage' \notin Reading
  <2>1. lay.start[1] = 3
    BY DEF Layout, Placed
  <2> QED BY <1>1, <1>2, <1>4, <2>1 DEF EndsAt, Reading, Loading
<1>8. HeadersAt(lay)'
  BY <1>3, <1>4 DEF HeadersAt, IsHeader
<1>9. FilesAt(lay)'
  BY <1>1, <1>3 DEF FilesAt
<1>10. ASSUME NEW direction \in Directions, Directed(direction, lay)
       PROVE  Directed(direction, lay)'
  BY <1>1, <1>3, <1>10 DEF Directed
<1> QED BY <1>5, <1>6, <1>7, <1>8, <1>9, <1>10 DEF Extends, Layout

(* A database lies in the file as it did when its layout only changes elsewhere. *)
LEMMA SameFile ==
  ASSUME NEW lay, NEW new, NEW d, new.start[d] = lay.start[d], new.copied[d] = lay.copied[d],
         PagesAt(lay, d, lay.copied[d])', WalAt(lay, d)'
  PROVE  PagesAt(new, d, new.copied[d])' /\ WalAt(new, d)'
<1>1. ASSUME NEW p \in 1..new.copied[d]
      PROVE  \E data \in Data :
               /\ out'[new.start[d] + 2 * p] = [type |-> "page", data |-> data, half |-> 1]
               /\ out'[new.start[d] + 2 * p + 1] = [type |-> "page", data |-> data, half |-> 2]
               /\ p \in 1..db'[d].size \ FramePages(d)' => data = db'[d].main[p]
  <2>1. p \in 1..lay.copied[d]
    OBVIOUS
  <2>2. \E data \in Data :
          /\ out'[lay.start[d] + 2 * p] = [type |-> "page", data |-> data, half |-> 1]
          /\ out'[lay.start[d] + 2 * p + 1] = [type |-> "page", data |-> data, half |-> 2]
          /\ p \in 1..db'[d].size \ FramePages(d)' => data = db'[d].main[p]
    BY <2>1 DEF PagesAt
  <2> QED BY <2>2
<1>2. PagesAt(new, d, new.copied[d])'
  BY <1>1 DEF PagesAt
<1>3. WalAt(new, d)'
  BY DEF WalAt
<1> QED BY <1>2, <1>3

(* Steps of the copy leave what was announced. *)
LEMMA SizedStays ==
  ASSUME TInv, NEW lay \in Layouts, Sized(lay), NEW new \in Layouts,
         new.announced = lay.announced, new.sum = lay.sum,
         UNCHANGED <<db, total>>, stage # "size", stage' # "size"
  PROVE  Sized(new)'
<1>1. Announced = Len(db) /\ Announced' = Len(db)
  BY DEF Announced
<1>2. \A d : WalSize(d)' = WalSize(d)
  BY DEF WalSize, WalUnits
<1> QED BY <1>1, <1>2 DEF Sized

(* A header goes to where its database starts. *)
LEMMA LayDatabaseHeader ==
  ASSUME TInv, NEW lay \in Layouts, Layout(lay), WriteDatabaseHeader
  PROVE  Extends(lay)
<1> DEFINE size == Len(db[at].main)
           head == DatabaseHeader(MainSize(at), WalSize(at))
<1>1. /\ stage = "database" /\ stage' = "main_len" /\ out' = out \o head
      /\ UNCHANGED <<db, at, total, len, page, reading>>
  BY DEF WriteDatabaseHeader
<1>2. at \in DOMAIN db /\ at \in Nat \ {0} /\ at <= Len(db) /\ Len(db) \in Nat
  BY <1>1, AtIs
<1>3. size \in Nat /\ WalSize(at) \in Nat /\ MainSize(at) = 2 * size /\ MainSize(at) \in Nat
  BY <1>2, DatabaseIs, MainSizeIs DEF TInv, MainSize
<1>4. head \in Seq(Unit) /\ Len(head) = 2
      /\ \A h \in {1, 2} : head[h] = [type |-> "database", main_size |-> 2 * size,
                                      wal_size |-> WalSize(at), half |-> h]
  BY <1>3 DEF DatabaseHeader, Unit
<1> HIDE DEF size, head
<1>5. out \in Seq(Unit) /\ Len(out) \in Nat /\ DOMAIN out = 1..Len(out)
  BY DEF TInv, Buffers
<1>6. /\ out' \in Seq(Unit) /\ Len(out') = Len(out) + 2 /\ DOMAIN out' = 1..Len(out')
      /\ \A i \in 1..Len(out) : out'[i] = out[i]
      /\ \A h \in {1, 2} : out'[Len(out) + h] = head[h]
  <2>1. /\ out \o head \in Seq(Unit) /\ Len(out \o head) = Len(out) + Len(head)
        /\ \A i \in 1..Len(out) : (out \o head)[i] = out[i]
        /\ \A i \in 1..Len(head) : (out \o head)[Len(out) + i] = head[i]
    <3>1. out \in Seq(Unit) /\ head \in Seq(Unit)
      BY <1>4, <1>5
    <3> QED BY <3>1, ConcatIs
  <2> QED BY <1>1, <1>4, <2>1
<1>7. lay.start[at] \in Nat /\ Len(out) = lay.start[at] - 1
  BY <1>1, <1>2, LayoutIs DEF Layout, EndsAt
<1>8. /\ Finished = at - 1 /\ Finished' = at - 1 /\ Measured = at - 1 /\ Measured' = at - 1
      /\ Headed = at - 1 /\ Headed' = at /\ Announced = Len(db) /\ Announced' = Len(db)
  BY <1>1, <1>2 DEF Announced, Headed, Measured, Finished
<1>9. PICK new \in Layouts :
        /\ new.header[at] = size /\ \A d \in Nat \ {at} : new.header[d] = lay.header[d]
        /\ new.announced = lay.announced /\ new.copied = lay.copied
        /\ new.start = lay.start /\ new.sum = lay.sum
  <2>1. at \in Nat
    BY <1>2
  <2>2. PICK k \in Nat, n \in Nat : k = at /\ n = size
    BY <1>3, <2>1
  <2>3. \E new \in Layouts :
          /\ new.header[k] = n /\ \A d \in Nat \ {k} : new.header[d] = lay.header[d]
          /\ new.announced = lay.announced /\ new.copied = lay.copied
          /\ new.start = lay.start /\ new.sum = lay.sum
    BY NewHeader
  <2> QED BY <2>2, <2>3
<1>10. \A d \in 1..(at - 1) : d \in Nat \ {at} /\ new.header[d] = lay.header[d]
  BY <1>2, <1>9
<1>11. \A d : WalSize(d)' = WalSize(d)
  BY <1>1 DEF WalSize, WalUnits
<1>12. Sized(new)'
  BY <1>1, <1>9, SizedStays DEF Layout
<1>13. Placed(new)'
  BY <1>8, <1>9, <1>11 DEF Layout, Placed
<1>14. EndsAt(new)' /\ stage' \notin Reading
  BY <1>1, <1>6, <1>7, <1>9 DEF EndsAt, Reading, Loading
<1>15. /\ \A d \in 1..(at - 1) : HeaderAt(lay, d)'
       /\ \A d \in 1..(at - 1) : PagesAt(lay, d, lay.copied[d])' /\ WalAt(lay, d)'
       /\ \A i \in 1..Len(out) : IsHeader(i)' <=> \E d \in 1..(at - 1) : i = lay.start[d]
  BY <1>1, <1>6, <1>8, WrittenStays
<1>16. /\ out'[lay.start[at]] = head[1] /\ out'[lay.start[at] + 1] = head[2]
       /\ lay.start[at] = Len(out) + 1
  <2>1. Len(out) + 1 = lay.start[at] /\ Len(out) + 2 = lay.start[at] + 1
    BY <1>7
  <2> QED BY <1>6, <2>1
<1>17. \A d \in 1..at : HeaderAt(new, d)'
  <2>1. ASSUME NEW d \in 1..(at - 1) PROVE HeaderAt(new, d)'
    BY <1>9, <1>10, <1>15 DEF HeaderAt
  <2>2. \A h \in {1, 2} : out'[lay.start[at] + h - 1] = head[h]
    <3>1. lay.start[at] + 1 - 1 = lay.start[at] /\ lay.start[at] + 2 - 1 = lay.start[at] + 1
      BY <1>7
    <3> QED BY <1>16, <3>1
  <2>3. PICK e : e = at
    OBVIOUS
  <2>4. HeaderAt(new, e)'
    BY <1>4, <1>9, <1>11, <2>2, <2>3 DEF HeaderAt
  <2>5. \A d \in 1..at : d \in 1..(at - 1) \/ d = at
    BY <1>2
  <2> QED BY <2>1, <2>3, <2>4, <2>5
<1>18. ASSUME NEW i \in 1..Len(out') PROVE IsHeader(i)' <=> \E d \in 1..at : i = lay.start[d]
  <2>1. \A d \in 1..(at - 1) : lay.start[d] \in Nat /\ lay.start[d] <= Len(out)
    <3>1. ASSUME NEW d \in 1..(at - 1) PROVE lay.start[d] \in Nat /\ lay.start[d] <= Len(out)
      <4>1. lay.start[d] \in Nat /\ lay.start[d] >= 1 /\ lay.start[d] + 1 <= Len(out)
        BY <1>1, <1>8, HeaderWithin
      <4> QED BY <1>5, <4>1
    <3> QED BY <3>1
  <2>2. (\E d \in 1..at : i = lay.start[d]) <=> (\E d \in 1..(at - 1) : i = lay.start[d]) \/ i = lay.start[at]
    <3>1. \A d \in 1..at : d \in 1..(at - 1) \/ d = at
      BY <1>2
    <3>2. at \in 1..at /\ \A d \in 1..(at - 1) : d \in 1..at
      BY <1>2
    <3> QED BY <3>1, <3>2
  <2>3. CASE i \in 1..Len(out)
    <3>1. i # lay.start[at]
      BY <1>5, <1>16, <2>3
    <3> QED BY <1>15, <2>2, <2>3, <3>1
  <2>4. CASE i \notin 1..Len(out)
    <3>1. i = lay.start[at] \/ i = lay.start[at] + 1
      BY <1>5, <1>6, <1>16, <2>4
    <3>2. \A d \in 1..(at - 1) : i # lay.start[d]
      BY <1>5, <2>1, <1>16, <3>1
    <3>3. CASE i = lay.start[at]
      BY <1>4, <1>16, <2>2, <3>3 DEF IsHeader
    <3>4. CASE i = lay.start[at] + 1
      <4>1. i # lay.start[at] /\ ~IsHeader(i)'
        BY <1>4, <1>7, <1>16, <3>4 DEF IsHeader
      <4> QED BY <2>2, <3>2, <4>1
    <3> QED BY <3>1, <3>3, <3>4
  <2> QED BY <2>3, <2>4
<1>19. HeadersAt(new)'
  BY <1>6, <1>8, <1>9, <1>17, <1>18 DEF HeadersAt
<1>20. FilesAt(new)'
  <2>1. \A d \in 1..(at - 1) : 1..db'[d].size \ FramePages(d)' \subseteq 1..new.copied[d]
    BY <1>1, <1>8, <1>9 DEF Layout, FilesAt, FramePages
  <2>2. ASSUME NEW d \in 1..(at - 1) PROVE PagesAt(new, d, new.copied[d])' /\ WalAt(new, d)'
    <3>1. new.start[d] = lay.start[d] /\ new.copied[d] = lay.copied[d]
      BY <1>9
    <3>2. PagesAt(lay, d, lay.copied[d])' /\ WalAt(lay, d)'
      BY <1>15
    <3> QED BY <3>1, <3>2, SameFile
  <2> QED BY <1>1, <1>8, <2>1, <2>2 DEF FilesAt
<1>21. ASSUME NEW direction \in Directions, Directed(direction, lay)
       PROVE  Directed(direction, new)'
  <2>1. db' = db
    BY <1>1
  <2>2. /\ \A d \in DOMAIN db : Towards(direction, Len(db[d].main), db[d].size)
        /\ \A d \in 1..Len(db) : Towards(direction, lay.announced[d], Len(db[d].main))
        /\ \A d \in 1..(at - 1) : Towards(direction, lay.header[d], lay.copied[d])
    BY <1>8, <1>21 DEF Directed
  <2>3. ASSUME NEW d \in 1..at
        PROVE  /\ Towards(direction, lay.announced[d], new.header[d])
               /\ Towards(direction, new.header[d], Len(db[d].main))
    <3>1. CASE d = at
      <4>1. at \in 1..Len(db)
        BY <1>2
      <4> QED BY <1>3, <1>9, <2>2, <3>1, <4>1 DEF Towards, size
    <3>2. CASE d # at
      <4>1. d \in 1..(at - 1)
        BY <1>2, <3>2
      <4> QED BY <1>8, <1>10, <1>21, <4>1 DEF Directed
    <3> QED BY <3>1, <3>2
  <2>4. \A d \in 1..(at - 1) : Towards(direction, new.header[d], new.copied[d])
    BY <1>9, <1>10, <2>2
  <2> QED BY <1>8, <1>9, <2>1, <2>2, <2>3, <2>4 DEF Directed
<1> QED BY <1>12, <1>13, <1>14, <1>19, <1>20, <1>21 DEF Extends, Layout

(* The length of the main file is asked for a third time. *)
LEMMA LayBeginMain ==
  ASSUME TInv, NEW lay \in Layouts, Layout(lay), BeginMain
  PROVE  Extends(lay)
<1> DEFINE size == Len(db[at].main)
<1>1. /\ stage = "main_len" /\ stage' = "main" /\ len' = size /\ page' = 0
      /\ UNCHANGED <<db, at, total, out, reading>>
  BY DEF BeginMain
<1>2. at \in DOMAIN db /\ at \in Nat \ {0} /\ at <= Len(db) /\ Len(db) \in Nat
  BY <1>1, AtIs
<1>3. size \in Nat /\ 1..db[at].size \subseteq 1..size \cup FramePages(at)
  BY <1>2, DatabaseIs DEF TInv
<1> HIDE DEF size
<1>4. lay.start[at] \in Nat /\ Len(out) = lay.start[at] + 1
  BY <1>1, <1>2, LayoutIs DEF Layout, EndsAt
<1>5. /\ Finished = at - 1 /\ Finished' = at - 1 /\ Measured = at - 1 /\ Measured' = at
      /\ Headed = at /\ Headed' = at /\ Announced = Len(db) /\ Announced' = Len(db)
  BY <1>1, <1>2 DEF Announced, Headed, Measured, Finished
<1>6. PICK new \in Layouts :
        /\ new.copied[at] = size /\ \A d \in Nat \ {at} : new.copied[d] = lay.copied[d]
        /\ new.announced = lay.announced /\ new.header = lay.header
        /\ new.start = lay.start /\ new.sum = lay.sum
  <2>1. at \in Nat
    BY <1>2
  <2>2. PICK k \in Nat, n \in Nat : k = at /\ n = size
    BY <1>3, <2>1
  <2>3. \E new \in Layouts :
          /\ new.copied[k] = n /\ \A d \in Nat \ {k} : new.copied[d] = lay.copied[d]
          /\ new.announced = lay.announced /\ new.header = lay.header
          /\ new.start = lay.start /\ new.sum = lay.sum
    BY NewCopied
  <2> QED BY <2>2, <2>3
<1>7. \A d \in 1..(at - 1) : d \in Nat \ {at} /\ new.copied[d] = lay.copied[d]
  BY <1>2, <1>6
<1>8. \A d : WalSize(d)' = WalSize(d) /\ WalUnits(d)' = WalUnits(d)
  BY <1>1 DEF WalSize, WalUnits
<1>9. Sized(new)'
  BY <1>1, <1>6, SizedStays DEF Layout
<1>10. Placed(new)'
  <2>1. lay.start[1] = 3 /\ \A d \in 1..(at - 1) :
          lay.start[d + 1] = lay.start[d] + 2 + 2 * lay.copied[d] + WalSize(d)
    BY <1>5 DEF Layout, Placed
  <2>2. ASSUME NEW d \in 1..at, NEW e \in 1..at, d < e
        PROVE  new.start[d] + 2 + 2 * new.copied[d] + WalSize(d) <= new.start[e]
    <3>1. d \in 1..(at - 1) /\ d \in 1..(Finished + 1) /\ e \in 1..(Finished + 1)
      BY <1>2, <1>5, <2>2
    <3>2. lay.start[d] + 2 + 2 * lay.copied[d] + WalSize(d) <= lay.start[e]
      BY <2>2, <3>1 DEF Layout, Placed
    <3> QED BY <1>6, <1>7, <3>1, <3>2
  <2>3. (at - 1) + 1 = at
    BY <1>2
  <2> QED BY <1>5, <1>6, <1>7, <1>8, <2>1, <2>2, <2>3 DEF Placed
<1>11. EndsAt(new)' /\ stage' \notin Reading
  BY <1>1, <1>4, <1>6 DEF EndsAt, Reading, Loading
<1>12. HeadersAt(new)'
  BY <1>1, <1>5, <1>6, <1>8 DEF Layout, HeadersAt, HeaderAt, IsHeader
<1>13. FilesAt(new)'
  <2>1. ASSUME NEW d \in 1..at PROVE 1..db'[d].size \ FramePages(d)' \subseteq 1..new.copied[d]
    <3>1. FramePages(d)' = FramePages(d) /\ db' = db
      BY <1>1 DEF FramePages
    <3>2. CASE d = at
      BY <1>3, <1>6, <3>1, <3>2
    <3>3. CASE d # at
      <4>1. d \in 1..(at - 1)
        BY <1>2, <3>3
      <4> QED BY <1>5, <1>7, <3>1, <4>1 DEF Layout, FilesAt
    <3> QED BY <3>2, <3>3
  <2>2. ASSUME NEW d \in 1..(at - 1) PROVE PagesAt(new, d, new.copied[d])' /\ WalAt(new, d)'
    <3>1. PagesAt(lay, d, lay.copied[d])' /\ WalAt(lay, d)'
      BY <1>1, <1>5, WrittenStays
    <3>2. new.start[d] = lay.start[d] /\ new.copied[d] = lay.copied[d]
      BY <1>6, <1>7
    <3> QED BY <3>1, <3>2, SameFile
  <2>3. new.copied[at'] = len' /\ PagesAt(new, at, page)'
    BY <1>1, <1>6 DEF PagesAt
  <2> QED BY <1>5, <2>1, <2>2, <2>3 DEF FilesAt
<1>14. ASSUME NEW direction \in Directions, Directed(direction, lay)
       PROVE  Directed(direction, new)'
  <2>1. db' = db
    BY <1>1
  <2>2. /\ \A d \in DOMAIN db : Towards(direction, Len(db[d].main), db[d].size)
        /\ \A d \in 1..Len(db) : Towards(direction, lay.announced[d], Len(db[d].main))
        /\ \A d \in 1..at : /\ Towards(direction, lay.announced[d], lay.header[d])
                            /\ Towards(direction, lay.header[d], Len(db[d].main))
    BY <1>5, <1>14 DEF Directed
  <2>3. ASSUME NEW d \in 1..at PROVE Towards(direction, new.header[d], new.copied[d])
    <3>1. CASE d = at
      BY <1>6, <2>2, <3>1 DEF size
    <3>2. CASE d # at
      <4>1. d \in 1..(at - 1)
        BY <1>2, <3>2
      <4> QED BY <1>5, <1>6, <1>7, <1>14, <4>1 DEF Directed
    <3> QED BY <3>1, <3>2
  <2> QED BY <1>5, <1>6, <2>1, <2>2, <2>3 DEF Directed
<1> QED BY <1>9, <1>10, <1>11, <1>12, <1>13, <1>14 DEF Extends, Layout
(* What is appended to the file of a database brings no header. *)
LEMMA HeadersStay ==
  ASSUME TInv, stage # "failed", NEW lay \in Layouts, Layout(lay), NEW new \in Layouts,
         new.header = lay.header,
         \A d \in 1..Headed : new.start[d] = lay.start[d],
         NEW x \in Seq(FileUnit), out' = out \o x, UNCHANGED db, Headed' = Headed
  PROVE  HeadersAt(new)'
<1>1. out \in Seq(Unit) /\ Len(out) \in Nat /\ DOMAIN out = 1..Len(out)
  BY DEF TInv, Buffers
<1>2. /\ x \in Seq(Unit) /\ Len(x) \in Nat
      /\ \A i \in 1..Len(x) : x[i] \in FileUnit
  <2>1. FileUnit \subseteq Unit
    BY DEF Unit
  <2>2. x \in Seq(Unit)
    BY <2>1, SeqMonotonic
  <2> QED BY <2>2
<1>3. /\ out' \in Seq(Unit) /\ Len(out') = Len(out) + Len(x) /\ DOMAIN out' = 1..Len(out')
      /\ \A i \in 1..Len(out) : out'[i] = out[i]
      /\ \A i \in 1..Len(x) : out'[Len(out) + i] = x[i]
  <2>0. x \in Seq(Unit)
    BY <1>2
  <2>1. /\ out \o x \in Seq(Unit) /\ Len(out \o x) = Len(out) + Len(x)
        /\ \A i \in 1..Len(out) : (out \o x)[i] = out[i]
        /\ \A i \in 1..Len(x) : (out \o x)[Len(out) + i] = x[i]
    BY <1>1, <2>0, ConcatIs
  <2> QED BY <2>1
<1>4. /\ \A d \in 1..Headed : HeaderAt(lay, d)'
      /\ \A i \in 1..Len(out) : IsHeader(i)' <=> \E d \in 1..Headed : i = lay.start[d]
  BY <1>3, WrittenStays
<1>5. ASSUME NEW i \in 1..Len(out') PROVE IsHeader(i)' <=> \E d \in 1..Headed : i = lay.start[d]
  <2>1. CASE i \in 1..Len(out)
    BY <1>4, <2>1
  <2>2. CASE i \notin 1..Len(out)
    <3>1. i - Len(out) \in 1..Len(x) /\ Len(out) + (i - Len(out)) = i
      BY <1>1, <1>2, <1>3, <2>2
    <3>2. out'[i] \in FileUnit
      BY <1>2, <1>3, <3>1
    <3>3. ~IsHeader(i)'
      BY <3>2 DEF IsHeader, FileUnit
    <3>4. ASSUME NEW d \in 1..Headed PROVE i # lay.start[d]
      <4>1. lay.start[d] \in Nat /\ lay.start[d] >= 1 /\ lay.start[d] + 1 <= Len(out)
        BY HeaderWithin
      <4> QED BY <1>1, <2>2, <4>1
    <3> QED BY <3>3, <3>4
  <2> QED BY <2>1, <2>2
<1>6. \A d \in 1..Headed : HeaderAt(new, d)'
  BY <1>4 DEF HeaderAt
<1>7. \A i \in 1..Len(out') : IsHeader(i)' <=> \E d \in 1..Headed : i = new.start[d]
  BY <1>5
<1>8. Headed' = Headed /\ DOMAIN out' = 1..Len(out')
  BY <1>3
<1> QED BY <1>6, <1>7, <1>8 DEF HeadersAt

(* The two units of a page. *)
LEMMA UnitsOfPages ==
  ASSUME NEW s \in Nat, NEW k \in Nat, NEW l \in Nat, l = s + 1 + 2 * k
  PROVE  /\ s + 2 * (k + 1) = l + 1 /\ s + 2 * (k + 1) + 1 = l + 2
         /\ l + 2 = s + 1 + 2 * (k + 1)
         /\ \A p \in 1..k : s + 2 * p \in 1..l /\ s + 2 * p + 1 \in 1..l
OBVIOUS

(* A page follows the page before it. *)
LEMMA LayWritePage ==
  ASSUME TInv, NEW lay \in Layouts, Layout(lay), WritePage
  PROVE  Extends(lay)
<1> DEFINE data == IF page' <= Len(db[at].main) THEN db[at].main[page'] ELSE Hole
           x == PageUnits(data)
<1>1. /\ stage = "main" /\ stage' = stage /\ page < len /\ page' = page + 1
      /\ out' = out \o x
      /\ UNCHANGED <<db, at, total, len, reading>>
  BY DEF WritePage
<1>2. at \in DOMAIN db /\ at \in Nat \ {0} /\ at <= Len(db) /\ Len(db) \in Nat
      /\ page \in Nat /\ len \in Nat
  BY <1>1, AtIs DEF TInv, Counters
<1>3. /\ data \in Data
      /\ page' \in 1..db[at].size \ FramePages(at) => data = db[at].main[page']
  <2>1. /\ db[at].main \in Seq(Data) /\ DOMAIN db[at].main = 1..Len(db[at].main)
        /\ Len(db[at].main) \in Nat /\ page' \in Nat \ {0}
        /\ 1..db[at].size \subseteq DOMAIN db[at].main \cup FramePages(at)
    BY <1>1, <1>2, DatabaseIs DEF TInv
  <2>2. data \in Data
    BY <2>1 DEF Data
  <2>3. page' \in 1..db[at].size \ FramePages(at) => page' <= Len(db[at].main)
    BY <2>1
  <2> QED BY <2>2, <2>3
<1> HIDE DEF data
<1>4. x \in Seq(FileUnit) /\ Len(x) = 2
      /\ x[1] = [type |-> "page", data |-> data, half |-> 1]
      /\ x[2] = [type |-> "page", data |-> data, half |-> 2]
  BY <1>3 DEF PageUnits, FileUnit
<1> HIDE DEF x
<1>5. out \in Seq(Unit) /\ Len(out) \in Nat
  BY DEF TInv, Buffers
<1>6. /\ Len(out') = Len(out) + 2
      /\ \A i \in 1..Len(out) : out'[i] = out[i]
      /\ out'[Len(out) + 1] = x[1] /\ out'[Len(out) + 2] = x[2]
  <2>1. out \in Seq(Unit) /\ x \in Seq(Unit)
    <3>1. FileUnit \subseteq Unit
      BY DEF Unit
    <3> QED BY <1>4, <1>5, <3>1, SeqMonotonic
  <2>2. /\ Len(out \o x) = Len(out) + Len(x)
        /\ \A i \in 1..Len(out) : (out \o x)[i] = out[i]
        /\ \A i \in 1..Len(x) : (out \o x)[Len(out) + i] = x[i]
    BY <2>1, ConcatIs
  <2> QED BY <1>1, <1>4, <2>2
<1>7. lay.start[at] \in Nat /\ Len(out) = lay.start[at] + 1 + 2 * page
      /\ lay.copied[at] = len /\ PagesAt(lay, at, page)
  BY <1>1, <1>2, LayoutIs DEF Layout, EndsAt, FilesAt
<1>18. /\ lay.start[at] \in Nat /\ page \in Nat /\ Len(out) \in Nat
       /\ Len(out) = lay.start[at] + 1 + 2 * page
  BY <1>2, <1>5, <1>7
<1>8. /\ Finished' = Finished /\ Measured' = Measured /\ Headed' = Headed /\ Announced' = Announced
  BY <1>1 DEF Announced, Headed, Measured, Finished
<1>9. \A d : WalSize(d)' = WalSize(d) /\ FramePages(d)' = FramePages(d)
  BY <1>1 DEF WalSize, WalUnits, FramePages
<1>10. Sized(lay)'
  BY <1>1, SizedStays DEF Layout
<1>11. Placed(lay)'
  BY <1>8, <1>9 DEF Layout, Placed
<1>12. EndsAt(lay)' /\ stage' \notin Reading
  <2>1. Len(out') = lay.start[at] + 1 + 2 * page'
    BY <1>1, <1>6, <1>18, UnitsOfPages
  <2> QED BY <1>1, <2>1 DEF EndsAt, Reading, Loading
<1>13. HeadersAt(lay)'
  BY <1>1, <1>4, <1>8, HeadersStay
<1>14. /\ \A d \in 1..Finished : PagesAt(lay, d, lay.copied[d])' /\ WalAt(lay, d)'
  BY <1>1, <1>6, WrittenStays
<1>15. PagesAt(lay, at, page)'
  <2>1. ASSUME NEW p \in 1..(page + 1)
        PROVE  \E c \in Data :
                 /\ out'[lay.start[at] + 2 * p] = [type |-> "page", data |-> c, half |-> 1]
                 /\ out'[lay.start[at] + 2 * p + 1] = [type |-> "page", data |-> c, half |-> 2]
                 /\ p \in 1..db[at].size \ FramePages(at) => c = db[at].main[p]
    <3>1. CASE p = page + 1
      <4>1. lay.start[at] + 2 * p = Len(out) + 1 /\ lay.start[at] + 2 * p + 1 = Len(out) + 2
        BY <1>18, <3>1, UnitsOfPages
      <4> QED BY <1>1, <1>3, <1>4, <1>6, <3>1, <4>1
    <3>2. CASE p # page + 1
      <4>1. p \in 1..page
        BY <1>2, <3>2
      <4>2. PICK c \in Data :
              /\ out[lay.start[at] + 2 * p] = [type |-> "page", data |-> c, half |-> 1]
              /\ out[lay.start[at] + 2 * p + 1] = [type |-> "page", data |-> c, half |-> 2]
              /\ p \in 1..db[at].size \ FramePages(at) => c = db[at].main[p]
        BY <1>7, <4>1 DEF PagesAt
      <4>3. lay.start[at] + 2 * p \in 1..Len(out) /\ lay.start[at] + 2 * p + 1 \in 1..Len(out)
        BY <1>18, <4>1, UnitsOfPages
      <4> QED BY <1>6, <4>2, <4>3
    <3> QED BY <3>1, <3>2
  <2> QED BY <1>1, <1>9, <2>1 DEF PagesAt
<1>16. FilesAt(lay)'
  <2>1. \A d \in 1..Measured : 1..db[d].size \ FramePages(d) \subseteq 1..lay.copied[d]
    BY DEF Layout, FilesAt
  <2> QED BY <1>1, <1>7, <1>8, <1>9, <1>14, <1>15, <2>1 DEF FilesAt
<1>17. ASSUME NEW direction \in Directions, Directed(direction, lay)
       PROVE  Directed(direction, lay)'
  BY <1>1, <1>8, <1>17 DEF Directed
<1> QED BY <1>10, <1>11, <1>12, <1>13, <1>16, <1>17 DEF Extends, Layout

(* The journal follows the main file and ends the database. *)
LEMMA LayWriteWal ==
  ASSUME TInv, NEW lay \in Layouts, Layout(lay), WriteWal
  PROVE  Extends(lay)
<1> DEFINE wal == WalUnits(at)
           end == lay.start[at] + 2 + 2 * lay.copied[at] + WalSize(at)
<1>1. /\ stage = "main" /\ page = len /\ out' = out \o wal
      /\ IF at = Len(db) THEN stage' = "encoded" /\ at' = 1 ELSE stage' = "database" /\ at' = at + 1
      /\ UNCHANGED <<db, total, len, page, reading>>
  BY DEF WriteWal, IsLast
<1>2. at \in DOMAIN db /\ at \in Nat \ {0} /\ at <= Len(db) /\ Len(db) \in Nat
  BY <1>1, AtIs
<1>3. wal \in Seq(FileUnit) /\ wal \in Seq(Unit) /\ WalSize(at) \in Nat /\ WalSize(at) = Len(wal)
  BY <1>2, MainSizeIs DEF TInv, WalSize
<1>4. /\ lay.start[at] \in Nat /\ lay.copied[at] \in Nat
      /\ Len(out) = lay.start[at] + 1 + 2 * lay.copied[at]
      /\ PagesAt(lay, at, lay.copied[at])
  <2>1. lay.copied[at] = page /\ Len(out) = lay.start[at] + 1 + 2 * page /\ PagesAt(lay, at, page)
    BY <1>1 DEF Layout, EndsAt, FilesAt
  <2> QED BY <1>2, <2>1, LayoutIs
<1>5. out \in Seq(Unit) /\ Len(out) \in Nat
  BY DEF TInv, Buffers
<1> HIDE DEF wal
<1>6. /\ Len(out') = Len(out) + WalSize(at)
      /\ \A i \in 1..Len(out) : out'[i] = out[i]
      /\ \A i \in 1..WalSize(at) : out'[Len(out) + i] = wal[i]
  <2>1. out \in Seq(Unit) /\ wal \in Seq(Unit)
    BY <1>3, <1>5
  <2>2. /\ Len(out \o wal) = Len(out) + Len(wal)
        /\ \A i \in 1..Len(out) : (out \o wal)[i] = out[i]
        /\ \A i \in 1..Len(wal) : (out \o wal)[Len(out) + i] = wal[i]
    BY <2>1, ConcatIs
  <2> QED BY <1>1, <1>3, <2>2
<1>7. /\ Finished = at - 1 /\ Finished' = at /\ Measured = at /\ Measured' = at
      /\ Headed = at /\ Headed' = at /\ Announced = Len(db) /\ Announced' = Len(db)
  BY <1>1, <1>2 DEF Announced, Headed, Measured, Finished
<1>8. end \in Nat /\ end = Len(out') + 1
  <2>1. PICK s \in Nat, c \in Nat, w \in Nat : s = lay.start[at] /\ c = lay.copied[at] /\ w = WalSize(at)
    BY <1>3, <1>4
  <2>2. Len(out) = s + 1 + 2 * c /\ Len(out') = Len(out) + w
    BY <1>4, <1>6, <2>1
  <2>3. Len(out') + 1 = s + 2 + 2 * c + w /\ s + 2 + 2 * c + w \in Nat
    BY <2>2
  <2> QED BY <2>1, <2>3
<1> HIDE DEF end
<1>9. PICK new \in Layouts :
        /\ new.start[at + 1] = end /\ \A d \in Nat \ {at + 1} : new.start[d] = lay.start[d]
        /\ new.announced = lay.announced /\ new.header = lay.header
        /\ new.copied = lay.copied /\ new.sum = lay.sum
  <2>1. PICK k \in Nat, n \in Nat : k = at + 1 /\ n = end
    BY <1>2, <1>8
  <2>2. \E new \in Layouts :
          /\ new.start[k] = n /\ \A d \in Nat \ {k} : new.start[d] = lay.start[d]
          /\ new.announced = lay.announced /\ new.header = lay.header
          /\ new.copied = lay.copied /\ new.sum = lay.sum
    BY NewStart
  <2> QED BY <2>1, <2>2
<1>10. \A d \in 1..at : d \in Nat \ {at + 1} /\ new.start[d] = lay.start[d]
  BY <1>2, <1>9
<1>11. \A d : WalSize(d)' = WalSize(d) /\ WalUnits(d)' = WalUnits(d) /\ FramePages(d)' = FramePages(d)
  BY <1>1 DEF WalSize, WalUnits, FramePages
<1>12. Sized(new)'
  BY <1>1, <1>9, SizedStays DEF Layout
<1>13. Placed(new)'
  <2>1. new.start[1] = 3
    <3>1. 1 \in 1..at
      BY <1>2
    <3> QED BY <1>10, <3>1 DEF Layout, Placed
  <2>2. ASSUME NEW d \in 1..at
        PROVE  new.start[d + 1] = new.start[d] + 2 + 2 * new.copied[d] + WalSize(d)
    <3>1. CASE d = at
      BY <1>9, <1>10, <3>1 DEF end
    <3>2. CASE d # at
      <4>1. d \in 1..(at - 1) /\ d + 1 \in 1..at
        BY <1>2, <3>2
      <4>2. lay.start[d + 1] = lay.start[d] + 2 + 2 * lay.copied[d] + WalSize(d)
        BY <1>7, <4>1 DEF Layout, Placed
      <4> QED BY <1>9, <1>10, <4>1, <4>2
    <3> QED BY <3>1, <3>2
  <2>3. ASSUME NEW d \in 1..at, NEW e \in 1..at, d < e
        PROVE  new.start[d] + 2 + 2 * new.copied[d] + WalSize(d) <= new.start[e]
    <3>1. d \in 1..(Finished + 1) /\ e \in 1..(Finished + 1)
      BY <1>2, <1>7
    <3>2. lay.start[d] + 2 + 2 * lay.copied[d] + WalSize(d) <= lay.start[e]
      BY <2>3, <3>1 DEF Layout, Placed
    <3> QED BY <1>9, <1>10, <3>2
  <2>4. ASSUME NEW d \in 1..at
        PROVE  new.start[d] + 2 + 2 * new.copied[d] + WalSize(d) <= new.start[at + 1]
    <3>1. at + 1 \in Nat /\ at \in 1..at /\ d \in Nat
      BY <1>2
    <3>2. new.start[at + 1] \in Nat /\ new.start[at] \in Nat /\ new.copied[at] \in Nat
      BY <3>1, <1>2, LayoutIs
    <3>3. new.start[at + 1] = new.start[at] + 2 + 2 * new.copied[at] + WalSize(at)
      BY <2>2, <3>1
    <3>4. CASE d = at
      BY <3>2, <3>3, <3>4
    <3>5. CASE d # at
      <4>1. d < at
        BY <1>2, <3>5
      <4>2. new.start[d] + 2 + 2 * new.copied[d] + WalSize(d) <= new.start[at]
        BY <2>3, <3>1, <4>1
      <4>3. new.start[at] <= new.start[at + 1]
        <5>1. PICK w \in Nat : w = WalSize(at)
          BY <1>3
        <5>2. PICK s \in Nat, c \in Nat : s = new.start[at] /\ c = new.copied[at]
          BY <3>2
        <5>3. new.start[at + 1] = s + 2 + 2 * c + w
          BY <3>3, <5>1, <5>2
        <5> QED BY ONLY <5>2, <5>3, s \in Nat, c \in Nat, w \in Nat
      <4>4. new.start[d] + 2 + 2 * new.copied[d] + WalSize(d) \in Nat
        <5>1. new.start[d] \in Nat /\ new.copied[d] \in Nat /\ d \in DOMAIN db
          BY <1>2, <3>1, LayoutIs, CountsAre, <1>1
        <5>2. WalSize(d) \in Nat
          BY <5>1, MainSizeIs DEF TInv
        <5> QED BY <5>1, <5>2
      <4> QED BY <3>2, <4>2, <4>3, <4>4
    <3> QED BY <3>4, <3>5
  <2>5. ASSUME NEW d \in 1..(at + 1), NEW e \in 1..(at + 1), d < e
        PROVE  new.start[d] + 2 + 2 * new.copied[d] + WalSize(d) <= new.start[e]
    <3>1. d \in 1..at /\ (e \in 1..at \/ e = at + 1)
      BY <1>2, <2>5
    <3> QED BY <2>3, <2>4, <2>5, <3>1
  <2> QED BY <1>7, <1>11, <2>1, <2>2, <2>5 DEF Placed
<1>14. EndsAt(new)' /\ stage' \notin Reading
  <2>1. Len(out') = new.start[at + 1] - 1
    BY <1>5, <1>6, <1>8, <1>9, <1>3
  <2>2. CASE at = Len(db)
    BY <1>1, <2>1, <2>2 DEF EndsAt, Reading, Loading
  <2>3. CASE at # Len(db)
    BY <1>1, <2>1, <2>3 DEF EndsAt, Reading, Loading
  <2> QED BY <2>2, <2>3
<1>15. HeadersAt(new)'
  BY <1>1, <1>3, <1>7, <1>9, <1>10, HeadersStay
<1>16. FilesAt(new)'
  <2>1. \A d \in 1..at : 1..db'[d].size \ FramePages(d)' \subseteq 1..new.copied[d]
    BY <1>1, <1>7, <1>9, <1>11 DEF Layout, FilesAt
  <2>2. ASSUME NEW d \in 1..(at - 1) PROVE PagesAt(new, d, new.copied[d])' /\ WalAt(new, d)'
    <3>1. PagesAt(lay, d, lay.copied[d])' /\ WalAt(lay, d)'
      BY <1>1, <1>6, <1>7, WrittenStays
    <3>2. new.start[d] = lay.start[d] /\ new.copied[d] = lay.copied[d]
      <4>1. d \in 1..at
        BY <1>2
      <4> QED BY <1>9, <1>10, <4>1
    <3> QED BY <3>1, <3>2, SameFile
  <2>3. PICK e \in DOMAIN db : e = at /\ e \in 1..at
    BY <1>2
  <2>4. PICK s \in Nat, c \in Nat, w \in Nat : s = lay.start[e] /\ c = lay.copied[e] /\ w = WalSize(e)
    BY <1>3, <1>4, <2>3
  <2>5. Len(out) = s + 1 + 2 * c
    BY <1>4, <2>3, <2>4
  <2>6. PagesAt(lay, e, lay.copied[e])'
    <3>1. ASSUME NEW p \in 1..c
          PROVE  \E data \in Data :
                   /\ out'[s + 2 * p] = [type |-> "page", data |-> data, half |-> 1]
                   /\ out'[s + 2 * p + 1] = [type |-> "page", data |-> data, half |-> 2]
                   /\ p \in 1..db[e].size \ FramePages(e) => data = db[e].main[p]
      <4>1. PICK data \in Data :
              /\ out[s + 2 * p] = [type |-> "page", data |-> data, half |-> 1]
              /\ out[s + 2 * p + 1] = [type |-> "page", data |-> data, half |-> 2]
              /\ p \in 1..db[e].size \ FramePages(e) => data = db[e].main[p]
        BY <1>4, <2>3, <2>4 DEF PagesAt
      <4>2. s + 2 * p \in 1..Len(out) /\ s + 2 * p + 1 \in 1..Len(out)
        BY <2>5
      <4> QED BY <1>6, <4>1, <4>2
    <3> QED BY <1>1, <1>11, <2>4, <3>1 DEF PagesAt
  <2>7. WalAt(lay, e)'
    <3>1. \A i \in 1..w : out'[s + 1 + 2 * c + i] = WalUnits(e)[i]
      BY <1>6, <2>3, <2>4, <2>5 DEF wal
    <3> QED BY <1>11, <2>4, <3>1 DEF WalAt
  <2>8. PagesAt(new, e, new.copied[e])' /\ WalAt(new, e)'
    <3>1. new.start[e] = lay.start[e] /\ new.copied[e] = lay.copied[e]
      BY <1>9, <1>10, <2>3
    <3> QED BY <2>6, <2>7, <3>1, SameFile
  <2>9. \A d \in 1..at : d \in 1..(at - 1) \/ d = e
    BY <1>2, <2>3
  <2>10. \A d \in 1..at : PagesAt(new, d, new.copied[d])' /\ WalAt(new, d)'
    BY <2>2, <2>8, <2>9
  <2>11. stage' # "main"
    BY <1>1
  <2> QED BY <1>7, <2>1, <2>10, <2>11 DEF FilesAt
<1>17. ASSUME NEW direction \in Directions, Directed(direction, lay)
       PROVE  Directed(direction, new)'
  BY <1>1, <1>7, <1>9, <1>17 DEF Directed
<1> QED BY <1>12, <1>13, <1>14, <1>15, <1>16, <1>17 DEF Extends, Layout

(* Nothing is written any more. *)
LEMMA LayoutStays ==
  ASSUME TInv, NEW lay \in Layouts, Layout(lay),
         stage \in {"encoded"} \cup Reading, stage' \in Reading,
         UNCHANGED <<db, writing>>, stage = "encoded" => Len(out) = total
  PROVE  Layout(lay)' /\ \A direction \in Directions : Directed(direction, lay) => Directed(direction, lay)'
<1> USE DEF Reading, Loading
<1>1. /\ Announced' = Announced /\ Headed' = Headed /\ Measured' = Measured /\ Finished' = Finished
  BY DEF Announced, Headed, Measured, Finished
<1>2. \A d : WalSize(d)' = WalSize(d) /\ WalUnits(d)' = WalUnits(d) /\ FramePages(d)' = FramePages(d)
  BY DEF WalSize, WalUnits, FramePages
<1>3. UNCHANGED <<total, out>>
  BY DEF writing
<1>4. Sized(lay)' /\ Placed(lay)'
  BY <1>1, <1>2, <1>3 DEF Layout, Sized, Placed
<1>5. EndsAt(lay)'
  BY <1>3 DEF Layout, EndsAt
<1>6. HeadersAt(lay)'
  BY <1>1, <1>2, <1>3 DEF Layout, HeadersAt, HeaderAt, IsHeader
<1>7. FilesAt(lay)'
  <2>1. \A d \in 1..Measured : 1..db[d].size \ FramePages(d) \subseteq 1..lay.copied[d]
    BY DEF Layout, FilesAt
  <2>2. \A d \in 1..Finished : PagesAt(lay, d, lay.copied[d])' /\ WalAt(lay, d)'
    BY <1>3, WrittenStays
  <2> QED BY <1>1, <1>2, <2>1, <2>2 DEF FilesAt
<1>8. Len(out') = total'
  BY <1>3 DEF Layout
<1>9. ASSUME NEW direction \in Directions, Directed(direction, lay) PROVE Directed(direction, lay)'
  BY <1>1, <1>9 DEF Directed
<1> QED BY <1>4, <1>5, <1>6, <1>7, <1>8, <1>9 DEF Layout

-----------------------------------------------------------------------------
(* The headers and the announced size. *)

(* Of two running sums, where every term of the first is at most the term of the
   second, the totals are equal only if all terms are. *)
Sums(n, x, y, a, c) ==
  /\ n \in Nat /\ x \in [Nat -> Int] /\ y \in [Nat -> Int]
  /\ a \in [Nat -> Int] /\ c \in [Nat -> Int]
  /\ x[1] = y[1] /\ x[n + 1] = y[n + 1]
  /\ \A d \in 1..n : /\ x[d + 1] = x[d] + a[d] /\ y[d + 1] = y[d] + c[d]
                     /\ a[d] <= c[d]

(* Running sums of terms of which each is at least the other's: they agree at the
   end only if all terms do. *)
LEMMA SumsAgree ==
  ASSUME NEW n, NEW x, NEW y, NEW a, NEW c, Sums(n, x, y, a, c)
  PROVE  \A d \in 1..n : a[d] = c[d]
<1> n \in Nat /\ x \in [Nat -> Int] /\ y \in [Nat -> Int] /\ a \in [Nat -> Int] /\ c \in [Nat -> Int]
  BY DEF Sums
<1>0. /\ x[1] = y[1] /\ x[n + 1] = y[n + 1]
      /\ \A d \in 1..n : /\ x[d + 1] = x[d] + a[d] /\ y[d + 1] = y[d] + c[d]
                         /\ a[d] <= c[d]
  BY DEF Sums
<1>1. ASSUME NEW d \in 1..(n + 1) PROVE x[d] <= y[d]
  <2> DEFINE Bad == {e \in 1..(n + 1) : ~(x[e] <= y[e])}
  <2>1. SUFFICES ASSUME Bad # {} PROVE FALSE
    OBVIOUS
  <2>2. PICK e \in Bad : \A b \in Bad : e <= b
    <3>1. Bad \subseteq Nat
      OBVIOUS
    <3> HIDE DEF Bad
    <3> QED BY <2>1, <3>1, LeastNumber
  <2>3. e \in 1..(n + 1) /\ ~(x[e] <= y[e]) /\ e \in Nat /\ x[1] \in Int
    OBVIOUS
  <2>4. e # 1
    BY <1>0, <2>3
  <2>5. e - 1 \in 1..n /\ e - 1 \in 1..(n + 1) /\ (e - 1) + 1 = e /\ ~(e <= e - 1)
    BY <2>3, <2>4
  <2>6. PICK p \in 1..n : p = e - 1 /\ p + 1 = e /\ p \notin Bad /\ p \in 1..(n + 1)
    BY <2>2, <2>5
  <2>7. x[p] <= y[p]
    BY <2>6
  <2>8. /\ x[e] = x[p] + a[p] /\ y[e] = y[p] + c[p] /\ a[p] <= c[p]
        /\ x[p] \in Int /\ y[p] \in Int /\ a[p] \in Int /\ c[p] \in Int
    BY <1>0, <2>6
  <2> QED BY <2>3, <2>7, <2>8
<1>2. ASSUME NEW d \in 1..n, a[d] # c[d] PROVE FALSE
  <2> DEFINE Bad == {e \in (d + 1)..(n + 1) : ~(x[e] < y[e])}
  <2>1. n + 1 \in Bad
    <3>1. x[n + 1] \in Int /\ n + 1 \in (d + 1)..(n + 1)
      OBVIOUS
    <3> QED BY <1>0, <3>1
  <2>2. PICK e \in Bad : \A b \in Bad : e <= b
    <3>1. Bad \subseteq Nat /\ Bad # {}
      BY <2>1
    <3> HIDE DEF Bad
    <3> QED BY <3>1, LeastNumber
  <2>3. e \in (d + 1)..(n + 1) /\ ~(x[e] < y[e]) /\ e \in Nat
    OBVIOUS
  <2>4. PICK p \in 1..n : p = e - 1 /\ p + 1 = e /\ p \in 1..(n + 1) /\ p \in d..n /\ p \notin Bad
    <3>1. e - 1 \in 1..n /\ (e - 1) + 1 = e /\ e - 1 \in 1..(n + 1) /\ e - 1 \in d..n /\ ~(e <= e - 1)
      BY <2>3
    <3> QED BY <2>2, <3>1
  <2>5. /\ x[e] = x[p] + a[p] /\ y[e] = y[p] + c[p] /\ a[p] <= c[p]
        /\ x[p] \in Int /\ y[p] \in Int /\ a[p] \in Int /\ c[p] \in Int
        /\ x[p] <= y[p]
    BY <1>0, <1>1, <2>4
  <2>6. CASE p = d
    BY <1>2, <2>3, <2>5, <2>6
  <2>7. CASE p # d
    <3>1. p \in (d + 1)..(n + 1)
      BY <2>4, <2>7
    <3>2. x[p] < y[p]
      BY <2>4, <3>1
    <3> QED BY <2>3, <2>5, <3>2
  <2> QED BY <2>6, <2>7
<1> QED BY <1>2

(* What a layout says of a file that is complete. *)
LEMMA CompleteIs ==
  ASSUME TInv, stage \in Reading, NEW lay \in Layouts, Layout(lay)
  PROVE  /\ Len(db) \in Nat /\ DOMAIN db = 1..Len(db)
         /\ Announced = Len(db) /\ Headed = Len(db) /\ Measured = Len(db) /\ Finished = Len(db)
         /\ total = lay.sum[Len(db) + 1] /\ Len(out) = total
         /\ Len(out) = lay.start[Len(db) + 1] - 1
         /\ out \in Seq(Unit) /\ Len(out) \in Nat /\ DOMAIN out = 1..Len(out)
<1>1. Len(db) \in Nat /\ DOMAIN db = 1..Len(db)
  BY DEF TInv, Files
<1>2. Announced = Len(db) /\ Headed = Len(db) /\ Measured = Len(db) /\ Finished = Len(db)
  BY DEF Reading, Loading, Announced, Headed, Measured, Finished
<1>3. total = lay.sum[Len(db) + 1] /\ Len(out) = total
  BY <1>2 DEF Layout, Sized
<1>4. Len(out) = lay.start[Len(db) + 1] - 1
  BY DEF Layout, EndsAt, Reading, Loading
<1>5. out \in Seq(Unit)
  BY DEF TInv, Buffers
<1> QED BY <1>1, <1>2, <1>3, <1>4, <1>5

(* If every file went the same way, the announced size is only met by files that
   are as long as their headers say. *)
LEMMA DirectedIsExact ==
  ASSUME TInv, stage \in Reading, NEW lay \in Layouts, Layout(lay),
         NEW direction \in Directions, Directed(direction, lay)
  PROVE  Exact(lay)
<1> DEFINE n == Len(db)
           x == [d \in Nat |-> lay.sum[d]]
           y == [d \in Nat |-> lay.start[d] - 1]
           a == [d \in Nat |-> IF d \in 1..n THEN 2 + 2 * lay.announced[d] + WalSize(d) ELSE 0]
           c == [d \in Nat |-> IF d \in 1..n THEN 2 + 2 * lay.copied[d] + WalSize(d) ELSE 0]
<1>1. /\ n \in Nat /\ DOMAIN db = 1..n
      /\ Announced = n /\ Headed = n /\ Measured = n /\ Finished = n
      /\ lay.sum[n + 1] = lay.start[n + 1] - 1
  BY CompleteIs
<1>2. \A d \in 1..n : WalSize(d) \in Nat
  BY <1>1, MainSizeIs DEF TInv
<1> HIDE DEF n
<1>3. x \in [Nat -> Int] /\ y \in [Nat -> Int]
  BY LayoutIs
<1>4. a \in [Nat -> Int] /\ c \in [Nat -> Int]
  <2>1. ASSUME NEW d \in 1..n
        PROVE  2 + 2 * lay.announced[d] + WalSize(d) \in Int /\ 2 + 2 * lay.copied[d] + WalSize(d) \in Int
    <3>1. lay.announced[d] \in Nat /\ lay.copied[d] \in Nat /\ WalSize(d) \in Nat
      BY <1>1, <1>2, LayoutIs
    <3> QED BY <3>1
  <2> QED BY <2>1
<1>5. x[1] = y[1] /\ x[n + 1] = y[n + 1]
  <2>1. lay.sum[1] = 2 /\ lay.start[1] = 3
    BY DEF Layout, Sized, Placed
  <2>2. 1 \in Nat /\ n + 1 \in Nat
    BY <1>1
  <2> QED BY <1>1, <2>1, <2>2
<1>6. ASSUME NEW d \in 1..n
      PROVE  /\ x[d + 1] = x[d] + a[d] /\ y[d + 1] = y[d] + c[d]
             /\ a[d] = 2 + 2 * lay.announced[d] + WalSize(d)
             /\ c[d] = 2 + 2 * lay.copied[d] + WalSize(d)
             /\ lay.announced[d] \in Nat /\ lay.header[d] \in Nat /\ lay.copied[d] \in Nat
             /\ WalSize(d) \in Nat
             /\ Towards(direction, lay.announced[d], lay.header[d])
             /\ Towards(direction, lay.header[d], lay.copied[d])
  <2>1. d \in Nat /\ d + 1 \in Nat
    BY <1>1
  <2>2. /\ lay.announced[d] \in Nat /\ lay.header[d] \in Nat /\ lay.copied[d] \in Nat
        /\ WalSize(d) \in Nat /\ lay.start[d] \in Nat /\ lay.sum[d] \in Nat
    BY <1>2, <2>1, LayoutIs
  <2>3. lay.sum[d + 1] = lay.sum[d] + 2 + 2 * lay.announced[d] + WalSize(d)
    BY <1>1 DEF Layout, Sized
  <2>4. lay.start[d + 1] = lay.start[d] + 2 + 2 * lay.copied[d] + WalSize(d)
    BY <1>1 DEF Layout, Placed
  <2>5. /\ Towards(direction, lay.announced[d], lay.header[d])
        /\ Towards(direction, lay.header[d], lay.copied[d])
    BY <1>1 DEF Directed
  <2>6. x[d + 1] = lay.sum[d + 1] /\ x[d] = lay.sum[d] /\ y[d + 1] = lay.start[d + 1] - 1
        /\ y[d] = lay.start[d] - 1
        /\ a[d] = 2 + 2 * lay.announced[d] + WalSize(d)
        /\ c[d] = 2 + 2 * lay.copied[d] + WalSize(d)
    BY <2>1
  <2>7. x[d + 1] = x[d] + a[d] /\ y[d + 1] = y[d] + c[d]
    BY <2>2, <2>3, <2>4, <2>6
  <2> QED BY <2>2, <2>5, <2>6, <2>7
<1> HIDE DEF x, y, a, c
<1>7. \A d \in 1..n : a[d] = c[d]
  <2>1. CASE direction = "longer"
    <3>1. \A d \in 1..n : x[d + 1] = x[d] + a[d] /\ y[d + 1] = y[d] + c[d] /\ a[d] <= c[d]
      BY <1>6, <2>1 DEF Towards
    <3>2. Sums(n, x, y, a, c)
      BY <1>1, <1>3, <1>4, <1>5, <3>1 DEF Sums
    <3> QED BY <3>2, SumsAgree
  <2>2. CASE direction = "shorter"
    <3>1. \A d \in 1..n : y[d + 1] = y[d] + c[d] /\ x[d + 1] = x[d] + a[d] /\ c[d] <= a[d]
      BY <1>6, <2>2 DEF Towards
    <3>2. Sums(n, y, x, c, a)
      BY <1>1, <1>3, <1>4, <1>5, <3>1 DEF Sums
    <3>3. \A d \in 1..n : c[d] = a[d]
      BY <3>2, SumsAgree
    <3> QED BY <3>3
  <2> QED BY <2>1, <2>2 DEF Directions
<1>8. ASSUME NEW d \in 1..n PROVE lay.header[d] = lay.copied[d]
  <2>1. lay.announced[d] = lay.copied[d]
    BY <1>6, <1>7
  <2> QED BY <1>6, <2>1 DEF Towards
<1> QED BY <1>1, <1>8 DEF Exact

(* In a file that is complete the headers are right exactly where they announce
   what was copied. *)
LEMMA SizesMatchIs ==
  ASSUME TInv, stage \in Reading, NEW lay \in Layouts, Layout(lay)
  PROVE  SizesMatch <=> Exact(lay)
<1> DEFINE n == Len(db)
           headers == {k \in DOMAIN out : out[k].type = "database" /\ out[k].half = 1}
           After(k) == {j \in headers : j > k} \cup {Len(out) + 1}
<1>1. /\ n \in Nat /\ DOMAIN db = 1..n /\ Headed = n /\ Finished = n
      /\ Len(out) = lay.start[n + 1] - 1 /\ Len(out) \in Nat /\ DOMAIN out = 1..Len(out)
  BY CompleteIs
<1> HIDE DEF n
<1>2. headers = {lay.start[d] : d \in 1..n}
  <2>1. \A i \in DOMAIN out : IsHeader(i) <=> \E d \in 1..n : i = lay.start[d]
    BY <1>1 DEF Layout, HeadersAt
  <2>2. \A d \in 1..n : lay.start[d] \in DOMAIN out
    <3>1. ASSUME NEW d \in 1..n PROVE lay.start[d] \in DOMAIN out
      <4>1. stage # "failed" /\ d \in 1..Headed
        BY <1>1 DEF Reading, Loading
      <4>2. lay.start[d] \in Nat /\ lay.start[d] >= 1 /\ lay.start[d] + 1 <= Len(out)
        BY <4>1, HeaderWithin
      <4> QED BY <1>1, <4>2
    <3> QED BY <3>1
  <2> QED BY <2>1, <2>2 DEF IsHeader
<1>3. ASSUME NEW d \in 1..n, NEW e \in 1..(n + 1), d < e
      PROVE  lay.start[d] + 2 + 2 * lay.copied[d] + WalSize(d) <= lay.start[e]
  BY <1>1, <1>3 DEF Layout, Placed
<1>4. ASSUME NEW d \in 1..n
      PROVE  /\ lay.start[d] \in headers
             /\ Min(After(lay.start[d])) - lay.start[d] - 2 = 2 * lay.copied[d] + WalSize(d)
             /\ out[lay.start[d]].main_size = 2 * lay.header[d]
             /\ out[lay.start[d]].wal_size = WalSize(d)
             /\ lay.header[d] \in Nat /\ lay.copied[d] \in Nat /\ WalSize(d) \in Nat
  <2>1. /\ lay.header[d] \in Nat /\ lay.copied[d] \in Nat /\ lay.start[d] \in Nat
        /\ lay.start[d + 1] \in Nat
    BY <1>1, LayoutIs
  <2>2. WalSize(d) \in Nat
    BY <1>1, MainSizeIs DEF TInv
  <2>3. lay.start[d + 1] = lay.start[d] + 2 + 2 * lay.copied[d] + WalSize(d)
    BY <1>1 DEF Layout, Placed
  <2>4. PICK s \in Nat, next \in Nat, c \in Nat, w \in Nat :
          /\ s = lay.start[d] /\ next = lay.start[d + 1] /\ c = lay.copied[d] /\ w = WalSize(d)
          /\ next = s + 2 + 2 * c + w
    BY <2>1, <2>2, <2>3
  <2>5. Min(After(s)) = next
    <3>1. After(s) \subseteq Nat
      BY <1>1
    <3>2. next \in After(s)
      <4>1. CASE d = n
        <5>1. Len(out) = next - 1 /\ Len(out) \in Nat
          BY <1>1, <2>4, <4>1
        <5>2. next = Len(out) + 1
          BY <5>1
        <5> QED BY <5>2
      <4>2. CASE d # n
        <5>1. d + 1 \in 1..n
          BY <1>1, <4>2
        <5>2. next \in headers
          BY <1>2, <2>4, <5>1
        <5>3. next > s
          BY <2>4
        <5> QED BY <5>2, <5>3
      <4> QED BY <4>1, <4>2
    <3>3. ASSUME NEW k \in After(s) PROVE next <= k
      <4>1. CASE k = Len(out) + 1
        <5>1. n + 1 \in 1..(n + 1) /\ d < n + 1 /\ n + 1 \in Nat
          BY <1>1
        <5>2. lay.start[d] + 2 + 2 * lay.copied[d] + WalSize(d) <= lay.start[n + 1]
          BY <1>3, <5>1
        <5>3. lay.start[n + 1] \in Nat
          BY <5>1, LayoutIs
        <5> QED BY <1>1, <2>4, <4>1, <5>2, <5>3
      <4>2. CASE k \in headers /\ k > s
        <5>1. PICK e \in 1..n : k = lay.start[e]
          BY <1>2, <4>2
        <5>2. e \in Nat /\ d \in Nat /\ k \in Nat
          BY <1>1, <5>1, LayoutIs
        <5>3. e # d
          BY <2>4, <4>2, <5>1
        <5>4. ~(e < d)
          <6>1. SUFFICES ASSUME e < d PROVE FALSE
            OBVIOUS
          <6>2. lay.start[e] + 2 + 2 * lay.copied[e] + WalSize(e) <= lay.start[d]
            <7>1. d \in 1..(n + 1)
              BY <1>1
            <7> QED BY <1>3, <6>1, <7>1
          <6>3. lay.copied[e] \in Nat /\ WalSize(e) \in Nat
            BY <1>1, <5>2, LayoutIs, MainSizeIs DEF TInv
          <6>4. PICK m \in Nat, v \in Nat : m = lay.copied[e] /\ v = WalSize(e)
            BY <6>3
          <6>5. k + 2 + 2 * m + v <= s /\ k > s /\ k \in Nat
            BY <2>4, <4>2, <5>1, <5>2, <6>2, <6>4
          <6> QED BY <6>5
        <5>5. d < e /\ e \in 1..(n + 1)
          BY <1>1, <5>2, <5>3, <5>4
        <5> QED BY <1>3, <2>4, <5>1, <5>5
      <4> QED BY <4>1, <4>2
    <3> HIDE DEF After
    <3> QED BY <3>1, <3>2, <3>3, MinIs
  <2>6. HeaderAt(lay, d)
    BY <1>1 DEF Layout, HeadersAt
  <2>7. out[s] = [type |-> "database", main_size |-> 2 * lay.header[d],
                  wal_size |-> WalSize(d), half |-> 1]
    <3>1. s + 1 - 1 = s
      OBVIOUS
    <3> QED BY <2>4, <2>6, <3>1 DEF HeaderAt
  <2>8. next - s - 2 = 2 * c + w
    BY <2>4
  <2> HIDE DEF headers, After
  <2>9. s \in headers
    BY <1>2, <2>4
  <2> QED BY <2>1, <2>2, <2>4, <2>5, <2>7, <2>8, <2>9
<1>5. SizesMatch <=> \A k \in headers : Min(After(k)) - k - 2 = out[k].main_size + out[k].wal_size
  BY DEF SizesMatch
<1> HIDE DEF headers, After
<1>6. ASSUME NEW d \in 1..n
      PROVE  (Min(After(lay.start[d])) - lay.start[d] - 2
                = out[lay.start[d]].main_size + out[lay.start[d]].wal_size)
               <=> lay.header[d] = lay.copied[d]
  BY <1>4
<1> QED BY <1>1, <1>2, <1>5, <1>6 DEF Exact

-----------------------------------------------------------------------------
(* The reader. *)

(* What was loaded stays so while neither rows nor files change. *)
LEMMA RowsStay ==
  ASSUME NEW lay, NEW d, NEW f, UNCHANGED <<db, out>>, loaded'[d] = loaded[d],
         FramesLoaded(lay, d, f)
  PROVE  FramesLoaded(lay, d, f)'
BY DEF FramesLoaded, DataAt

(* A database that is read lies inside the file. *)
LEMMA PlaceIs ==
  ASSUME TInv, stage \in Reading, NEW lay \in Layouts, Layout(lay), NEW d \in DOMAIN db
  PROVE  /\ lay.start[d] \in Nat /\ lay.copied[d] \in Nat /\ WalSize(d) \in Nat
         /\ lay.start[d + 1] \in Nat /\ lay.start[d] >= 3
         /\ lay.start[d + 1] = lay.start[d] + 2 + 2 * lay.copied[d] + WalSize(d)
         /\ lay.start[d + 1] - 1 <= Len(out)
         /\ HeaderAt(lay, d) /\ PagesAt(lay, d, lay.copied[d]) /\ WalAt(lay, d)
<1>1. /\ Len(db) \in Nat /\ DOMAIN db = 1..Len(db) /\ Headed = Len(db) /\ Finished = Len(db)
      /\ Len(out) \in Nat
  BY CompleteIs
<1>2. stage # "failed" /\ d \in 1..Finished /\ d \in 1..Headed /\ d \in Nat /\ d + 1 \in Nat
  BY <1>1 DEF Reading, Loading
<1>3. /\ lay.start[d] \in Nat /\ lay.copied[d] \in Nat /\ WalSize(d) \in Nat /\ lay.start[d] >= 3
      /\ lay.start[d] + 1 + 2 * lay.copied[d] + WalSize(d) <= Len(out)
  BY <1>2, Within
<1>4. lay.start[d + 1] = lay.start[d] + 2 + 2 * lay.copied[d] + WalSize(d)
  BY <1>2 DEF Layout, Placed
<1>5. lay.start[d + 1] \in Nat
  BY <1>2, LayoutIs
<1>6. HeaderAt(lay, d) /\ PagesAt(lay, d, lay.copied[d]) /\ WalAt(lay, d)
  BY <1>2 DEF Layout, HeadersAt, FilesAt
<1>7. \A s, c, w, l, e \in Nat :
        s + 1 + 2 * c + w <= l /\ e = s + 2 + 2 * c + w => e - 1 <= l
  OBVIOUS
<1> QED BY <1>1, <1>3, <1>4, <1>5, <1>6, <1>7

(* At the end of its input the loader has taken what it was to take: the file
   does not end before. *)
LEMMA EndIs ==
  ASSUME TInv, AtEnd, NEW n \in Nat, n <= Len(out), Limited(n)
  PROVE  Taken = n /\ limit = 0 /\ Len(lbuf) = 0
<1>1. lbuf = <<>> /\ Len(lbuf) = 0
  BY DEF AtEnd
<1>2. /\ limit \in Nat /\ Taken \in Nat /\ Len(out) \in Nat /\ pos \in Nat /\ Len(buf) \in Nat
      /\ Taken = pos - Len(buf) - Len(lbuf)
  BY DEF TInv, Counters, Buffers, Taken
<1>3. Taken + Len(lbuf) + limit = n
  BY DEF Limited
<1>4. CASE limit = 0
  BY <1>1, <1>2, <1>3, <1>4
<1>5. CASE buf = <<>> /\ pos = Len(out)
  <2>1. Len(buf) = 0
    BY <1>5
  <2> QED BY <1>1, <1>2, <1>3, <1>5, <2>1
<1> QED BY <1>4, <1>5 DEF AtEnd

(* A fill adds to what the loader has what it takes from the limit. *)
LEMMA FillAdds ==
  ASSUME TInv, NEW n, Fill(n)
  PROVE  Len(lbuf') = Len(lbuf) + n
<1>1. /\ lbuf \in Seq(Unit) /\ buf \in Seq(Unit) /\ Len(lbuf) \in Nat /\ Len(buf) \in Nat
      /\ limit \in Nat /\ Len(out) - pos \in Nat /\ Buffers
  BY DEF TInv, Buffers, Counters
<1>2. CASE buf # <<>>
  <2>1. n \in Sizes(limit, Len(buf)) /\ lbuf' = lbuf \o SubSeq(buf, 1, n)
    BY <1>2 DEF Fill
  <2>2. n \in Nat \ {0} /\ n <= Len(buf)
    BY <1>1, <2>1, SizesAre
  <2>3. SubSeq(buf, 1, n) \in Seq(Unit) /\ Len(SubSeq(buf, 1, n)) = n
    BY <1>1, <2>2
  <2> QED BY <1>1, <2>1, <2>3
<1>3. CASE buf = <<>>
  <2>1. n \in Sizes(limit, Len(out) - pos) /\ lbuf' = lbuf \o NextUnits(n)
    BY <1>3 DEF Fill
  <2>2. n \in Nat \ {0} /\ n <= Len(out) - pos
    BY <1>1, <2>1, SizesAre
  <2>3. NextUnits(n) \in Seq(Unit) /\ Len(NextUnits(n)) = n
    BY <1>1, <2>2, NextUnitsAre
  <2>4. lbuf \in Seq(Unit) /\ NextUnits(n) \in Seq(Unit)
    BY <1>1, <2>3
  <2>5. Len(lbuf \o NextUnits(n)) = Len(lbuf) + Len(NextUnits(n))
    BY <2>4, ConcatIs
  <2> QED BY <2>1, <2>3, <2>5
<1> QED BY <1>2, <1>3

(* A read of any length leaves the reader where it was. *)
LEMMA ReadFills ==
  ASSUME TInv, NEW lay \in Layouts, Read(lay), stage \in Reading, NEW n, Refill(n) \/ Fill(n)
  PROVE  Read(lay)'
<1>1. /\ UNCHANGED <<db, stage, at, writing, n_databases, wal_size, loaded>>
      /\ n \in Nat
      /\ Grow(n) \/ Pass(n)
      /\ stage \in Loading => limit' = limit - n /\ Len(lbuf') = Len(lbuf) + n
  BY RefillIs, FillIs, FillAdds DEF Loading
<1>2. Taken' = Taken
  <2>1. Buffers /\ n \in Nat
    BY <1>1 DEF TInv
  <2>2. CASE Grow(n)
    BY <2>1, <2>2, BuffersGrow
  <2>3. CASE Pass(n)
    BY <2>1, <2>3, BuffersPass
  <2> QED BY <1>1, <2>2, <2>3
<1>3. /\ UNCHANGED out /\ Len(lbuf) \in Nat /\ limit \in Nat /\ Taken \in Nat
  BY <1>1 DEF writing, TInv, Buffers, Counters
<1>4. ASSUME stage \in Loading, NEW m, Limited(m) PROVE Limited(m)'
  <2>1. PICK t \in Nat, l \in Nat, k \in Nat : t = Taken /\ l = Len(lbuf) /\ k = limit
    BY <1>3
  <2>2. Taken' = t /\ Len(lbuf') = l + n /\ limit' = k - n /\ t + l + k = m /\ n \in Nat
    BY <1>1, <1>2, <1>4, <2>1 DEF Limited
  <2>3. t + (l + n) + (k - n) = t + l + k
    BY <2>2
  <2> QED BY <2>2, <2>3 DEF Limited
<1>5. \A d : WalSize(d)' = WalSize(d)
  BY <1>1 DEF WalSize, WalUnits
<1>6. \A d, f : FramesLoaded(lay, d, f) => FramesLoaded(lay, d, f)'
  BY <1>1, <1>3, RowsStay
<1>7. \A d, k : MainLoaded(lay, d, k) => MainLoaded(lay, d, k)'
  BY <1>1, <1>3 DEF MainLoaded, DataAt
<1>8. Cursor(lay)'
  <2>1. CASE stage = "read_main"
    <3>1. PICK k \in 0..lay.copied[at] :
            /\ Taken = lay.start[at] + 1 + 2 * k
            /\ Limited(lay.start[at] + 1 + 2 * lay.copied[at])
            /\ wal_size = WalSize(at)
            /\ MainLoaded(lay, at, k)
      BY <2>1 DEF Read, Cursor
    <3>2. Limited(lay.start[at] + 1 + 2 * lay.copied[at])' /\ MainLoaded(lay, at, k)'
      <4>1. MainLoaded(lay, at, k)'
        <5>1. at' = at /\ MainLoaded(lay, at, k)
          BY <1>1, <3>1
        <5>2. DOMAIN loaded'[at] = 1..k /\ \A p \in 1..k : loaded'[at][p] = DataAt(lay, at, p)'
          BY ONLY <1>7, <5>1 DEF MainLoaded
        <5> QED BY ONLY <5>1, <5>2 DEF MainLoaded
      <4> QED BY <1>1, <1>4, <2>1, <3>1, <4>1 DEF Loading, Limited
    <3> QED BY <1>1, <1>2, <1>5, <2>1, <3>1, <3>2 DEF Cursor
  <2>2. CASE stage = "read_wal"
    <3>1. /\ Taken = lay.start[at] + 1 + 2 * lay.copied[at] /\ Limited(lay.start[at + 1] - 1)
          /\ FramesLoaded(lay, at, 0)
      BY <2>2 DEF Read, Cursor
    <3>2. PICK e, m : e = at /\ m = lay.start[at + 1] - 1
      OBVIOUS
    <3>3. Limited(m)' /\ FramesLoaded(lay, e, 0)'
      BY <1>4, <1>6, <2>2, <3>1, <3>2 DEF Loading
    <3>4. Limited(lay.start[at + 1] - 1)' /\ FramesLoaded(lay, at, 0)'
      BY <1>1, <3>2, <3>3
    <3> QED BY <1>1, <1>2, <2>2, <3>1, <3>4 DEF Cursor
  <2>3. CASE stage = "read_frame"
    <3>1. PICK f \in 0..Len(db[at].wal) :
            /\ db[at].wal # <<>>
            /\ Taken = lay.start[at] + 1 + 2 * lay.copied[at] + 1 + 3 * f
            /\ Limited(lay.start[at + 1] - 1)
            /\ FramesLoaded(lay, at, f)
      BY <2>3 DEF Read, Cursor
    <3>2. PICK e, m : e = at /\ m = lay.start[at + 1] - 1
      OBVIOUS
    <3>3. Limited(m)' /\ FramesLoaded(lay, e, f)'
      BY <1>4, <1>6, <2>3, <3>1, <3>2 DEF Loading
    <3>4. Limited(lay.start[at + 1] - 1)' /\ FramesLoaded(lay, at, f)'
      BY <1>1, <3>2, <3>3
    <3> QED BY <1>1, <1>2, <2>3, <3>1, <3>4 DEF Cursor
  <2>4. CASE stage = "read_database"
    BY <1>1, <1>2, <2>4 DEF Read, Cursor
  <2>5. CASE stage \notin {"read_database"} \cup Loading
    BY <1>1, <2>5 DEF Cursor, Loading
  <2> QED BY <2>1, <2>2, <2>3, <2>4, <2>5 DEF Loading
<1>9. Loaded' = Loaded
  BY <1>1 DEF Loaded
<1>10. \A d \in 1..Loaded : FramesLoaded(lay, d, Len(db[d].wal))'
  BY <1>1, <1>6 DEF Read
<1> QED BY <1>8, <1>9, <1>10 DEF Read

(* The header of the file, and of a database. *)
LEMMA ReadDecodeHeader ==
  ASSUME TInv, NEW lay \in Layouts, Layout(lay), DecodeHeader
  PROVE  Read(lay)'
<1>1. /\ stage = "read_header" /\ Whole(buf, "header")
      /\ buf' = SubSeq(buf, 3, Len(buf))
      /\ stage' = (IF buf[1].n = 0 THEN "done" ELSE "read_database")
      /\ UNCHANGED <<db, at, writing, pos, limit, lbuf, wal_size, loaded>>
  BY DEF DecodeHeader, Drop2
<1>2. /\ buf \in Seq(Unit) /\ Len(buf) \in Nat /\ lbuf = <<>> /\ Len(lbuf) = 0 /\ Taken = 0 /\ at = 1
  BY <1>1 DEF TInv, Buffers, Stages
<1>3. Len(buf) >= 2
  BY <1>1, <1>2, WholeIs
<1>4. buf[1].n = Len(db) /\ Len(db) \in Nat
  <2>1. buf[1] = out[Taken + Len(lbuf) + 1]
    BY <1>2, <1>3 DEF TInv, Buffers
  <2>2. buf[1] = [type |-> "header", n |-> Len(db), half |-> 1]
    BY <1>1, <1>2, <2>1 DEF TInv, FirstIsHeader, Reading, Writing
  <2> QED BY <2>2 DEF TInv, Files
<1>5. Taken' = 2
  <2> DEFINE k == 2
  <2>1. k \in Nat /\ Use(k)
    BY <1>1, <1>2, <1>3 DEF Use, writing, Writing, Checkpointing
  <2> HIDE DEF k
  <2>2. Taken' = Taken + k
    BY <2>1, BuffersUse DEF TInv
  <2> QED BY <1>2, <2>2 DEF k
<1>6. lay.start[1] = 3
  BY DEF Layout, Placed
<1>7. Cursor(lay)'
  BY <1>1, <1>2, <1>5, <1>6 DEF Cursor
<1>8. Loaded' = 0
  BY <1>1, <1>2, <1>4 DEF Loaded, Loading
<1> QED BY <1>7, <1>8 DEF Read

(* Behind the header of the file, or the last database, is the header of the next. *)
LEMMA ReadDecodeDatabase ==
  ASSUME TInv, NEW lay \in Layouts, Layout(lay), Exact(lay), Read(lay), DecodeDatabase
  PROVE  Read(lay)'
<1>1. /\ stage = "read_database" /\ Whole(buf, "database")
      /\ buf' = SubSeq(buf, 3, Len(buf))
      /\ limit' = buf[1].main_size /\ wal_size' = buf[1].wal_size
      /\ loaded' = Append(loaded, <<>>) /\ stage' = "read_main"
      /\ UNCHANGED <<db, at, writing, pos, lbuf, n_databases>>
  BY DEF DecodeDatabase, Drop2
<1>2. /\ buf \in Seq(Unit) /\ Len(buf) \in Nat /\ lbuf = <<>> /\ Len(lbuf) = 0 /\ Taken \in Nat
      /\ loaded \in Seq(Rows) /\ Len(loaded) = at - 1 /\ UNCHANGED out
  BY <1>1 DEF TInv, Buffers, LoadedInOrder, writing
<1>3. Len(buf) >= 2
  BY <1>1, <1>2, WholeIs
<1>4. at \in DOMAIN db /\ at \in Nat \ {0} /\ stage \in Reading
  BY <1>1, AtIs DEF Reading
<1>5. /\ lay.start[at] \in Nat /\ lay.copied[at] \in Nat /\ WalSize(at) \in Nat /\ lay.start[at] >= 3
      /\ HeaderAt(lay, at)
  BY <1>4, PlaceIs
<1>6. Taken = lay.start[at] - 1 /\ lay.header[at] = lay.copied[at]
  BY <1>1, <1>4 DEF Read, Cursor, Exact
<1>7. limit' = 2 * lay.copied[at] /\ wal_size' = WalSize(at)
  <2>1. buf[1] = out[Taken + Len(lbuf) + 1] /\ Taken + Len(lbuf) + 1 = lay.start[at] + 1 - 1
    <3>1. /\ Len(lbuf) = 0 /\ Taken = lay.start[at] - 1 /\ lay.start[at] \in Nat
          /\ 1 \in 1..Len(buf)
      BY <1>2, <1>3, <1>5, <1>6
    <3>2. buf[1] = out[Taken + Len(lbuf) + 1]
      BY <1>2, <3>1 DEF TInv, Buffers
    <3> QED BY <3>1, <3>2
  <2>2. buf[1] = [type |-> "database", main_size |-> 2 * lay.header[at],
                  wal_size |-> WalSize(at), half |-> 1]
    BY <1>5, <2>1 DEF HeaderAt
  <2> QED BY <1>1, <1>6, <2>2
<1>8. Taken' = lay.start[at] + 1
  <2> DEFINE k == 2
  <2>1. k \in Nat /\ Use(k)
    BY <1>1, <1>2, <1>3 DEF Use, writing, Writing, Checkpointing
  <2> HIDE DEF k
  <2>2. Taken' = Taken + k
    BY <2>1, BuffersUse DEF TInv
  <2> QED BY <1>5, <1>6, <2>2 DEF k
<1>9. loaded'[at] = <<>> /\ \A d \in 1..(at - 1) : loaded'[d] = loaded[d]
  <2>1. at = Len(loaded) + 1
    BY <1>2, <1>4
  <2>2. loaded'[Len(loaded) + 1] = <<>> /\ \A d \in 1..Len(loaded) : loaded'[d] = loaded[d]
    <3>1. loaded \in Seq(UNION {Rows, {<<>>}}) /\ <<>> \in UNION {Rows, {<<>>}}
      BY <1>2
    <3>2. loaded' = Append(loaded, <<>>)
      BY <1>1
    <3> QED BY <3>1, <3>2, AppendProperties
  <2> QED BY <1>2, <2>1, <2>2
<1>10. MainLoaded(lay, at, 0)'
  <2>1. loaded'[at] = <<>> /\ at' = at
    BY <1>1, <1>9
  <2>2. DOMAIN <<>> = 1..0 /\ \A p \in 1..0 : FALSE
    OBVIOUS
  <2> QED BY <2>1, <2>2 DEF MainLoaded
<1>11. Limited(lay.start[at] + 1 + 2 * lay.copied[at])'
  BY <1>1, <1>2, <1>5, <1>7, <1>8 DEF Limited
<1>12. WalSize(at)' = WalSize(at)
  BY <1>1 DEF WalSize, WalUnits
<1>13. Cursor(lay)'
  <2>1. 0 \in 0..lay.copied[at] /\ Taken' = lay.start[at] + 1 + 2 * 0
    BY <1>5, <1>8
  <2> QED BY <1>1, <1>7, <1>10, <1>11, <1>12, <2>1 DEF Cursor
<1>14. Loaded = at - 1 /\ Loaded' = at - 1
  BY <1>1 DEF Loaded, Loading
<1>15. \A d \in 1..(at - 1) : FramesLoaded(lay, d, Len(db[d].wal))'
  <2>1. ASSUME NEW d \in 1..(at - 1) PROVE FramesLoaded(lay, d, Len(db[d].wal))'
    <3>1. FramesLoaded(lay, d, Len(db[d].wal))
      BY <1>14 DEF Read
    <3>2. PICK f : f = Len(db[d].wal)
      OBVIOUS
    <3>3. FramesLoaded(lay, d, f)'
      BY <1>1, <1>2, <1>9, <3>1, <3>2, RowsStay
    <3> QED BY <1>1, <3>2, <3>3
  <2> QED BY <2>1
<1> QED BY <1>13, <1>14, <1>15 DEF Read

(* A page of the main file. *)
LEMMA ReadMainPage ==
  ASSUME TInv, NEW lay \in Layouts, Layout(lay), Read(lay), LoadMainPage
  PROVE  Read(lay)'
<1>1. /\ stage = "read_main" /\ Whole(lbuf, "page")
      /\ Load(Cardinality(DOMAIN loaded[at]) + 1, lbuf[1].data)
      /\ lbuf' = SubSeq(lbuf, 3, Len(lbuf))
      /\ UNCHANGED <<db, stage, at, writing, pos, buf, limit, n_databases, wal_size>>
  BY DEF LoadMainPage, Drop2
<1>2. /\ lbuf \in Seq(Unit) /\ Len(lbuf) \in Nat /\ Taken \in Nat /\ limit \in Nat /\ UNCHANGED out
      /\ loaded \in Seq(Rows) /\ Len(loaded) = at
  BY <1>1 DEF TInv, Buffers, Counters, LoadedInOrder, writing, Loading
<1>3. Len(lbuf) >= 2 /\ lbuf[1] \in Unit /\ lbuf[1].type = "page"
  BY <1>1, <1>2, WholeIs
<1>4. at \in DOMAIN db /\ at \in Nat \ {0} /\ stage \in Reading
  BY <1>1, AtIs DEF Reading, Loading
<1>5. /\ lay.start[at] \in Nat /\ lay.copied[at] \in Nat
  BY <1>4, PlaceIs
<1>6. PICK s \in Nat, c \in Nat, e \in Nat \ {0} : s = lay.start[at] /\ c = lay.copied[at] /\ e = at
  BY <1>4, <1>5
<1>7. PICK k \in 0..c :
        /\ Taken = s + 1 + 2 * k /\ Limited(s + 1 + 2 * c)
        /\ wal_size = WalSize(e)
        /\ MainLoaded(lay, e, k)
  BY <1>1, <1>6 DEF Read, Cursor
<1>8. Taken + Len(lbuf) + limit = s + 1 + 2 * c
  BY <1>7 DEF Limited
<1>9. k + 1 \in 1..c /\ k + 1 \in 0..c /\ k \in Nat /\ Taken + 1 = s + 2 * (k + 1)
  <2>1. PICK t \in Nat, l \in Nat, m \in Nat : t = Taken /\ l = Len(lbuf) /\ m = limit
    BY <1>2
  <2>2. t = s + 1 + 2 * k /\ t + l + m = s + 1 + 2 * c /\ l >= 2
    BY <1>3, <1>7, <1>8, <2>1
  <2>3. k < c
    BY <2>2
  <2> QED BY <2>1, <2>2, <2>3
<1>10. lbuf[1].data = DataAt(lay, e, k + 1)
  <2>1. lbuf[1] = out[Taken + 1]
    BY <1>2, <1>3 DEF TInv, Buffers
  <2> QED BY <1>6, <1>9, <2>1 DEF DataAt
<1>11. Cardinality(DOMAIN loaded[e]) = k
  <2>1. DOMAIN loaded[e] = 1..k
    BY <1>7 DEF MainLoaded
  <2>2. Cardinality(1..k) = k
    BY <1>9, FS_Interval
  <2> QED BY <2>1, <2>2
<1>12. /\ DOMAIN loaded'[e] = DOMAIN loaded[e] \cup {k + 1}
       /\ \A p \in DOMAIN loaded'[e] :
            loaded'[e][p] = IF p = k + 1 THEN lbuf[1].data ELSE loaded[e][p]
       /\ \A d \in 1..Len(loaded) : d # e => loaded'[d] = loaded[d]
  <2>1. lbuf[1].data \in Data
    BY <1>3, UnitIs
  <2>2. Load(k + 1, lbuf[1].data) /\ k + 1 \in Nat
    BY <1>1, <1>6, <1>9, <1>11
  <2>3. at \in 1..Len(loaded)
    BY <1>2, <1>4
  <2> QED BY <1>2, <1>6, <2>1, <2>2, <2>3, LoadIs
<1>13. MainLoaded(lay, e, k + 1)'
  <2>1. DOMAIN loaded'[e] = 1..(k + 1)
    <3>1. DOMAIN loaded[e] = 1..k
      BY <1>7 DEF MainLoaded
    <3>2. 1..k \cup {k + 1} = 1..(k + 1)
      BY <1>9
    <3> QED BY <1>12, <3>1, <3>2
  <2>2. ASSUME NEW p \in 1..(k + 1) PROVE loaded'[e][p] = DataAt(lay, e, p)
    <3>1. CASE p = k + 1
      BY <1>10, <1>12, <2>1, <3>1
    <3>2. CASE p # k + 1
      <4>1. p \in 1..k
        BY <1>9, <3>2
      <4> QED BY <1>7, <1>12, <2>1, <3>2, <4>1 DEF MainLoaded
    <3> QED BY <3>1, <3>2
  <2> QED BY <1>2, <2>1, <2>2 DEF MainLoaded, DataAt
<1>14. Taken' = Taken + 2 /\ Len(lbuf') = Len(lbuf) - 2
  <2> DEFINE two == 2
  <2>1. two \in Nat /\ Use(two)
    BY <1>1, <1>3 DEF Use, writing, Writing, Checkpointing
  <2> HIDE DEF two
  <2>2. Taken' = Taken + two
    BY <2>1, BuffersUse DEF TInv
  <2>3. Len(SubSeq(lbuf, 3, Len(lbuf))) = Len(lbuf) - 2
    <3>1. PICK m \in 0..Len(lbuf) : m = 2 /\ m + 1 = 3
      BY <1>2, <1>3
    <3>2. Len(SubSeq(lbuf, m + 1, Len(lbuf))) = Len(lbuf) - m
      BY <1>2, RestIs
    <3> QED BY <3>1, <3>2
  <2> QED BY <1>1, <2>2, <2>3 DEF two
<1>15. Taken' = s + 1 + 2 * (k + 1) /\ Taken' + Len(lbuf') + limit' = s + 1 + 2 * c
  <2>1. PICK t \in Nat, l \in Nat, m \in Nat : t = Taken /\ l = Len(lbuf) /\ m = limit
    BY <1>2
  <2>2. t = s + 1 + 2 * k /\ t + l + m = s + 1 + 2 * c
    BY <1>7, <1>8, <2>1
  <2>3. Taken' = t + 2 /\ Len(lbuf') = l - 2 /\ limit' = m
    BY <1>1, <1>14, <2>1
  <2>4. t + 2 = s + 1 + 2 * (k + 1) /\ (t + 2) + (l - 2) + m = s + 1 + 2 * c
    BY <2>2
  <2> QED BY <2>3, <2>4
<1>16. Limited(s + 1 + 2 * c)'
  BY <1>15 DEF Limited
<1>17. wal_size' = WalSize(at)'
  BY <1>1, <1>6, <1>7 DEF WalSize, WalUnits
<1>18. Cursor(lay)'
  <2>1. PICK m \in 0..c : m = k + 1
    BY <1>9
  <2>2. MainLoaded(lay, at, m)'
    BY <1>1, <1>6, <1>13, <2>1 DEF MainLoaded, DataAt
  <2> QED BY <1>1, <1>6, <1>15, <1>16, <1>17, <2>1, <2>2 DEF Cursor
<1>19. \A d \in 1..Loaded' : FramesLoaded(lay, d, Len(db[d].wal))'
  <2>1. Loaded = e - 1 /\ Loaded' = e - 1
    BY <1>1, <1>6 DEF Loaded, Loading
  <2>2. ASSUME NEW d \in 1..(e - 1) PROVE FramesLoaded(lay, d, Len(db[d].wal))'
    <3>1. FramesLoaded(lay, d, Len(db[d].wal)) /\ d \in 1..Len(loaded) /\ d # e
      BY <1>2, <1>6, <2>1 DEF Read
    <3>2. PICK f : f = Len(db[d].wal)
      OBVIOUS
    <3>3. FramesLoaded(lay, d, f)'
      BY <1>1, <1>2, <1>12, <3>1, <3>2, RowsStay
    <3> QED BY <1>1, <3>2, <3>3
  <2> QED BY <2>1, <2>2
<1> QED BY <1>18, <1>19 DEF Read

(* The rest of what was read when the loader turns to another part. *)
LEMMA EarlierStay ==
  ASSUME NEW lay, Read(lay), Loaded' = Loaded, UNCHANGED <<db, out, loaded>>
  PROVE  \A d \in 1..Loaded' : FramesLoaded(lay, d, Len(db[d].wal))'
<1>1. ASSUME NEW d \in 1..Loaded PROVE FramesLoaded(lay, d, Len(db[d].wal))'
  <2>1. PICK f : f = Len(db[d].wal) /\ FramesLoaded(lay, d, f)
    BY DEF Read
  <2>2. FramesLoaded(lay, d, f)'
    BY <2>1, RowsStay
  <2> QED BY <2>1, <2>2
<1> QED BY <1>1

(* The main file ends where Take does, and the journal starts there. *)
LEMMA ReadMainEnd ==
  ASSUME TInv, NEW lay \in Layouts, Layout(lay), Read(lay), LoadMainEnd
  PROVE  Read(lay)'
<1>1. /\ stage = "read_main" /\ stage' = "read_wal" /\ AtEnd /\ limit' = wal_size
      /\ UNCHANGED <<db, at, writing, pos, buf, lbuf, n_databases, wal_size, loaded>>
  BY DEF LoadMainEnd
<1>2. at \in DOMAIN db /\ at \in Nat \ {0} /\ stage \in Reading /\ UNCHANGED out
  BY <1>1, AtIs DEF Reading, Loading, writing
<1>3. /\ lay.start[at] \in Nat /\ lay.copied[at] \in Nat /\ WalSize(at) \in Nat
      /\ lay.start[at + 1] \in Nat
      /\ lay.start[at + 1] = lay.start[at] + 2 + 2 * lay.copied[at] + WalSize(at)
      /\ lay.start[at + 1] - 1 <= Len(out)
  BY <1>2, PlaceIs
<1>4. PICK s \in Nat, c \in Nat, w \in Nat, next \in Nat, e \in Nat \ {0} :
        /\ s = lay.start[at] /\ c = lay.copied[at] /\ w = WalSize(at) /\ next = lay.start[at + 1]
        /\ next = s + 2 + 2 * c + w /\ e = at
  BY <1>2, <1>3
<1>5. PICK k \in 0..c :
        /\ Taken = s + 1 + 2 * k /\ Limited(s + 1 + 2 * c)
        /\ wal_size = w
        /\ MainLoaded(lay, e, k)
  BY <1>1, <1>4 DEF Read, Cursor
<1>6. Len(out) \in Nat /\ Taken \in Nat
  BY DEF TInv, Buffers
<1>7. Taken = s + 1 + 2 * c /\ Len(lbuf) = 0
  <2>1. PICK n \in Nat : n = s + 1 + 2 * c
    OBVIOUS
  <2>2. n <= Len(out)
    <3>1. next - 1 <= Len(out)
      BY <1>3, <1>4
    <3>2. next = s + 2 + 2 * c + w
      BY <1>4
    <3> QED BY <1>6, <2>1, <3>1, <3>2
  <2>3. Limited(n)
    BY <1>5, <2>1
  <2> QED BY <1>1, <2>1, <2>2, <2>3, EndIs
<1>8. k = c
  BY <1>5, <1>7
<1>9. FramesLoaded(lay, e, 0)
  BY <1>4, <1>5, <1>8 DEF FramesLoaded, MainLoaded
<1>10. Taken' = Taken
  BY <1>1 DEF Taken
<1>11. Limited(lay.start[at + 1] - 1)'
  <2>1. Taken' + Len(lbuf') + limit' = s + 1 + 2 * c + w
    BY <1>1, <1>5, <1>7, <1>10
  <2>2. next - 1 = s + 1 + 2 * c + w
    BY <1>4
  <2> QED BY <1>1, <1>4, <2>1, <2>2 DEF Limited
<1>12. FramesLoaded(lay, at, 0)'
  <2>1. FramesLoaded(lay, e, 0)'
    BY <1>1, <1>2, <1>9, RowsStay
  <2> QED BY <1>1, <1>4, <2>1
<1>13. Cursor(lay)'
  BY <1>1, <1>4, <1>7, <1>10, <1>11, <1>12 DEF Cursor
<1>14. Loaded' = Loaded
  BY <1>1 DEF Loaded, Loading
<1>15. \A d \in 1..Loaded' : FramesLoaded(lay, d, Len(db[d].wal))'
  BY <1>1, <1>2, <1>14, EarlierStay
<1> QED BY <1>13, <1>15 DEF Read

(* A journal begins with a header, *)
LEMMA ReadSkipWal ==
  ASSUME TInv, NEW lay \in Layouts, Layout(lay), Read(lay), SkipWalHeader
  PROVE  Read(lay)'
<1>1. /\ stage = "read_wal" /\ stage' = "read_frame" /\ lbuf # <<>> /\ lbuf' = Tail(lbuf)
      /\ UNCHANGED <<db, at, writing, pos, buf, limit, n_databases, wal_size, loaded>>
  BY DEF SkipWalHeader
<1>2. at \in DOMAIN db /\ at \in Nat \ {0} /\ stage \in Reading /\ UNCHANGED out
  BY <1>1, AtIs DEF Reading, Loading, writing
<1>3. /\ lay.start[at] \in Nat /\ lay.copied[at] \in Nat /\ WalSize(at) \in Nat
      /\ lay.start[at + 1] \in Nat
      /\ lay.start[at + 1] = lay.start[at] + 2 + 2 * lay.copied[at] + WalSize(at)
  BY <1>2, PlaceIs
<1>4. PICK s \in Nat, c \in Nat, w \in Nat, next \in Nat, e \in DOMAIN db :
        /\ s = lay.start[at] /\ c = lay.copied[at] /\ w = WalSize(at) /\ next = lay.start[at + 1]
        /\ next = s + 2 + 2 * c + w /\ e = at
  BY <1>2, <1>3
<1>5. /\ Taken = s + 1 + 2 * c /\ Limited(lay.start[at + 1] - 1) /\ FramesLoaded(lay, e, 0)
  BY <1>1, <1>4 DEF Read, Cursor
<1>6. /\ lbuf \in Seq(Unit) /\ Len(lbuf) \in Nat /\ limit \in Nat /\ Taken \in Nat
  BY DEF TInv, Buffers, Counters
<1>7. Len(lbuf) >= 1 /\ lbuf' = SubSeq(lbuf, 2, Len(lbuf)) /\ Len(lbuf') = Len(lbuf) - 1
  BY <1>1, <1>6
<1>8. Taken + Len(lbuf) + limit = s + 1 + 2 * c + w
  <2>1. Taken + Len(lbuf) + limit = next - 1
    BY <1>4, <1>5 DEF Limited
  <2>2. next = s + 2 + 2 * c + w
    BY <1>4
  <2>3. next - 1 = s + 1 + 2 * c + w
    BY <2>2
  <2> QED BY <2>1, <2>3
<1>9. w >= 1
  BY <1>5, <1>6, <1>7, <1>8
<1>10. db[e].wal # <<>> /\ Len(db[e].wal) \in Nat
  <2>1. db[e].wal \in Seq(WalFrame)
    BY DatabaseIs DEF TInv
  <2>2. db[e].wal = <<>> => WalSize(e) = 0
    BY <2>1, WalUnitsAre
  <2> QED BY <1>4, <1>9, <2>1, <2>2
<1>11. Taken' = Taken + 1
  <2>0. Use(1)
    <3>1. Len(lbuf) >= 1 /\ lbuf' = SubSeq(lbuf, 2, Len(lbuf)) /\ Len(lbuf) \in Nat
      BY <1>6, <1>7
    <3>2. stage' = "read_frame" /\ UNCHANGED <<out, pos, buf>>
      BY <1>1 DEF writing
    <3> QED BY <3>1, <3>2 DEF Use, Writing, Checkpointing
  <2> DEFINE k == 1
  <2>1. k \in Nat /\ Use(k)
    BY <2>0
  <2> HIDE DEF k
  <2>2. Taken' = Taken + k
    BY <2>1, BuffersUse DEF TInv
  <2> QED BY <2>2 DEF k
<1>12. Limited(lay.start[at + 1] - 1)'
  <2>1. PICK t \in Nat, l \in Nat, m \in Nat : t = Taken /\ l = Len(lbuf) /\ m = limit
    BY <1>6
  <2>2. Taken' = t + 1 /\ Len(lbuf') = l - 1 /\ limit' = m /\ t + l + m = s + 1 + 2 * c + w
    BY <1>1, <1>7, <1>8, <1>11, <2>1
  <2>4. next = s + 2 + 2 * c + w /\ t + l + m = s + 1 + 2 * c + w
    BY <1>4, <2>2
  <2>3. (t + 1) + (l - 1) + m = next - 1
    BY <2>4
  <2> QED BY <1>1, <1>4, <2>2, <2>3 DEF Limited
<1>13. FramesLoaded(lay, at, 0)'
  <2>1. FramesLoaded(lay, e, 0)'
    BY <1>1, <1>2, <1>5, RowsStay
  <2> QED BY <1>1, <1>4, <2>1
<1>14. Cursor(lay)'
  <2>1. PICK f \in 0..Len(db[e].wal) : f = 0
    BY <1>10
  <2>2. Taken' = s + 1 + 2 * c + 1 + 3 * f
    BY <1>5, <1>11, <2>1
  <2>3. FramesLoaded(lay, at, f)'
    BY <1>13, <2>1
  <2> QED BY <1>1, <1>4, <1>10, <1>12, <2>1, <2>2, <2>3 DEF Cursor
<1>15. Loaded' = Loaded
  BY <1>1 DEF Loaded, Loading
<1>16. \A d \in 1..Loaded' : FramesLoaded(lay, d, Len(db[d].wal))'
  BY <1>1, <1>2, <1>15, EarlierStay
<1> QED BY <1>14, <1>16 DEF Read

(* A frame of the WAL: where it is in the file. *)
LEMMA FrameIs ==
  ASSUME TInv, stage = "read_frame", NEW lay \in Layouts, Layout(lay),
         NEW e \in DOMAIN db, NEW f \in 0..Len(db[e].wal), db[e].wal # <<>>, e = at,
         Taken = lay.start[e] + 1 + 2 * lay.copied[e] + 1 + 3 * f, Limited(lay.start[e + 1] - 1)
  PROVE  /\ WalSize(e) = 1 + 3 * Len(db[e].wal) /\ Len(db[e].wal) \in Nat
         /\ Taken + Len(lbuf) + limit = lay.start[e] + 1 + 2 * lay.copied[e] + WalSize(e)
         /\ Len(lbuf) >= 3 =>
              /\ f + 1 \in 1..Len(db[e].wal)
              /\ lbuf[1] = [type |-> "frame", page |-> db[e].wal[f + 1].page]
              /\ lbuf[2] = [type |-> "page", data |-> db[e].wal[f + 1].data, half |-> 1]
              /\ lbuf[3] = [type |-> "page", data |-> db[e].wal[f + 1].data, half |-> 2]
<1>1. stage \in Reading
  BY DEF Reading, Loading
<1>2. /\ lay.start[e] \in Nat /\ lay.copied[e] \in Nat /\ WalSize(e) \in Nat
      /\ lay.start[e + 1] \in Nat
      /\ lay.start[e + 1] = lay.start[e] + 2 + 2 * lay.copied[e] + WalSize(e)
      /\ WalAt(lay, e)
  BY <1>1, PlaceIs
<1>3. db[e].wal \in Seq(WalFrame) /\ Len(db[e].wal) \in Nat
  BY DatabaseIs DEF TInv
<1>4. /\ WalSize(e) = 1 + 3 * Len(db[e].wal)
      /\ \A g \in 1..Len(db[e].wal) :
           /\ WalUnits(e)[3 * g - 1] = [type |-> "frame", page |-> db[e].wal[g].page]
           /\ WalUnits(e)[3 * g] = [type |-> "page", data |-> db[e].wal[g].data, half |-> 1]
           /\ WalUnits(e)[3 * g + 1] = [type |-> "page", data |-> db[e].wal[g].data, half |-> 2]
  BY <1>3, WalUnitsAre
<1>5. PICK s \in Nat, c \in Nat, w \in Nat, m \in Nat :
        s = lay.start[e] /\ c = lay.copied[e] /\ w = WalSize(e) /\ m = Len(db[e].wal)
  BY <1>2, <1>3
<1>6. lbuf \in Seq(Unit) /\ Len(lbuf) \in Nat /\ limit \in Nat /\ Taken \in Nat
  BY DEF TInv, Buffers, Counters
<1>7. Taken + Len(lbuf) + limit = s + 1 + 2 * c + w
  <2>1. PICK next \in Nat : next = lay.start[e + 1] /\ next = s + 2 + 2 * c + w
    BY <1>2, <1>5
  <2>2. Taken + Len(lbuf) + limit = next - 1
    BY <2>1 DEF Limited
  <2> QED BY <2>1, <2>2
<1>8. ASSUME Len(lbuf) >= 3
      PROVE  /\ f + 1 \in 1..m
             /\ lbuf[1] = [type |-> "frame", page |-> db[e].wal[f + 1].page]
             /\ lbuf[2] = [type |-> "page", data |-> db[e].wal[f + 1].data, half |-> 1]
             /\ lbuf[3] = [type |-> "page", data |-> db[e].wal[f + 1].data, half |-> 2]
  <2>1. Taken = s + 1 + 2 * c + 1 + 3 * f /\ w = 1 + 3 * m /\ f \in 0..m
    BY <1>4, <1>5
  <2>2. f + 1 \in 1..m
    BY <1>6, <1>7, <1>8, <2>1
  <2>3. PICK g \in 1..m : g = f + 1
    BY <2>2
  <2>4. /\ Taken + 1 = s + 1 + 2 * c + (3 * g - 1) /\ 3 * g - 1 \in 1..w
        /\ Taken + 2 = s + 1 + 2 * c + 3 * g /\ 3 * g \in 1..w
        /\ Taken + 3 = s + 1 + 2 * c + (3 * g + 1) /\ 3 * g + 1 \in 1..w
    BY <2>1, <2>3
  <2>5. \A i \in 1..w : out[s + 1 + 2 * c + i] = WalUnits(e)[i]
    BY <1>2, <1>5 DEF WalAt
  <2>6. /\ out[Taken + 1] = WalUnits(e)[3 * g - 1]
        /\ out[Taken + 2] = WalUnits(e)[3 * g]
        /\ out[Taken + 3] = WalUnits(e)[3 * g + 1]
    BY <2>4, <2>5
  <2>7. lbuf[1] = out[Taken + 1] /\ lbuf[2] = out[Taken + 2] /\ lbuf[3] = out[Taken + 3]
    BY <1>6, <1>8 DEF TInv, Buffers
  <2>8. /\ WalUnits(e)[3 * g - 1] = [type |-> "frame", page |-> db[e].wal[g].page]
        /\ WalUnits(e)[3 * g] = [type |-> "page", data |-> db[e].wal[g].data, half |-> 1]
        /\ WalUnits(e)[3 * g + 1] = [type |-> "page", data |-> db[e].wal[g].data, half |-> 2]
    BY <1>4, <1>5
  <2> QED BY <2>2, <2>3, <2>6, <2>7, <2>8
<1> QED BY <1>3, <1>4, <1>5, <1>7, <1>8

(* The rows after one more frame. *)
LEMMA OneMoreFrame ==
  ASSUME TInv, NEW lay \in Layouts, NEW e \in DOMAIN db, NEW f \in Nat, f + 1 <= Len(db[e].wal),
         FramesLoaded(lay, e, f), UNCHANGED <<db, out>>,
         DOMAIN loaded'[e] = DOMAIN loaded[e] \cup {db[e].wal[f + 1].page},
         \A p \in DOMAIN loaded'[e] :
           loaded'[e][p] = IF p = db[e].wal[f + 1].page THEN db[e].wal[f + 1].data ELSE loaded[e][p]
  PROVE  FramesLoaded(lay, e, f + 1)'
<1> DEFINE wal == db[e].wal
<1>1. PICK n \in Nat : n = f + 1
  OBVIOUS
<1>2. db' = db /\ out' = out
  OBVIOUS
<1>3. /\ \A g \in 1..f :
           /\ wal[g].page \in DOMAIN loaded[e]
           /\ (\A h \in (g + 1)..f : wal[h].page # wal[g].page) => loaded[e][wal[g].page] = wal[g].data
      /\ \A p \in 1..lay.copied[e] :
           /\ p \in DOMAIN loaded[e]
           /\ (\A g \in 1..f : wal[g].page # p) => loaded[e][p] = DataAt(lay, e, p)
  BY DEF FramesLoaded
<1>4. /\ DOMAIN loaded'[e] = DOMAIN loaded[e] \cup {wal[n].page}
      /\ \A p \in DOMAIN loaded'[e] : loaded'[e][p] = IF p = wal[n].page THEN wal[n].data ELSE loaded[e][p]
  BY <1>1
<1> HIDE DEF wal
<1>5. ASSUME NEW g \in 1..n
      PROVE  /\ wal[g].page \in DOMAIN loaded'[e]
             /\ (\A h \in (g + 1)..n : wal[h].page # wal[g].page) => loaded'[e][wal[g].page] = wal[g].data
  <2>1. CASE g = n
    BY <1>4, <2>1
  <2>2. CASE g # n
    <3>1. g \in 1..f /\ n \in (g + 1)..n /\ \A h \in (g + 1)..f : h \in (g + 1)..n
      BY <1>1, <2>2
    <3> QED BY <1>3, <1>4, <3>1
  <2> QED BY <2>1, <2>2
<1>6. ASSUME NEW p \in 1..lay.copied[e]
      PROVE  /\ p \in DOMAIN loaded'[e]
             /\ (\A g \in 1..n : wal[g].page # p) => loaded'[e][p] = DataAt(lay, e, p)
  <2>1. n \in 1..n /\ \A g \in 1..f : g \in 1..n
    BY <1>1
  <2> QED BY <1>3, <1>4, <2>1
<1>7. FramesLoaded(lay, e, n)'
  BY <1>2, <1>5, <1>6 DEF FramesLoaded, DataAt, wal
<1> QED BY <1>1, <1>7

(* and goes on with frames, of which each replaces the page it has. *)
LEMMA ReadWalFrame ==
  ASSUME TInv, NEW lay \in Layouts, Layout(lay), Read(lay), LoadWalFrame
  PROVE  Read(lay)'
<1>1. /\ stage = "read_frame" /\ Len(lbuf) >= 3
      /\ Load(lbuf[1].page, lbuf[2].data)
      /\ lbuf' = SubSeq(Tail(lbuf), 3, Len(Tail(lbuf)))
      /\ UNCHANGED <<db, stage, at, writing, pos, buf, limit, n_databases, wal_size>>
  BY DEF LoadWalFrame, Drop2
<1>2. at \in DOMAIN db /\ at \in Nat \ {0} /\ stage \in Reading /\ UNCHANGED out
  BY <1>1, AtIs DEF Reading, Loading, writing
<1>3. /\ lbuf \in Seq(Unit) /\ Len(lbuf) \in Nat /\ limit \in Nat /\ Taken \in Nat
      /\ loaded \in Seq(Rows) /\ Len(loaded) = at
  BY <1>1 DEF TInv, Buffers, Counters, LoadedInOrder, Loading
<1>4. lbuf' = SubSeq(lbuf, 4, Len(lbuf)) /\ Len(lbuf') = Len(lbuf) - 3
  <2>1. lbuf \in Seq(Unit) /\ Len(lbuf) \in Nat /\ Len(lbuf) >= 3
    BY <1>1, <1>3
  <2>2. lbuf' = SubSeq(lbuf, 4, Len(lbuf))
    BY <1>1, <2>1
  <2>3. Len(SubSeq(lbuf, 4, Len(lbuf))) = Len(lbuf) - 3
    <3>1. PICK m \in 0..Len(lbuf) : m = 3 /\ m + 1 = 4
      BY <2>1
    <3>2. Len(SubSeq(lbuf, m + 1, Len(lbuf))) = Len(lbuf) - m
      BY <2>1, RestIs
    <3> QED BY <3>1, <3>2
  <2> QED BY <2>2, <2>3
<1>5. PICK e \in DOMAIN db : e = at /\ e \in Nat \ {0}
  BY <1>2
<1>6. PICK f \in 0..Len(db[e].wal) :
        /\ db[e].wal # <<>>
        /\ Taken = lay.start[e] + 1 + 2 * lay.copied[e] + 1 + 3 * f
        /\ Limited(lay.start[e + 1] - 1)
        /\ FramesLoaded(lay, e, f)
  BY <1>1, <1>5 DEF Read, Cursor
<1>7. /\ WalSize(e) = 1 + 3 * Len(db[e].wal) /\ Len(db[e].wal) \in Nat
      /\ Taken + Len(lbuf) + limit = lay.start[e] + 1 + 2 * lay.copied[e] + WalSize(e)
      /\ f + 1 \in 1..Len(db[e].wal)
      /\ lbuf[1] = [type |-> "frame", page |-> db[e].wal[f + 1].page]
      /\ lbuf[2] = [type |-> "page", data |-> db[e].wal[f + 1].data, half |-> 1]
  BY <1>1, <1>5, <1>6, FrameIs
<1>8. /\ lay.start[e] \in Nat /\ lay.copied[e] \in Nat /\ WalSize(e) \in Nat
      /\ lay.start[e + 1] \in Nat
      /\ lay.start[e + 1] = lay.start[e] + 2 + 2 * lay.copied[e] + WalSize(e)
  BY <1>2, PlaceIs
<1>9. PICK n \in 1..Len(db[e].wal) : n = f + 1
  BY <1>7
<1>10. /\ DOMAIN loaded'[e] = DOMAIN loaded[e] \cup {db[e].wal[n].page}
       /\ \A p \in DOMAIN loaded'[e] :
            loaded'[e][p] = IF p = db[e].wal[n].page THEN db[e].wal[n].data ELSE loaded[e][p]
       /\ \A d \in 1..Len(loaded) : d # e => loaded'[d] = loaded[d]
  <2>1. db[e].wal[n].page \in Nat /\ db[e].wal[n].data \in Data
    <3>1. db[e].wal[n] \in WalFrame
      BY <1>7, DatabaseIs DEF TInv
    <3> QED BY <3>1 DEF WalFrame, Data
  <2>2. Load(db[e].wal[n].page, db[e].wal[n].data)
    BY <1>1, <1>7, <1>9
  <2>3. at \in 1..Len(loaded)
    BY <1>2, <1>3
  <2> QED BY <1>3, <1>5, <2>1, <2>2, <2>3, LoadIs
<1>11. FramesLoaded(lay, e, n)'
  <2>1. FramesLoaded(lay, e, f + 1)'
    <3>1. f \in Nat /\ f + 1 <= Len(db[e].wal)
      BY <1>7
    <3> QED BY <1>1, <1>2, <1>6, <1>9, <1>10, <3>1, OneMoreFrame
  <2> QED BY <1>9, <2>1
<1>12. Taken' = Taken + 3
  <2> DEFINE k == 3
  <2>1. k \in Nat /\ Use(k)
    BY <1>1, <1>4 DEF Use, writing, Writing, Checkpointing
  <2> HIDE DEF k
  <2>2. Taken' = Taken + k
    BY <2>1, BuffersUse DEF TInv
  <2> QED BY <2>2 DEF k
<1>13. Taken' = lay.start[e] + 1 + 2 * lay.copied[e] + 1 + 3 * n
  <2>1. PICK s \in Nat, c \in Nat, m \in Nat : s = lay.start[e] /\ c = lay.copied[e] /\ m = f
    <3>1. lay.start[e] \in Nat /\ lay.copied[e] \in Nat /\ f \in Nat
      BY <1>7, <1>8
    <3> QED BY ONLY <3>1
  <2>2. Taken = s + 1 + 2 * c + 1 + 3 * m /\ n = m + 1
    BY <1>6, <1>9, <2>1
  <2>3. Taken' = s + 1 + 2 * c + 1 + 3 * n
    BY <1>12, <2>2
  <2> QED BY <2>1, <2>3
<1>14. Limited(lay.start[e + 1] - 1)'
  <2>1. PICK s \in Nat, c \in Nat, w \in Nat, next \in Nat :
          /\ s = lay.start[e] /\ c = lay.copied[e] /\ w = WalSize(e) /\ next = lay.start[e + 1]
          /\ next = s + 2 + 2 * c + w
    BY <1>8
  <2>2. PICK t \in Nat, l \in Nat, m \in Nat : t = Taken /\ l = Len(lbuf) /\ m = limit
    BY <1>3
  <2>3. Taken' = t + 3 /\ Len(lbuf') = l - 3 /\ limit' = m /\ t + l + m = s + 1 + 2 * c + w
    BY <1>1, <1>4, <1>7, <1>12, <2>1, <2>2
  <2>5. next = s + 2 + 2 * c + w /\ t + l + m = s + 1 + 2 * c + w
    BY <2>1, <2>3
  <2>4. (t + 3) + (l - 3) + m = next - 1
    BY <2>5
  <2> QED BY <2>1, <2>3, <2>4 DEF Limited
<1>15. Cursor(lay)'
  <2>1. n \in 0..Len(db[e].wal)
    BY <1>7
  <2> QED BY <1>1, <1>5, <1>6, <1>11, <1>13, <1>14, <2>1 DEF Cursor
<1>16. \A d \in 1..Loaded' : FramesLoaded(lay, d, Len(db[d].wal))'
  <2>1. Loaded = e - 1 /\ Loaded' = e - 1
    BY <1>1, <1>5 DEF Loaded, Loading
  <2>2. ASSUME NEW d \in 1..(e - 1) PROVE FramesLoaded(lay, d, Len(db[d].wal))'
    <3>1. FramesLoaded(lay, d, Len(db[d].wal)) /\ d \in 1..Len(loaded) /\ d # e
      BY <1>3, <1>5, <2>1 DEF Read
    <3>2. PICK g : g = Len(db[d].wal)
      OBVIOUS
    <3>3. FramesLoaded(lay, d, g)'
      BY <1>1, <1>2, <1>10, <3>1, <3>2, RowsStay
    <3> QED BY <1>1, <3>2, <3>3
  <2> QED BY <2>1, <2>2
<1> QED BY <1>15, <1>16 DEF Read

(* The end of the WAL, which may be missing, and of the database. *)
LEMMA ReadWalEnd ==
  ASSUME TInv, NEW lay \in Layouts, Layout(lay), Read(lay), LoadWalEnd
  PROVE  Read(lay)'
<1>1. /\ stage \in {"read_wal", "read_frame"} /\ AtEnd
      /\ IF at = n_databases THEN stage' = "done" /\ at' = at
         ELSE stage' = "read_database" /\ at' = at + 1
      /\ UNCHANGED <<db, writing, reading>>
  BY DEF LoadWalEnd
<1>2. /\ at \in DOMAIN db /\ at \in Nat \ {0} /\ stage \in Reading /\ UNCHANGED <<out, loaded>>
      /\ Len(db) \in Nat /\ DOMAIN db = 1..Len(db) /\ n_databases = Len(db)
  BY <1>1, AtIs, CompleteIs DEF Reading, Loading, writing, reading, TInv, Counters
<1>3. /\ lay.start[at] \in Nat /\ lay.copied[at] \in Nat /\ WalSize(at) \in Nat
      /\ lay.start[at + 1] \in Nat /\ lay.start[at] >= 3
      /\ lay.start[at + 1] = lay.start[at] + 2 + 2 * lay.copied[at] + WalSize(at)
      /\ lay.start[at + 1] - 1 <= Len(out)
  BY <1>2, PlaceIs
<1>4. PICK s \in Nat, c \in Nat, w \in Nat, next \in Nat, e \in DOMAIN db :
        /\ s = lay.start[at] /\ c = lay.copied[at] /\ w = WalSize(at) /\ next = lay.start[at + 1]
        /\ next = s + 2 + 2 * c + w /\ e = at /\ e \in Nat \ {0}
  BY <1>2, <1>3
<1>5. Limited(lay.start[at + 1] - 1)
  BY <1>1 DEF Read, Cursor
<1>6. Taken = lay.start[at + 1] - 1 /\ Taken = s + 1 + 2 * c + w
  <2>0. next - 1 \in Nat /\ next - 1 = s + 1 + 2 * c + w
    BY <1>4
  <2>1. lay.start[at + 1] - 1 \in Nat /\ lay.start[at + 1] - 1 = s + 1 + 2 * c + w
    BY <1>4, <2>0
  <2>2. PICK n \in Nat : n = lay.start[at + 1] - 1
    BY <2>1
  <2>3. Taken = n
    BY <1>1, <1>3, <1>5, <2>2, EndIs
  <2> QED BY <2>1, <2>2, <2>3
<1>7. db[e].wal \in Seq(WalFrame) /\ Len(db[e].wal) \in Nat
  BY DatabaseIs DEF TInv
<1>8. /\ db[e].wal = <<>> => w = 0 /\ Len(db[e].wal) = 0
      /\ db[e].wal # <<>> => w = 1 + 3 * Len(db[e].wal)
  BY <1>4, <1>7, WalUnitsAre
<1>9. FramesLoaded(lay, e, Len(db[e].wal))
  <2>1. CASE stage = "read_wal"
    <3>1. Taken = s + 1 + 2 * c /\ FramesLoaded(lay, e, 0)
      BY <1>4, <2>1 DEF Read, Cursor
    <3>2. w = 0
      BY <1>6, <3>1
    <3>3. Len(db[e].wal) = 0
      BY <1>7, <1>8, <3>2
    <3> QED BY <3>1, <3>3
  <2>2. CASE stage = "read_frame"
    <3>1. PICK f \in 0..Len(db[e].wal) :
            /\ db[e].wal # <<>>
            /\ Taken = s + 1 + 2 * c + 1 + 3 * f
            /\ FramesLoaded(lay, e, f)
      BY <1>4, <2>2 DEF Read, Cursor
    <3>2. f = Len(db[e].wal)
      BY <1>6, <1>7, <1>8, <3>1
    <3> QED BY <3>1, <3>2
  <2> QED BY <1>1, <2>1, <2>2
<1>10. Taken' = Taken
  BY <1>1 DEF Taken, reading
<1>11. Cursor(lay)'
  BY <1>1, <1>6, <1>10 DEF Cursor
<1>12. Loaded' = e
  <2>1. CASE stage' = "done"
    BY <1>1, <1>2, <1>4, <2>1 DEF Loaded, Loading
  <2>2. CASE stage' = "read_database" /\ at' = e + 1
    BY <1>4, <2>2 DEF Loaded
  <2> QED BY <1>1, <1>4, <2>1, <2>2
<1>13. Loaded = e - 1
  BY <1>1, <1>4 DEF Loaded, Loading
<1>14. ASSUME NEW d \in 1..e PROVE FramesLoaded(lay, d, Len(db[d].wal))'
  <2>1. FramesLoaded(lay, d, Len(db[d].wal))
    <3>1. CASE d = e
      BY <1>9, <3>1
    <3>2. CASE d # e
      <4>1. d \in 1..(e - 1)
        BY <1>4, <3>2
      <4>2. \A k \in 1..Loaded : FramesLoaded(lay, k, Len(db[k].wal))
        BY DEF Read
      <4> QED BY <1>13, <4>1, <4>2
    <3> QED BY <3>1, <3>2
  <2>2. PICK f : f = Len(db[d].wal)
    OBVIOUS
  <2>3. FramesLoaded(lay, d, f)'
    BY <1>1, <1>2, <2>1, <2>2, RowsStay
  <2> QED BY <1>1, <2>2, <2>3
<1> QED BY <1>11, <1>12, <1>14 DEF Read

(* Where the headers are right the reader goes on. *)
LEMMA ReadGoesOn ==
  ASSUME TInv, ReadStep, NEW lay \in Layouts, Layout(lay), Exact(lay), Read(lay)
  PROVE  Read(lay)'
<1>1. ASSUME NEW n, Refill(n) \/ Fill(n) PROVE Read(lay)'
  <2>1. stage \in Reading
    BY <1>1, RefillIs, FillIs DEF Reading, Loading
  <2> QED BY <1>1, <2>1, ReadFills
<1> QED BY <1>1, ReadDecodeHeader, ReadDecodeDatabase, ReadMainPage, ReadMainEnd, ReadSkipWal,
           ReadWalFrame, ReadWalEnd DEF ReadStep

-----------------------------------------------------------------------------
(* The inductive invariant: until something fails there is a layout, and where its
   headers are right the reader is where it says. *)
Followed(lay) == stage \in Reading /\ Exact(lay) => Read(lay)

LInv ==
  /\ TInv
  /\ stage # "failed" => \E lay \in Layouts : Layout(lay) /\ Followed(lay)

(* What the next state has, of what a state has. *)
Keeps(lay) ==
  \E new \in Layouts :
    /\ Layout(new)'
    /\ Followed(lay) => Followed(new)'
    /\ \A direction \in Directions : Directed(direction, lay) => Directed(direction, new)'

(* Steps of the writer keep the layout. *)
LEMMA KeepsWrite ==
  ASSUME TInv, WriteStep, stage' # "failed", NEW lay \in Layouts, Layout(lay)
  PROVE  Keeps(lay)
<1> USE DEF Reading, Loading
<1>1. ASSUME Extends(lay), stage' \notin Reading PROVE Keeps(lay)
  BY <1>1 DEF Extends, Keeps, Followed
<1>2. CASE AddSize
  <2>1. stage' \notin Reading
    BY <1>2 DEF AddSize
  <2> QED BY <1>1, <1>2, <2>1, LayAddSize
<1>3. CASE WriteHeader
  <2>1. stage' \notin Reading
    BY <1>3 DEF WriteHeader
  <2> QED BY <1>1, <1>3, <2>1, LayWriteHeader
<1>4. CASE WriteDatabaseHeader
  <2>1. stage' \notin Reading
    BY <1>4 DEF WriteDatabaseHeader
  <2> QED BY <1>1, <1>4, <2>1, LayDatabaseHeader
<1>5. CASE BeginMain
  <2>1. stage' \notin Reading
    BY <1>5 DEF BeginMain
  <2> QED BY <1>1, <1>5, <2>1, LayBeginMain
<1>6. CASE WritePage
  <2>1. stage' \notin Reading
    BY <1>6 DEF WritePage
  <2> QED BY <1>1, <1>6, <2>1, LayWritePage
<1>7. CASE WriteWal
  <2>1. stage' \notin Reading
    BY <1>7 DEF WriteWal
  <2> QED BY <1>1, <1>7, <2>1, LayWriteWal
<1>8. CASE FinishEncoder
  <2>1. /\ stage = "encoded" /\ stage' = "read_header" /\ Len(out) = total
        /\ UNCHANGED <<db, at, writing, reading>>
    BY <1>8 DEF FinishEncoder
  <2>2. Layout(lay)' /\ \A direction \in Directions : Directed(direction, lay) => Directed(direction, lay)'
    BY <2>1, LayoutStays
  <2>3. Read(lay)'
    <3>1. Cursor(lay)' /\ Loaded' = 0
      BY <2>1 DEF Cursor, Loaded
    <3> QED BY <3>1 DEF Read
  <2> QED BY <2>2, <2>3 DEF Keeps, Followed
<1> QED BY <1>2, <1>3, <1>4, <1>5, <1>6, <1>7, <1>8 DEF WriteStep

(* The steps of the reader leave the file alone. *)
LEMMA ReadStepIs ==
  ASSUME TInv, ReadStep
  PROVE  stage \in Reading /\ stage' \in Reading /\ UNCHANGED <<db, writing>>
<1> USE DEF Reading, Loading
<1>1. ASSUME NEW n, Refill(n) \/ Fill(n)
      PROVE  stage \in Reading /\ stage' \in Reading /\ UNCHANGED <<db, writing>>
  BY <1>1, RefillIs, FillIs
<1> QED BY <1>1 DEF ReadStep, DecodeHeader, DecodeDatabase, LoadMainPage, LoadMainEnd, SkipWalHeader,
                LoadWalFrame, LoadWalEnd

(* Steps of the reader keep the cursor. *)
LEMMA KeepsRead ==
  ASSUME TInv, ReadStep, NEW lay \in Layouts, Layout(lay)
  PROVE  Keeps(lay)
<1>1. stage \in Reading /\ stage' \in Reading /\ UNCHANGED <<db, writing>>
  BY ReadStepIs
<1>2. Layout(lay)' /\ \A direction \in Directions : Directed(direction, lay) => Directed(direction, lay)'
  <2>1. stage # "encoded"
    BY <1>1 DEF Reading, Loading
  <2> QED BY <1>1, <2>1, LayoutStays
<1>3. Exact(lay)' <=> Exact(lay)
  BY <1>1 DEF Exact
<1>4. Followed(lay) => Followed(lay)'
  BY <1>1, <1>3, ReadGoesOn DEF Followed
<1> QED BY <1>2, <1>4 DEF Keeps

(* So does a step that fails or changes nothing. *)
LEMMA KeepsStutter ==
  ASSUME TInv, UNCHANGED vars, NEW lay \in Layouts, Layout(lay), stage # "failed"
  PROVE  Keeps(lay)
<1>1. /\ db' = db /\ stage' = stage /\ at' = at /\ total' = total /\ len' = len /\ page' = page
      /\ out' = out /\ pos' = pos /\ buf' = buf /\ limit' = limit /\ lbuf' = lbuf
      /\ n_databases' = n_databases /\ wal_size' = wal_size /\ loaded' = loaded
  BY DEF vars, writing, reading
<1>2. /\ Announced' = Announced /\ Headed' = Headed /\ Measured' = Measured /\ Finished' = Finished
      /\ Loaded' = Loaded /\ Taken' = Taken
  BY <1>1 DEF Announced, Headed, Measured, Finished, Loaded, Taken
<1>3. \A d : WalSize(d)' = WalSize(d) /\ WalUnits(d)' = WalUnits(d) /\ FramePages(d)' = FramePages(d)
  BY <1>1 DEF WalSize, WalUnits, FramePages
<1>4. Sized(lay)' /\ Placed(lay)'
  BY <1>1, <1>2, <1>3 DEF Layout, Sized, Placed
<1>5. EndsAt(lay)' /\ HeadersAt(lay)'
  BY <1>1, <1>2, <1>3 DEF Layout, EndsAt, HeadersAt, HeaderAt, IsHeader
<1>6. FilesAt(lay)'
  <2>1. \A d \in 1..Finished : PagesAt(lay, d, lay.copied[d])' /\ WalAt(lay, d)'
    BY <1>1, WrittenStays
  <2>2. stage = "main" => lay.copied[at] = len /\ PagesAt(lay, at, page)'
    BY <1>1, <1>3 DEF Layout, FilesAt, PagesAt
  <2>3. \A d \in 1..Measured : 1..db[d].size \ FramePages(d) \subseteq 1..lay.copied[d]
    BY DEF Layout, FilesAt
  <2> QED BY <1>1, <1>2, <1>3, <2>1, <2>2, <2>3 DEF FilesAt
<1>7. Layout(lay)'
  BY <1>1, <1>4, <1>5, <1>6 DEF Layout
<1>8. ASSUME NEW direction \in Directions, Directed(direction, lay) PROVE Directed(direction, lay)'
  BY <1>1, <1>2, <1>8 DEF Directed
<1>9. ASSUME Read(lay) PROVE Read(lay)'
  <2>1. \A d, f : FramesLoaded(lay, d, f) => FramesLoaded(lay, d, f)'
    BY <1>1, RowsStay
  <2>2. \A d, k : MainLoaded(lay, d, k) => MainLoaded(lay, d, k)'
    BY <1>1 DEF MainLoaded, DataAt
  <2>3. \A m : Limited(m) => Limited(m)'
    BY <1>1, <1>2 DEF Limited
  <2>4. PICK e : e = at
    OBVIOUS
  <2>5. Cursor(lay)'
    <3>1. CASE stage = "read_main"
      <4>1. PICK k \in 0..lay.copied[e] :
              /\ Taken = lay.start[e] + 1 + 2 * k
              /\ Limited(lay.start[e] + 1 + 2 * lay.copied[e])
              /\ wal_size = WalSize(e) /\ MainLoaded(lay, e, k)
        BY <1>9, <2>4, <3>1 DEF Read, Cursor
      <4>2. Limited(lay.start[e] + 1 + 2 * lay.copied[e])' /\ MainLoaded(lay, e, k)'
        BY <2>2, <4>1, <1>1, <1>2 DEF Limited
      <4> QED BY <1>1, <1>2, <1>3, <2>4, <3>1, <4>1, <4>2 DEF Cursor
    <3>2. CASE stage = "read_wal"
      <4>1. /\ Taken = lay.start[e] + 1 + 2 * lay.copied[e] /\ Limited(lay.start[e + 1] - 1)
            /\ FramesLoaded(lay, e, 0)
        BY <1>9, <2>4, <3>2 DEF Read, Cursor
      <4>2. Limited(lay.start[e + 1] - 1)' /\ FramesLoaded(lay, e, 0)'
        BY <2>1, <4>1, <1>1, <1>2 DEF Limited
      <4> QED BY <1>1, <1>2, <2>4, <3>2, <4>1, <4>2 DEF Cursor
    <3>3. CASE stage = "read_frame"
      <4>1. PICK f \in 0..Len(db[e].wal) :
              /\ db[e].wal # <<>>
              /\ Taken = lay.start[e] + 1 + 2 * lay.copied[e] + 1 + 3 * f
              /\ Limited(lay.start[e + 1] - 1)
              /\ FramesLoaded(lay, e, f)
        BY <1>9, <2>4, <3>3 DEF Read, Cursor
      <4>2. Limited(lay.start[e + 1] - 1)' /\ FramesLoaded(lay, e, f)'
        BY <2>1, <4>1, <1>1, <1>2 DEF Limited
      <4> QED BY <1>1, <1>2, <2>4, <3>3, <4>1, <4>2 DEF Cursor
    <3>4. CASE stage \notin Loading
      BY <1>1, <1>2, <1>9, <3>4 DEF Read, Cursor, Loading
    <3> QED BY <3>1, <3>2, <3>3, <3>4 DEF Loading
  <2>6. \A d \in 1..Loaded' : FramesLoaded(lay, d, Len(db[d].wal))'
    BY <1>1, <1>2, <1>9, EarlierStay
  <2> QED BY <2>5, <2>6 DEF Read
<1>10. Exact(lay)' <=> Exact(lay)
  BY <1>1 DEF Exact
<1> QED BY <1>1, <1>7, <1>8, <1>9, <1>10 DEF Keeps, Followed

(* No step invalidates the layout. *)
LEMMA KeepsNext ==
  ASSUME TInv, [Next]_vars, stage # "failed", stage' # "failed", NEW lay \in Layouts, Layout(lay)
  PROVE  Keeps(lay)
<1>1. CASE WriteStep
  BY <1>1, KeepsWrite
<1>2. CASE ReadStep
  BY <1>2, KeepsRead
<1>3. CASE Fails
  BY <1>3 DEF Fails
<1>4. ASSUME NEW d \in DOMAIN db, Checkpoint(d) PROVE Keeps(lay)
  <2>1. stage' \notin Reading
    BY <1>4 DEF Checkpoint, Reading, Loading
  <2> QED BY <1>4, <2>1, LayCheckpoint DEF Extends, Keeps, Followed
<1>5. CASE UNCHANGED vars
  BY <1>5, KeepsStutter
<1> QED BY <1>1, <1>2, <1>3, <1>4, <1>5 DEF Next, Ended

(* After a failure nothing goes on. *)
LEMMA FailedStays ==
  ASSUME TInv, [Next]_vars, stage = "failed"
  PROVE  stage' = "failed"
<1>1. ~ReadStep
  BY ReadStepIs DEF Reading, Loading
<1>2. ~WriteStep
  BY DEF WriteStep, AddSize, WriteHeader, WriteDatabaseHeader, BeginMain, WritePage, WriteWal,
         FinishEncoder
<1> QED BY <1>1, <1>2 DEF Next, Fails, Ended, Checkpoint, vars

(* At first the layout is empty. *)
LEMMA LInit == Init => LInv
<1> SUFFICES ASSUME Init PROVE LInv
  OBVIOUS
<1>1. TInv
  BY TInit
<1>2. PICK lay \in Layouts : Layout(lay)
  BY LayInit
<1>3. Followed(lay)
  BY DEF Init, Followed, Reading, Loading
<1> QED BY <1>1, <1>2, <1>3 DEF LInv

(* The layout goes on with the file. *)
LEMMA LNext == ASSUME LInv, [Next]_vars PROVE LInv'
<1>1. TInv /\ TInv'
  BY TNext DEF LInv
<1>2. ASSUME stage' # "failed" PROVE \E lay \in Layouts : Layout(lay)' /\ Followed(lay)'
  <2>1. stage # "failed"
    BY <1>1, <1>2, FailedStays
  <2>2. PICK lay \in Layouts : Layout(lay) /\ Followed(lay)
    BY <2>1 DEF LInv
  <2>3. Keeps(lay)
    BY <1>1, <1>2, <2>1, <2>2, KeepsNext
  <2> QED BY <2>2, <2>3 DEF Keeps
<1> QED BY <1>1, <1>2 DEF LInv

(* At each moment there is a layout. *)
LEMMA Layered == Spec => []LInv
BY LInit, LNext, PTL DEF Spec

(* The directions the files start in are kept. *)
DInv ==
  /\ TInv
  /\ stage # "failed" =>
       \E lay \in Layouts : \E direction \in Directions : Layout(lay) /\ Directed(direction, lay)

(* The main files that a checkpoint changes all become longer, or all shorter. *)
OneWay ==
  \E direction \in Directions : \A d \in DOMAIN db : Towards(direction, Len(db[d].main), db[d].size)

(* Under OneWay a direction is there from the start. *)
LEMMA DInit == Init /\ OneWay => DInv
<1> SUFFICES ASSUME Init, OneWay PROVE DInv
  OBVIOUS
<1>1. TInv
  BY TInit
<1>2. \E lay \in Layouts : \E direction \in Directions : Layout(lay) /\ Directed(direction, lay)
  BY LayInit DEF OneWay
<1> QED BY <1>1, <1>2 DEF DInv

(* A checkpoint only brings the main files nearer to their sizes. *)
LEMMA DNext == ASSUME DInv, [Next]_vars PROVE DInv'
<1>1. TInv /\ TInv'
  BY TNext DEF DInv
<1>2. ASSUME stage' # "failed"
      PROVE  \E lay \in Layouts : \E direction \in Directions : Layout(lay)' /\ Directed(direction, lay)'
  <2>1. stage # "failed"
    BY <1>1, <1>2, FailedStays
  <2>2. PICK lay \in Layouts, direction \in Directions : Layout(lay) /\ Directed(direction, lay)
    BY <2>1 DEF DInv
  <2>3. Keeps(lay)
    BY <1>1, <1>2, <2>1, <2>2, KeepsNext
  <2> QED BY <2>2, <2>3 DEF Keeps
<1> QED BY <1>1, <1>2 DEF DInv

(* A data file whose frame was closed is as long as its headers say, database by
   database, although checkpoints change the files between the three times they are
   sized: if no file grows where another shrinks, the announced size catches every
   change. *)
THEOREM HeadersRight == Spec /\ OneWay => []HeadersAreRight
<1>1. Init /\ OneWay => DInv
  BY DInit
<1>2. DInv /\ [Next]_vars => DInv'
  BY DNext
<1>3. DInv => HeadersAreRight
  <2> SUFFICES ASSUME DInv, stage \in Reading PROVE SizesMatch
    BY DEF HeadersAreRight, Reading, Loading
  <2>1. PICK lay \in Layouts, direction \in Directions : Layout(lay) /\ Directed(direction, lay)
    BY DEF DInv, Reading, Loading
  <2>2. TInv
    BY DEF DInv
  <2>3. Exact(lay)
    BY <2>1, <2>2, DirectedIsExact
  <2> QED BY <2>1, <2>2, <2>3, SizesMatchIs
<1> QED BY <1>1, <1>2, <1>3, PTL DEF Spec

-----------------------------------------------------------------------------
(* What the reader finds where it looks. *)
LEMMA WholeUnits ==
  ASSUME NEW units \in Seq(Unit), Len(units) >= 2, NEW type, NEW first, NEW second,
         units[1] = first, units[2] = second, first.type = type, first.half = 1,
         second = [first EXCEPT !.half = 2]
  PROVE  Whole(units, type)
BY DEF Whole

(* The two units of a page are whole. *)
LEMMA WholePage ==
  ASSUME NEW units \in Seq(Unit), Len(units) >= 2, NEW data,
         units[1] = [type |-> "page", data |-> data, half |-> 1],
         units[2] = [type |-> "page", data |-> data, half |-> 2]
  PROVE  Whole(units, "page")
<1> DEFINE first == [type |-> "page", data |-> data, half |-> 1]
<1>1. units[1] = first /\ first.type = "page" /\ first.half = 1
  OBVIOUS
<1>2. units[2] = [first EXCEPT !.half = 2]
  OBVIOUS
<1> HIDE DEF first
<1> QED BY <1>1, <1>2, WholeUnits

(* At the beginning of the file is its header. *)
LEMMA RightHeader ==
  ASSUME TInv, stage = "read_header", Len(buf) >= 2
  PROVE  Whole(buf, "header")
<1>1. buf \in Seq(Unit) /\ Len(buf) \in Nat /\ lbuf = <<>> /\ Len(lbuf) = 0 /\ Taken = 0
  BY DEF TInv, Buffers
<1>2. buf[1] = out[1] /\ buf[2] = out[2]
  <2>1. \A i \in 1..Len(buf) : buf[i] = out[Taken + Len(lbuf) + i]
    BY DEF TInv, Buffers
  <2>2. 1 \in 1..Len(buf) /\ 2 \in 1..Len(buf)
    BY <1>1
  <2> QED BY <1>1, <2>1, <2>2
<1>3. /\ out[1] = [type |-> "header", n |-> Len(db), half |-> 1]
      /\ out[2] = [type |-> "header", n |-> Len(db), half |-> 2]
  BY DEF TInv, FirstIsHeader, Reading, Writing
<1> QED BY <1>1, <1>2, <1>3, WholeUnits

(* Where a database starts is its header. *)
LEMMA RightDatabase ==
  ASSUME TInv, stage = "read_database", Len(buf) >= 2, NEW lay \in Layouts, Layout(lay), Read(lay)
  PROVE  Whole(buf, "database")
<1>1. buf \in Seq(Unit) /\ Len(buf) \in Nat /\ lbuf = <<>> /\ Len(lbuf) = 0
  BY DEF TInv, Buffers
<1>2. at \in DOMAIN db /\ stage \in Reading
  BY AtIs DEF Reading
<1>3. lay.start[at] \in Nat /\ lay.start[at] >= 3 /\ HeaderAt(lay, at)
  BY <1>2, PlaceIs
<1>4. Taken = lay.start[at] - 1
  BY DEF Read, Cursor
<1>5. buf[1] = out[lay.start[at] + 1 - 1] /\ buf[2] = out[lay.start[at] + 2 - 1]
  <2>1. \A i \in 1..Len(buf) : buf[i] = out[Taken + Len(lbuf) + i]
    BY DEF TInv, Buffers
  <2>2. 1 \in 1..Len(buf) /\ 2 \in 1..Len(buf)
    BY <1>1
  <2>3. Taken + Len(lbuf) + 1 = lay.start[at] + 1 - 1 /\ Taken + Len(lbuf) + 2 = lay.start[at] + 2 - 1
    BY <1>1, <1>3, <1>4
  <2> QED BY <2>1, <2>2, <2>3
<1>6. /\ buf[1] = [type |-> "database", main_size |-> 2 * lay.header[at],
                   wal_size |-> WalSize(at), half |-> 1]
      /\ buf[2] = [type |-> "database", main_size |-> 2 * lay.header[at],
                   wal_size |-> WalSize(at), half |-> 2]
  BY <1>3, <1>5 DEF HeaderAt
<1> DEFINE first == [type |-> "database", main_size |-> 2 * lay.header[at],
                     wal_size |-> WalSize(at), half |-> 1]
<1>7. first.type = "database" /\ first.half = 1 /\ buf[1] = first
  BY <1>6
<1>8. buf[2] = [first EXCEPT !.half = 2]
  BY <1>6
<1> HIDE DEF first
<1> QED BY <1>1, <1>7, <1>8, WholeUnits

(* In a main file are pages. *)
LEMMA RightPage ==
  ASSUME TInv, stage = "read_main", Len(lbuf) >= 2, NEW lay \in Layouts, Layout(lay), Read(lay)
  PROVE  Whole(lbuf, "page")
<1>1. lbuf \in Seq(Unit) /\ Len(lbuf) \in Nat /\ Taken \in Nat /\ limit \in Nat
  BY DEF TInv, Buffers, Counters
<1>2. at \in DOMAIN db /\ stage \in Reading
  BY AtIs DEF Reading, Loading
<1>3. PICK s \in Nat, c \in Nat : s = lay.start[at] /\ c = lay.copied[at]
  BY <1>2, PlaceIs
<1>4. PICK k \in 0..c : Taken = s + 1 + 2 * k /\ Taken + Len(lbuf) + limit = s + 1 + 2 * c
  BY <1>3 DEF Read, Cursor, Limited
<1>5. k + 1 \in 1..c /\ Taken + 1 = s + 2 * (k + 1) /\ Taken + 2 = s + 2 * (k + 1) + 1
  <2>1. PICK t \in Nat, l \in Nat, m \in Nat : t = Taken /\ l = Len(lbuf) /\ m = limit
    BY <1>1
  <2>2. t = s + 1 + 2 * k /\ t + l + m = s + 1 + 2 * c /\ l >= 2
    BY <1>4, <2>1
  <2>3. k < c
    BY <2>2
  <2> QED BY <2>1, <2>2, <2>3
<1>6. lbuf[1] = out[Taken + 1] /\ lbuf[2] = out[Taken + 2]
  BY <1>1 DEF TInv, Buffers
<1>7. PICK data \in Data :
        /\ out[s + 2 * (k + 1)] = [type |-> "page", data |-> data, half |-> 1]
        /\ out[s + 2 * (k + 1) + 1] = [type |-> "page", data |-> data, half |-> 2]
  <2>1. PagesAt(lay, at, lay.copied[at])
    BY <1>2, PlaceIs
  <2> QED BY <1>3, <1>5, <2>1 DEF PagesAt
<1>8. lbuf[1] = [type |-> "page", data |-> data, half |-> 1]
      /\ lbuf[2] = [type |-> "page", data |-> data, half |-> 2]
  BY <1>5, <1>6, <1>7
<1> QED BY <1>1, <1>8, WholePage

(* A journal begins with its header. *)
LEMMA RightWal ==
  ASSUME TInv, stage = "read_wal", lbuf # <<>>, NEW lay \in Layouts, Layout(lay), Read(lay)
  PROVE  lbuf[1].type = "wal"
<1>1. lbuf \in Seq(Unit) /\ Len(lbuf) \in Nat /\ Len(lbuf) >= 1 /\ Taken \in Nat /\ limit \in Nat
  BY DEF TInv, Buffers, Counters
<1>2. at \in DOMAIN db /\ stage \in Reading
  BY AtIs DEF Reading, Loading
<1>3. PICK s \in Nat, c \in Nat, w \in Nat, next \in Nat :
        /\ s = lay.start[at] /\ c = lay.copied[at] /\ w = WalSize(at) /\ next = lay.start[at + 1]
        /\ next = s + 2 + 2 * c + w
  <2>1. /\ lay.start[at] \in Nat /\ lay.copied[at] \in Nat /\ WalSize(at) \in Nat
        /\ lay.start[at + 1] \in Nat
        /\ lay.start[at + 1] = lay.start[at] + 2 + 2 * lay.copied[at] + WalSize(at)
    BY <1>2, PlaceIs
  <2> QED BY <2>1
<1>4. Taken = s + 1 + 2 * c /\ Taken + Len(lbuf) + limit = next - 1
  BY <1>3 DEF Read, Cursor, Limited
<1>5. w >= 1 /\ Taken + 1 = s + 1 + 2 * c + 1
  <2>1. PICK t \in Nat, l \in Nat, m \in Nat : t = Taken /\ l = Len(lbuf) /\ m = limit
    BY <1>1
  <2>2. t = s + 1 + 2 * c /\ t + l + m = next - 1 /\ next = s + 2 + 2 * c + w /\ l >= 1
    BY <1>1, <1>3, <1>4, <2>1
  <2>3. w >= 1
    BY <2>2
  <2> QED BY <1>4, <2>3
<1>6. lbuf[1] = out[Taken + 1]
  BY <1>1 DEF TInv, Buffers
<1>7. out[s + 1 + 2 * c + 1] = WalUnits(at)[1]
  <2>1. WalAt(lay, at)
    BY <1>2, PlaceIs
  <2>2. 1 \in 1..w
    BY <1>5
  <2> QED BY <1>3, <2>1, <2>2 DEF WalAt
<1>8. WalUnits(at)[1] = [type |-> "wal"]
  <2>1. db[at].wal \in Seq(WalFrame)
    BY <1>2, DatabaseIs DEF TInv
  <2>2. w = WalSize(at) /\ w # 0
    BY <1>3, <1>5
  <2> QED BY <2>1, <2>2, WalUnitsAre
<1> QED BY <1>5, <1>6, <1>7, <1>8

(* Behind it are frames. *)
LEMMA RightFrame ==
  ASSUME TInv, stage = "read_frame", Len(lbuf) >= 3, NEW lay \in Layouts, Layout(lay), Read(lay)
  PROVE  lbuf[1].type = "frame" /\ Whole(Tail(lbuf), "page")
<1>1. lbuf \in Seq(Unit) /\ Len(lbuf) \in Nat
  BY DEF TInv, Buffers
<1>2. PICK e \in DOMAIN db : e = at
  BY AtIs DEF Loading
<1>3. PICK f \in 0..Len(db[e].wal) :
        /\ db[e].wal # <<>>
        /\ Taken = lay.start[e] + 1 + 2 * lay.copied[e] + 1 + 3 * f
        /\ Limited(lay.start[e + 1] - 1)
  BY <1>2 DEF Read, Cursor
<1>4. /\ lbuf[1] = [type |-> "frame", page |-> db[e].wal[f + 1].page]
      /\ lbuf[2] = [type |-> "page", data |-> db[e].wal[f + 1].data, half |-> 1]
      /\ lbuf[3] = [type |-> "page", data |-> db[e].wal[f + 1].data, half |-> 2]
  BY <1>2, <1>3, FrameIs
<1>5. /\ Tail(lbuf) \in Seq(Unit) /\ Len(Tail(lbuf)) >= 2
      /\ Tail(lbuf)[1] = lbuf[2] /\ Tail(lbuf)[2] = lbuf[3]
  BY <1>1
<1>6. Whole(Tail(lbuf), "page")
  BY <1>4, <1>5, WholePage
<1> QED BY <1>4, <1>6

(* Wherever reads end, what follows a header that was decoded goes to the loader
   first and the next header is looked for where the database ends: nothing is
   taken for what it is not, in any file whose headers are right. *)
THEOREM NotMisread == Spec => [](SizesMatch => NothingIsMisread)
<1>1. LInv => (SizesMatch => NothingIsMisread)
  <2> SUFFICES ASSUME LInv, SizesMatch PROVE NothingIsMisread
    OBVIOUS
  <2>1. TInv
    BY DEF LInv
  <2>2. CASE stage \in Reading
    <3>1. PICK lay \in Layouts : Layout(lay) /\ Followed(lay)
      BY <2>2 DEF LInv, Reading, Loading
    <3>2. Read(lay)
      BY <2>1, <2>2, <3>1, SizesMatchIs DEF Followed
    <3> QED BY <2>1, <3>1, <3>2, RightHeader, RightDatabase, RightPage, RightWal, RightFrame
            DEF NothingIsMisread
  <2>3. CASE stage \notin Reading
    BY <2>3 DEF NothingIsMisread, Reading, Loading
  <2> QED BY <2>2, <2>3
<1> QED BY <1>1, Layered, PTL

(* So nothing is misread where all files change the same way. *)
THEOREM NeverMisread == Spec /\ OneWay => []NothingIsMisread
<1>1. HeadersAreRight /\ (SizesMatch => NothingIsMisread) => NothingIsMisread
  BY DEF HeadersAreRight, NothingIsMisread
<1> QED BY <1>1, HeadersRight, NotMisread, PTL

-----------------------------------------------------------------------------
(* No stale frames follow those of the last reset. *)
FreshWals == \A d \in DOMAIN db : db[d].valid = Len(db[d].wal)

(* A journal does not change, nor what of it is valid. *)
LEMMA FreshStays ==
  ASSUME TInv, FreshWals, [Next]_vars
  PROVE  FreshWals'
<1>1. ASSUME NEW d \in DOMAIN db, Checkpoint(d) PROVE FreshWals'
  <2>1. /\ DOMAIN db' = DOMAIN db
        /\ \A e \in DOMAIN db : db'[e].wal = db[e].wal /\ db'[e].valid = db[e].valid
    BY <1>1, CheckpointIs DEF TInv
  <2> QED BY <2>1 DEF FreshWals
<1>2. ASSUME UNCHANGED db PROVE FreshWals'
  BY <1>2 DEF FreshWals
<1>3. CASE ReadStep
  BY <1>2, <1>3, ReadStepIs
<1>4. CASE WriteStep
  BY <1>2, <1>4 DEF WriteStep, AddSize, WriteHeader, WriteDatabaseHeader, BeginMain, WritePage,
                    WriteWal, FinishEncoder
<1> QED BY <1>1, <1>2, <1>3, <1>4 DEF Next, Fails, Ended, vars

(* A page that was loaded is the page SQLite reads. *)
LEMMA PageIsRead ==
  ASSUME TInv, stage = "done", FreshWals, NEW lay \in Layouts, Layout(lay), Read(lay),
         NEW d \in DOMAIN db, NEW p \in 1..db[d].size
  PROVE  p \in DOMAIN loaded[d] /\ loaded[d][p] = PageOf(d, p)
<1> DEFINE wal == db[d].wal
           frames == {f \in 1..db[d].valid : wal[f].page = p}
<1>1. /\ db[d].valid = Len(wal) /\ Len(wal) \in Nat /\ wal \in Seq(WalFrame)
      /\ DOMAIN db = 1..Len(db) /\ Len(db) \in Nat /\ db[d].size \in Nat
      /\ DOMAIN db[d].main = 1..Len(db[d].main)
  BY DatabaseIs DEF TInv, FreshWals
<1>2. FramesLoaded(lay, d, Len(wal))
  BY <1>1 DEF Read, Loaded, Loading
<1>3. stage \in Reading /\ Measured = Len(db) /\ Finished = Len(db)
  BY CompleteIs DEF Reading
<1>4. CASE frames # {}
  <2>1. frames \subseteq Nat /\ \A f \in frames : f <= Len(wal)
    BY <1>1
  <2>2. PICK m \in frames : m = Max(frames) /\ \A f \in frames : f <= m
    <3> HIDE DEF frames, wal
    <3> QED BY <1>1, <1>4, <2>1, MaxExists
  <2>3. m \in 1..Len(wal) /\ wal[m].page = p
    BY <1>1
  <2>4. \A h \in (m + 1)..Len(wal) : wal[h].page # wal[m].page
    <3>1. SUFFICES ASSUME NEW h \in (m + 1)..Len(wal), wal[h].page = p PROVE FALSE
      BY <2>3
    <3>2. h \in frames /\ ~(h <= m)
      BY <1>1, <2>3, <3>1
    <3> QED BY <2>2, <3>2
  <2>5. p \in DOMAIN loaded[d] /\ loaded[d][p] = wal[m].data
    BY <1>2, <2>3, <2>4 DEF FramesLoaded
  <2>6. PageOf(d, p) = wal[m].data
    BY <1>4, <2>2 DEF PageOf
  <2> QED BY <2>5, <2>6
<1>5. CASE frames = {}
  <2>1. p \in 1..db[d].size \ FramePages(d)
    BY <1>5 DEF FramePages
  <2>2. p \in 1..lay.copied[d]
    BY <1>1, <1>3, <2>1 DEF Layout, FilesAt
  <2>3. p \in DOMAIN loaded[d] /\ loaded[d][p] = DataAt(lay, d, p)
    <3>1. \A g \in 1..Len(wal) : wal[g].page # p
      BY <1>1, <1>5
    <3> QED BY <1>2, <2>2, <3>1 DEF FramesLoaded
  <2>4. DataAt(lay, d, p) = db[d].main[p]
    <3>1. PagesAt(lay, d, lay.copied[d])
      BY <1>3, PlaceIs
    <3>2. PICK data \in Data :
            /\ out[lay.start[d] + 2 * p] = [type |-> "page", data |-> data, half |-> 1]
            /\ p \in 1..db[d].size \ FramePages(d) => data = db[d].main[p]
      BY <2>2, <3>1 DEF PagesAt
    <3> QED BY <2>1, <3>2 DEF DataAt
  <2>5. PageOf(d, p) = db[d].main[p]
    BY <1>5 DEF PageOf
  <2> QED BY <2>3, <2>4, <2>5
<1> QED BY <1>4, <1>5

(* Every page of an attached database reads from the snapshot as SQLite read it,
   however far a checkpoint was between two pages of the copy, in any file whose
   headers are right, unless stale frames follow those of the last reset. *)
THEOREM SnapshotRead == Spec /\ FreshWals => [](SizesMatch => SnapshotIsDatabase)
<1>1. LInv /\ FreshWals => (SizesMatch => SnapshotIsDatabase)
  <2> SUFFICES ASSUME LInv, FreshWals, SizesMatch, stage = "done",
                      NEW d \in DOMAIN db, NEW p \in 1..db[d].size
               PROVE  p \in DOMAIN loaded[d] /\ loaded[d][p] = PageOf(d, p)
    BY DEF SnapshotIsDatabase
  <2>1. TInv /\ stage \in Reading
    BY DEF LInv, Reading
  <2>2. PICK lay \in Layouts : Layout(lay) /\ Followed(lay)
    BY DEF LInv
  <2>3. Read(lay)
    BY <2>1, <2>2, SizesMatchIs DEF Followed
  <2> QED BY <2>1, <2>2, <2>3, PageIsRead
<1>2. LInv /\ FreshWals /\ [Next]_vars => FreshWals'
  BY FreshStays DEF LInv
<1> QED BY <1>1, <1>2, Layered, PTL DEF Spec

(* So the snapshot is the database where all files change the same way too. *)
THEOREM SnapshotAlwaysRead == Spec /\ OneWay /\ FreshWals => []SnapshotIsDatabase
<1>1. HeadersAreRight /\ (SizesMatch => SnapshotIsDatabase) => SnapshotIsDatabase
  BY DEF HeadersAreRight, SnapshotIsDatabase
<1> QED BY <1>1, HeadersRight, SnapshotRead, PTL
=============================================================================
