----------------------------- MODULE SegmentFile ----------------------------
(***************************************************************************)
(* One segment file, word by word: what a node that runs, crashes and      *)
(* restarts leaves in it, or DqliteDirCreator writes, and what             *)
(* DqliteSegment (src/src/dqlite/mod.rs) reads from it.  LiveOpen takes a  *)
(* read of an open segment to be one step; here it is many, and the node   *)
(* writes between them.                                                    *)
(*                                                                         *)
(*   entry    [term, content |-> [type, value]]      (DqliteLogEntry)      *)
(*   batch    Seq(entry)                                                   *)
(*   raw      [term, type, data |-> Seq(word)]       (raft_entry)          *)
(***************************************************************************)
EXTENDS DqliteFolder, SequencesExt

CONSTANTS Logs,     \* what nodes write into one open segment: sequences of batches
          Lengths,  \* words of an open segment, which is prepared with zeros
          Inputs,   \* of DqliteDirCreator: [first_index, closed, open], with a
                    \* DqliteSegmentBuilder, a sequence of batches, for each segment
          Block,    \* words of a block
          Later,    \* types of commands that only a later dqlite knows
          Terms, Values

Command == {"open", "frames", "undo", "checkpoint"}
Content == [type : {"barrier"}, value : {0}] \cup [type : {"change"} \cup Command, value : Values]
Entry == [term : Terms, content : Content]

(* What raft may have in its log. *)
RaftContent == Content \cup [type : Later, value : Values]
RaftEntry == [term : Terms, content : RaftContent]
RaftBatch == Seq(RaftEntry) \ {<<>>}

(* What DqliteDirCreator may be given. *)
Batch == Seq(Entry) \ {<<>>}
Input == [first_index : Nat, closed : Seq(Seq(Batch) \ {<<>>}), open : Seq(Seq(Batch))]

(* raft does not append an empty batch and nobody gives one to add_batch;
   with_closed_segment asserts that a segment has a batch. *)
ASSUME SegmentAssumption ==
  /\ Logs \subseteq Seq(RaftBatch)
  /\ Inputs \subseteq Input
  /\ Later \cap ({"barrier", "change"} \cup Command) = {}
  /\ Block \in Nat /\ Block >= 2
  /\ \A n \in Lengths : n \in Nat /\ n >= 2

-----------------------------------------------------------------------------
(* The format.  A word is what its place makes of it; a checksum is the words
   it is the checksum of, and what is zero in a real file is Zero. *)
Zero == [kind |-> "zero"]
Format == [kind |-> "format"]

AllZero(words) == \A w \in DOMAIN words : words[w] = Zero

Zeros(n) == [w \in 1..n |-> Zero]

entry_type(content) ==
  IF content.type \in {"barrier", "change"} THEN content.type ELSE "command"

(* DqliteLogEntryContent::encode.  A barrier is a word of zeros, and so may be
   the pages of frames. *)
Encode(content) ==
  LET word == [kind |-> entry_type(content), type |-> content.type, value |-> content.value]
  IN CASE content.type = "barrier" -> <<Zero>>
       [] content.type = "frames" -> <<word, Zero>>
       [] OTHER -> <<word>>

Raw(entry) == [term |-> entry.term, type |-> entry_type(entry.content),
               data |-> Encode(entry.content)]

(* MUTANT of Parse: a command of any type is taken. *)
ParseAny(raw) ==
  CASE raw.type = "barrier" -> IF Len(raw.data) = 1 THEN {[type |-> "barrier", value |-> 0]} ELSE {}
    [] raw.type \in {"change", "command"} ->
         {[type |-> raw.data[1].type, value |-> raw.data[1].value]}
    [] OTHER -> {}

(* DqliteLogEntryContent::parse; no content where it is an error. *)
Parse(raw) ==
  CASE raw.type = "barrier" -> IF Len(raw.data) = 1 THEN {[type |-> "barrier", value |-> 0]} ELSE {}
    [] raw.type = "change" \/ (raw.type = "command" /\ raw.data[1].type \in Command) ->
         {[type |-> raw.data[1].type, value |-> raw.data[1].value]}
    [] OTHER -> {}

BatchWords(entries) ==
  LET batch == [e \in DOMAIN entries |-> Raw(entries[e])]
      header(raw) == [kind |-> "header", term |-> raw.term, type |-> raw.type,
                      length |-> Len(raw.data)]
      rest == <<[kind |-> "count", n |-> Len(batch)]>>
                \o [e \in DOMAIN batch |-> header(batch[e])]
                \o FlattenSeq([e \in DOMAIN batch |-> batch[e].data])
  IN <<[kind |-> "checksum", of |-> rest]>> \o rest

SegmentWords(batches) ==
  <<Format>> \o FlattenSeq([b \in DOMAIN batches |-> BatchWords(batches[b])])

(* A segment to be written: its batches, the words of all of them, and for each
   batch where it ends. *)
Segment(batches) ==
  [batches |-> batches,
   words |-> SegmentWords(batches),
   ends |-> [b \in DOMAIN batches |-> Len(SegmentWords(SubSeq(batches, 1, b)))]]

Used(segment, k) == IF k = 0 THEN 1 ELSE segment.ends[k]

Padding(n) == (-n) % Block

-----------------------------------------------------------------------------
VARIABLES
  segments, \* of each file: what its writer has for it
  files,    \* on disk: [kind, first, end, words]
  begun,    \* node: batches it has begun to write
  up,       \* node: it runs
  todo,     \* creator: [first_index, closed, open] that is left
  handle,   \* the file the reader has open, 0 for none
  as,       \* the kind it had when it was opened
  pos,      \* of the handle
  buf, offset, loaded,  \* of load_segment_file
  phase,    \* what the reader is doing
  start,    \* whole batches in the file when this read began
  torn      \* there was a part of a batch in the file since then

writing == <<segments, files, begun, up, todo>>
reading == <<handle, as, pos, buf, offset, loaded, phase, start, torn>>
vars == <<writing, reading>>

NothingLeft == [first_index |-> 0, closed |-> <<>>, open |-> <<>>]

(* A node with a log to write, or a creator with its input. *)
Init ==
  /\ \/ /\ \E log \in Logs : segments = <<Segment(log)>>
        /\ up = TRUE /\ todo = NothingLeft
     \/ /\ todo \in Inputs
        /\ up = FALSE /\ segments = <<>>
  /\ files = <<>> /\ begun = 0
  /\ handle = 0 /\ as = "none" /\ pos = 0
  /\ buf = <<>> /\ offset = 0 /\ loaded = <<>>
  /\ phase = "none" /\ start = 0 /\ torn = FALSE

(* Leading batches of the file all of whose words are on disk. *)
IsWhole(f, k) ==
  LET used == 1..Used(segments[f], k)
  IN /\ used \subseteq DOMAIN files[f].words
     /\ \A w \in used : files[f].words[w] = segments[f].words[w]

Whole(f) == Max({0} \cup {k \in DOMAIN segments[f].ends : IsWhole(f, k)})

(* Words of the file that no whole batch accounts for. *)
IsTorn(f) ==
  \E w \in DOMAIN files[f].words :
    /\ files[f].words[w] # Zero
    /\ w > Used(segments[f], Whole(f))

-----------------------------------------------------------------------------
(* The node.  raft makes an open segment, extends it to its full length, and
   then writes one batch at a time over the zeros; the words of a batch reach the
   file in any order. *)
NodeStep == UNCHANGED <<segments, todo, handle, as, pos, buf, offset, loaded, phase, start>>

CreateSegment ==
  /\ up /\ files = <<>>
  /\ files' = <<[kind |-> "open", first |-> 0, end |-> 0, words |-> <<>>]>>
  /\ UNCHANGED <<begun, up, torn>>
  /\ NodeStep

Extend ==
  /\ up /\ files # <<>>
  /\ files[1].kind = "open" /\ files[1].words = <<>>
  /\ \E n \in Lengths : files' = [files EXCEPT ![1].words = Zeros(n)]
  /\ UNCHANGED <<begun, up, torn>>
  /\ NodeStep

BeginBatch ==
  /\ up /\ files # <<>>
  /\ files[1].kind = "open"
  /\ begun < Len(segments[1].batches) /\ Whole(1) = begun
  /\ Used(segments[1], begun + 1) <= Len(files[1].words)
  /\ begun' = begun + 1
  /\ UNCHANGED <<files, up, torn>>
  /\ NodeStep

WriteWord ==
  /\ up /\ files # <<>>
  /\ Whole(1) < begun
  /\ \E w \in 1..Used(segments[1], begun) :
       /\ files[1].words[w] # segments[1].words[w]
       /\ files' = [files EXCEPT ![1].words[w] = segments[1].words[w]]
  /\ torn' = (torn \/ phase = "reading")
  /\ UNCHANGED <<begun, up>>
  /\ NodeStep

(* The segment is full or a snapshot closes it: the file is cut behind the last
   batch and renamed; who has it open keeps it. *)
Finalize ==
  /\ up /\ files # <<>>
  /\ files[1].kind = "open"
  /\ begun > 0 /\ Whole(1) = begun
  /\ files' = [files EXCEPT ![1].kind = "closed",
                            ![1].words = SubSeq(@, 1, Used(segments[1], begun))]
  /\ UNCHANGED <<begun, up, torn>>
  /\ NodeStep

Crash ==
  /\ up
  /\ up' = FALSE
  /\ UNCHANGED <<files, begun, torn>>
  /\ NodeStep

(* raft drops the part of a batch it finds and closes the segment.  A file without
   a whole batch is of no use to it, nor to the properties. *)
Restart ==
  /\ ~up /\ files # <<>>
  /\ begun > 0 /\ files[1].kind = "open" /\ Whole(1) > 0
  /\ up' = TRUE
  /\ begun' = Whole(1)
  /\ files' = [files EXCEPT ![1].kind = "closed",
                            ![1].words = SubSeq(@, 1, Used(segments[1], Whole(1)))]
  /\ UNCHANGED torn
  /\ NodeStep

-----------------------------------------------------------------------------
(* DqliteSegmentBuilder. *)
add_batch(builder, entries) == Append(builder, entries)

add_entries(builder, entries) == builder \o [e \in DOMAIN entries |-> <<entries[e]>>]

(* DqliteDirCreator::write_segments: closed segments are named after the number
   of their batches, write_segment pads each file with zeros to a block. *)
Padded(segment) == segment.words \o Zeros(Padding(Len(segment.words)))

(* MUTANT of WriteClosed: the next segment gets the index of the last entry. *)
WriteClosedAgain ==
  /\ todo.closed # <<>>
  /\ LET segment == Segment(Head(todo.closed))
         last_index == todo.first_index + Len(Head(todo.closed)) - 1
     IN /\ files' = Append(files, [kind |-> "closed", first |-> todo.first_index,
                                   end |-> last_index, words |-> Padded(segment)])
        /\ segments' = Append(segments, segment)
        /\ todo' = [todo EXCEPT !.first_index = last_index, !.closed = Tail(@)]
  /\ UNCHANGED <<begun, up, reading>>

WriteClosed ==
  /\ todo.closed # <<>>
  /\ LET segment == Segment(Head(todo.closed))
         last_index == todo.first_index + Len(Head(todo.closed)) - 1
     IN /\ files' = Append(files, [kind |-> "closed", first |-> todo.first_index,
                                   end |-> last_index, words |-> Padded(segment)])
        /\ segments' = Append(segments, segment)
        /\ todo' = [todo EXCEPT !.first_index = last_index + 1, !.closed = Tail(@)]
  /\ UNCHANGED <<begun, up, reading>>

WriteOpen ==
  /\ todo.closed = <<>> /\ todo.open # <<>>
  /\ LET segment == Segment(Head(todo.open))
     IN /\ files' = Append(files, [kind |-> "open", first |-> 0, end |-> 0,
                                   words |-> Padded(segment)])
        /\ segments' = Append(segments, segment)
  /\ todo' = [todo EXCEPT !.open = Tail(@)]
  /\ UNCHANGED <<begun, up, reading>>

Written == todo.closed = <<>> /\ todo.open = <<>>

-----------------------------------------------------------------------------
(* The reader.  DqliteSegment::open reads an open segment at once and of a closed
   one only keeps the handle, for each later call of entries. *)
ReaderStep == UNCHANGED writing

OpenSegment ==
  /\ phase = "none" /\ Written
  /\ \E f \in DOMAIN files : handle' = f /\ as' = files[f].kind
  /\ phase' = IF as' = "open" THEN "seek" ELSE "opened"
  /\ UNCHANGED <<pos, buf, offset, loaded, start, torn>>
  /\ ReaderStep

Entries ==
  /\ phase \in {"opened", "ok", "error"} /\ as = "closed"
  /\ phase' = "seek"
  /\ UNCHANGED <<handle, as, pos, buf, offset, loaded, start, torn>>
  /\ ReaderStep

(* MUTANT of Seek: the handle is read from where it is. *)
SeekNot ==
  /\ phase = "seek"
  /\ buf' = <<>> /\ offset' = 0 /\ loaded' = <<>>
  /\ phase' = "reading"
  /\ start' = Whole(handle) /\ torn' = IsTorn(handle)
  /\ UNCHANGED <<handle, as, pos>>
  /\ ReaderStep

Seek ==
  /\ phase = "seek"
  /\ pos' = 0
  /\ buf' = <<>> /\ offset' = 0 /\ loaded' = <<>>
  /\ phase' = "reading"
  /\ start' = Whole(handle) /\ torn' = IsTorn(handle)
  /\ UNCHANGED <<handle, as>>
  /\ ReaderStep

Words == files[handle].words

(* read_to_end: as many words at a time as there are, to the end the file then
   has. *)
ReadWords ==
  /\ phase = "reading"
  /\ \E p \in (pos + 1)..Len(Words) :
       /\ buf' = buf \o SubSeq(Words, pos + 1, p)
       /\ pos' = p
  /\ UNCHANGED <<handle, as, offset, loaded, phase, start, torn>>
  /\ ReaderStep

EndOfFile ==
  /\ phase = "reading"
  /\ pos >= Len(Words)
  /\ phase' = "format"
  /\ UNCHANGED <<handle, as, pos, buf, offset, loaded, start, torn>>
  /\ ReaderStep

Result(p) ==
  /\ phase' = p
  /\ UNCHANGED <<handle, as, pos, buf, start, torn>>
  /\ ReaderStep

CheckFormat ==
  /\ phase = "format"
  /\ \/ AllZero(buf) /\ Result("ok") /\ UNCHANGED offset
     \/ ~AllZero(buf) /\ buf[1] = Zero /\ Result("error") /\ UNCHANGED offset
     \/ buf # <<>> /\ buf[1] = Format /\ Result("batches") /\ offset' = 1
  /\ UNCHANGED loaded

(* uvLoadEntriesBatch, which cannot even read the start of a batch where less
   than two words are left. *)
Short == Len(buf) - offset < 2

Corrupt ==
  /\ ~Short
  /\ LET rest == SubSeq(buf, offset + 2, Len(buf))
         checksum == buf[offset + 1]
     IN ~(/\ checksum # Zero /\ checksum.kind = "checksum"
          /\ Len(checksum.of) <= Len(rest)
          /\ SubSeq(rest, 1, Len(checksum.of)) = checksum.of)

n_entries == buf[offset + 2].n

(* Where the data of the first e entries of the batch at the offset ends. *)
DataEnd[e \in 0..n_entries] ==
  IF e = 0 THEN offset + 2 + n_entries
  ELSE DataEnd[e - 1] + buf[offset + 2 + e].length

(* The entries of the batch at the offset, and where it ends. *)
RawEntries ==
  LET header(e) == buf[offset + 2 + e]
  IN [e \in 1..n_entries |->
        [term |-> header(e).term, type |-> header(e).type,
         data |-> SubSeq(buf, DataEnd[e - 1] + 1, DataEnd[e])]]

AfterBatch == offset + 1 + Len(buf[offset + 1].of)

(* MUTANTS of CorruptBatch: whatever follows is taken for padding; padding is
   taken for damage; a part of a batch is waited for. *)
CorruptEnds ==
  /\ phase = "batches" /\ Corrupt
  /\ Result("ok")
  /\ UNCHANGED <<offset, loaded>>

CorruptFails ==
  /\ phase = "batches" /\ Corrupt
  /\ Result("error")
  /\ UNCHANGED <<offset, loaded>>

CorruptWaits ==
  /\ phase = "batches" /\ Corrupt
  /\ IF AllZero(SubSeq(buf, offset + 1, Len(buf))) THEN Result("ok") ELSE Result("seek")
  /\ UNCHANGED <<offset, loaded>>

CorruptBatch ==
  /\ phase = "batches" /\ Corrupt
  /\ IF AllZero(SubSeq(buf, offset + 1, Len(buf))) THEN Result("ok") ELSE Result("error")
  /\ UNCHANGED <<offset, loaded>>

ShortBatch ==
  /\ phase = "batches" /\ Short
  /\ Result("error")
  /\ UNCHANGED <<offset, loaded>>

LoadBatch ==
  /\ phase = "batches" /\ ~Short /\ ~Corrupt
  /\ offset' = AfterBatch
  /\ IF \A e \in DOMAIN RawEntries : Parse(RawEntries[e]) # {}
     THEN /\ loaded' = loaded \o [e \in DOMAIN RawEntries |->
                         [term |-> RawEntries[e].term,
                          content |-> CHOOSE c \in Parse(RawEntries[e]) : TRUE]]
          /\ Result(IF AfterBatch = Len(buf) THEN "ok" ELSE "batches")
     ELSE Result("error") /\ UNCHANGED loaded

-----------------------------------------------------------------------------
ReadStep ==
  \/ Seek \/ ReadWords \/ EndOfFile \/ CheckFormat
  \/ CorruptBatch \/ ShortBatch \/ LoadBatch

WriteStep ==
  \/ CreateSegment \/ Extend \/ BeginBatch \/ WriteWord \/ Finalize \/ Crash \/ Restart
  \/ WriteClosed \/ WriteOpen

Ended == phase \in {"none", "ok", "error"} /\ UNCHANGED vars

Next == ReadStep \/ OpenSegment \/ Entries \/ WriteStep \/ Ended

Spec == Init /\ [][Next]_vars

(* The reader is code that runs; nothing is asked of the node. *)
FairSpec == Spec /\ WF_vars(ReadStep)

-----------------------------------------------------------------------------
(* Every variable keeps to its type; in particular only entries the tool knows
   are ever loaded. *)
TypeOK ==
  /\ \A f \in DOMAIN files : files[f].kind \in {"open", "closed"}
  /\ Len(files) <= Len(segments)
  /\ begun \in Nat /\ up \in BOOLEAN /\ torn \in BOOLEAN
  /\ handle \in 0..Len(files) /\ as \in {"none", "open", "closed"}
  /\ pos \in Nat /\ offset \in 0..Len(buf) /\ start \in Nat
  /\ loaded \in Seq(Entry)
  /\ phase \in {"none", "opened", "seek", "reading", "format", "batches", "ok", "error"}

(* The entries of the first k batches of a file. *)
EntriesOf(f, k) == FlattenSeq(SubSeq(segments[f].batches, 1, k))

(* A read that succeeds is as if the file had been read at one moment: it yields
   whole batches, all that were in the file when it began, in their order, however
   often the same handle was read before and whatever the node writes, cuts or
   leaves half done meanwhile. *)
ReadIsAtomic ==
  phase = "ok" => \E k \in start..Whole(handle) : loaded = EntriesOf(handle, k)

(* A read that got a part of a batch, from a node that was writing it or that
   crashed, never succeeds with the entries before it: of every batch it saw all
   words or nothing. *)
TornIsRefused ==
  phase = "ok" =>
    \A b \in DOMAIN segments[handle].ends :
      LET seen == (Used(segments[handle], b - 1) + 1)..Used(segments[handle], b)
          wanted == segments[handle].words
      IN \/ \A w \in seen : w \in DOMAIN buf /\ buf[w] = wanted[w]
         \/ \A w \in seen \cap DOMAIN buf : buf[w] = Zero

(* A file at rest is refused only for a reason: an entry of a type the tool does
   not know, or one word of zeros behind the last batch, too few for the start of
   another. *)
RefusedForAReason ==
  phase = "error" =>
    \/ torn
    \/ \E e \in DOMAIN EntriesOf(handle, Whole(handle)) :
         EntriesOf(handle, Whole(handle))[e] \notin Entry
    \/ Len(buf) = Used(segments[handle], Whole(handle)) + 1

(* The folder DqliteDirCreator has written so far, as DqliteDir::open would find
   it. *)
WrittenFolder ==
  [snapshots |-> <<>>,
   segments |-> [f \in DOMAIN files |->
                   [kind |-> files[f].kind, first |-> files[f].first, end |-> files[f].end,
                    entries |-> FlattenSeq(segments[f].batches)]]]

OneEntryEach(f) == \A b \in DOMAIN segments[f].batches : Len(segments[f].batches[b]) = 1

(* The names that closed segments get from the number of their batches join up,
   and as long as every batch has one entry they are the indexes that raft and
   the readers give the entries inside. *)
NamesCountEntries ==
  ~up /\ begun = 0 =>
    LET closed == {f \in DOMAIN files : files[f].kind = "closed"}
    IN /\ \A f, g \in closed : g = f + 1 => files[g].first = files[f].end + 1
       /\ (\A f \in closed : OneEntryEach(f)) => NamedRight(WrittenFolder)

(* A read comes to an end, although the node goes on. *)
ReadingEnds == (phase = "seek") ~> (phase \in {"ok", "error"})
=============================================================================
