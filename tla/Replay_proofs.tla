---------------------------- MODULE Replay_proofs ----------------------------
(***************************************************************************)
(* Proofs that the rows the loader of DqliteVfs writes are what the files  *)
(* say.  First the numbers of the entries: the loader counts forwards from *)
(* the oldest snapshot, current_index adds up segments, .log counts        *)
(* backwards from it, and all of them agree with raft (LogInv).  Then what *)
(* is at an index: the rows of dqlite_transaction (RowInv), of the         *)
(* snapshot (SnapshotInv) and of raft_configuration (ConfigurationInv),    *)
(* from which it follows that what is served at every index is the replay  *)
(* of the snapshot and the log, and that .log and .config show the same.   *)
(***************************************************************************)
EXTENDS Inspect, DqliteVfs_proofs

(* The names of the closed segments are right, and the code starts counting
   where raft does. *)
Numbered ==
  /\ NamedRight(folder)
  /\ folder.segments # <<>> => FirstIndex(folder) = RaftStart(folder)

Number(s, e) == RaftIndex(folder, s, e)
Entry(s, e) == folder.segments[s].entries[e]

(* The cursor of load_segments_from is at the entry that raft numbers index. *)
AtCursor ==
  /\ seg \in 1..(Len(folder.segments) + 1)
  /\ ent \in 0..(IF seg \in DOMAIN folder.segments THEN Len(folder.segments[seg].entries) ELSE 0)
  /\ ent > 0 => ~Skipped
  /\ folder.segments # <<>> => index = Number(seg, ent + 1)
  /\ index \notin raft_log => frm = 0

(* The rows of raft_log are the entries behind the snapshot and before the
   cursor, and maybe the one it is at. *)
LogRows ==
  /\ \A i \in raft_log : RaftStart(folder) <= i /\ i <= index
  /\ \A i \in Nat : first_index < i /\ RaftStart(folder) <= i /\ i < index => i \in raft_log
  /\ index \in raft_log =>
       seg \in DOMAIN folder.segments /\ ent < Len(folder.segments[seg].entries)

LogInv ==
  /\ stage \in {"start", "snapshot"} => seg = 1 /\ ent = 0 /\ frm = 0
  /\ stage \in {"segments", "serving"} /\ Numbered =>
       AtCursor /\ (IF folder.segments = <<>> THEN raft_log = {} ELSE LogRows)
  /\ stage \in {"segments", "serving"} =>
       IF HasSnapshot THEN first_index = folder.snapshots[1].index
       ELSE first_index = 1 /\ FirstIndex(folder) = 1
  /\ stage = "serving" => seg = Len(folder.segments) + 1 /\ last_index = CurrentIndex(folder)

-----------------------------------------------------------------------------
(* The numbers raft gives, segment by segment. *)
LEMMA Shape ==
  ASSUME folder \in Folders
  PROVE  /\ folder.segments \in Seq(Range(folder.segments))
         /\ Len(folder.segments) \in Nat /\ DOMAIN folder.segments = 1..Len(folder.segments)
         /\ \A s \in DOMAIN folder.segments :
              /\ Len(folder.segments[s].entries) \in Nat
              /\ DOMAIN folder.segments[s].entries = 1..Len(folder.segments[s].entries)
         /\ \E E : \A segment \in Range(folder.segments) : segment.entries \in Seq(E)
<1>1. folder.segments \in Seq(Range(folder.segments))
  BY FolderAssumption
<1>2. Len(folder.segments) \in Nat /\ DOMAIN folder.segments = 1..Len(folder.segments)
  BY <1>1
<1>3. ASSUME NEW s \in DOMAIN folder.segments
      PROVE  /\ Len(folder.segments[s].entries) \in Nat
             /\ DOMAIN folder.segments[s].entries = 1..Len(folder.segments[s].entries)
  BY SegmentFacts
<1> DEFINE E == UNION {Range(folder.segments[s].entries) : s \in DOMAIN folder.segments}
<1>4. ASSUME NEW segment \in Range(folder.segments) PROVE segment.entries \in Seq(E)
  <2>1. PICK s \in DOMAIN folder.segments : segment = folder.segments[s]
    BY DEF Range
  <2>2. segment.entries \in Seq(Range(segment.entries))
    BY <2>1, SegmentFacts
  <2>3. Range(segment.entries) \subseteq E
    BY <2>1
  <2> HIDE DEF E
  <2> QED BY <2>2, <2>3
<1> QED BY <1>1, <1>2, <1>3, <1>4

(* How the numbers go on within a segment and from one to the next. *)
LEMMA NumberFacts ==
  ASSUME folder \in Folders
  PROVE  /\ \A s \in 1..(Len(folder.segments) + 1) :
              /\ Number(s, 1) \in Nat
              /\ \A e \in Nat : Number(s, e) = Number(s, 1) + e - 1
         /\ \A s \in DOMAIN folder.segments :
              Number(s + 1, 1) = Number(s, 1) + Len(folder.segments[s].entries)
         /\ Number(1, 1) = RaftStart(folder)
         /\ \A s \in DOMAIN folder.segments, t \in 1..(Len(folder.segments) + 1) :
              s < t => Number(s + 1, 1) <= Number(t, 1)
<1> DEFINE F == folder.segments
           start == RaftStart(folder)
           Count(s) == NumEntries(SubSeq(F, 1, s))
<1>1. /\ F \in Seq(Range(F)) /\ Len(F) \in Nat /\ DOMAIN F = 1..Len(F)
      /\ \A s \in DOMAIN F : Len(F[s].entries) \in Nat
  BY Shape
<1>2. PICK E : \A segment \in Range(F) : segment.entries \in Seq(E)
  BY Shape
<1>3. start \in Nat
  <2>1. CASE F # <<>> /\ IsClosed(F[1])
    BY <2>1, <1>1, SegmentFacts DEF RaftStart
  <2>2. CASE ~(F # <<>> /\ IsClosed(F[1]))
    <3>1. CASE folder.snapshots = <<>>
      BY <2>2, <3>1 DEF RaftStart
    <3>2. CASE folder.snapshots # <<>>
      <4>1. Len(folder.snapshots) \in DOMAIN folder.snapshots
        BY <3>2, FolderAssumption
      <4>2. folder.snapshots[Len(folder.snapshots)].index \in Nat
        BY <4>1, FolderAssumption, IndexAssumption
      <4> QED BY <2>2, <3>2, <4>2 DEF RaftStart
    <3> QED BY <3>1, <3>2
  <2> QED BY <2>1, <2>2
<1>4. ASSUME NEW s \in 0..Len(F) PROVE Count(s) \in Nat
  <2>1. SubSeq(F, 1, s) \in Seq(Range(F))
    BY <1>1
  <2> HIDE DEF F
  <2> QED BY <1>2, <2>1, PlacesAreFinite
<1>5. ASSUME NEW s \in DOMAIN F PROVE Count(s) = Count(s - 1) + Len(F[s].entries)
  <2> HIDE DEF F
  <2> QED BY <1>1, <1>2, EntriesBefore
<1>6. Count(0) = 0
  <2>1. SubSeq(F, 1, 0) = <<>>
    BY <1>1
  <2> QED BY <2>1, NoEntries
<1>7. ASSUME NEW s \in DOMAIN F, NEW t \in 1..(Len(F) + 1), s < t PROVE Count(s) <= Count(t - 1)
  <2>1. t - 1 \in 0..Len(F) /\ s \in 0..(t - 1)
    BY <1>1, <1>7
  <2> HIDE DEF F
  <2> QED BY <1>1, <1>2, <2>1, EntriesGrow
<1>8. \A s, e : Number(s, e) = start + Count(s - 1) + e - 1
  BY DEF Number, RaftIndex
<1> HIDE DEF F, start, Count
<1>9. ASSUME NEW s \in 1..(Len(F) + 1)
      PROVE  /\ Number(s, 1) \in Nat
             /\ \A e \in Nat : Number(s, e) = Number(s, 1) + e - 1
  <2>1. s - 1 \in 0..Len(F)
    BY <1>1
  <2>2. Count(s - 1) \in Nat
    BY <2>1, <1>4
  <2> DEFINE c == start + Count(s - 1)
  <2>3. c \in Nat
    BY <1>3, <2>2
  <2>4. \A e : Number(s, e) = c + e - 1
    BY <1>8
  <2> HIDE DEF c
  <2>5. Number(s, 1) = c + 1 - 1
    BY <2>4
  <2>6. Number(s, 1) = c
    BY <2>3, <2>5
  <2> QED BY <2>3, <2>4, <2>6
<1>10. ASSUME NEW s \in DOMAIN F
       PROVE  Number(s + 1, 1) = start + Count(s) /\ Number(s, 1) = start + Count(s - 1)
  <2>1. /\ Number(s + 1, 1) = start + Count((s + 1) - 1) + 1 - 1
        /\ Number(s, 1) = start + Count(s - 1) + 1 - 1
    BY <1>8
  <2>2. (s + 1) - 1 = s /\ s \in 0..Len(F) /\ s - 1 \in 0..Len(F)
    BY <1>1
  <2> QED BY <1>3, <1>4, <2>1, <2>2
<1>11. ASSUME NEW s \in DOMAIN F
       PROVE  Number(s + 1, 1) = Number(s, 1) + Len(F[s].entries)
  <2>1. s - 1 \in 0..Len(F)
    BY <1>1
  <2>2. Count(s - 1) \in Nat
    BY <2>1, <1>4
  <2> QED BY <1>1, <1>3, <1>5, <1>10, <2>2
<1>12. Number(1, 1) = start
  <2>1. Number(1, 1) = start + Count(1 - 1) + 1 - 1
    BY <1>8
  <2>2. 1 - 1 = 0
    OBVIOUS
  <2> QED BY <1>3, <1>6, <2>1, <2>2
<1>13. ASSUME NEW s \in DOMAIN F, NEW t \in 1..(Len(F) + 1), s < t
       PROVE  Number(s + 1, 1) <= Number(t, 1)
  <2>1. Number(t, 1) = start + Count(t - 1) + 1 - 1
    BY <1>8
  <2>2. t - 1 \in 0..Len(F) /\ s \in 0..Len(F)
    BY <1>1
  <2>3. Count(t - 1) \in Nat /\ Count(s) \in Nat
    BY <2>2, <1>4
  <2>4. Count(s) <= Count(t - 1)
    BY <1>7, <1>13
  <2> QED BY <1>3, <1>10, <2>1, <2>3, <2>4
<1> QED BY <1>9, <1>11, <1>12, <1>13 DEF F, start

(* No two entries have the same number, and what the loader has behind it has
   lower ones than what comes. *)
LEMMA EntryNumbers ==
  ASSUME folder \in Folders,
         NEW s \in DOMAIN folder.segments, NEW e \in DOMAIN folder.segments[s].entries
  PROVE  /\ s \in Nat /\ e \in Nat \ {0} /\ e <= Len(folder.segments[s].entries)
         /\ Number(s, e) = Number(s, 1) + e - 1 /\ Number(s, 1) \in Nat
         /\ Number(s, e) < Number(s + 1, 1)
         /\ \A t \in 1..(Len(folder.segments) + 1) :
              s < t => Number(s, e) < Number(t, 1)
<1>1. /\ s \in 1..Len(folder.segments) /\ Len(folder.segments) \in Nat
      /\ e \in 1..Len(folder.segments[s].entries) /\ Len(folder.segments[s].entries) \in Nat
  BY Shape
<1>2. s \in 1..(Len(folder.segments) + 1) /\ s + 1 \in 1..(Len(folder.segments) + 1)
  BY <1>1
<1>3. Number(s, 1) \in Nat /\ Number(s, e) = Number(s, 1) + e - 1 /\ Number(s + 1, 1) \in Nat
  BY <1>1, <1>2, NumberFacts
<1>4. Number(s + 1, 1) = Number(s, 1) + Len(folder.segments[s].entries)
  BY NumberFacts
<1>5. Number(s, e) < Number(s + 1, 1)
  BY <1>1, <1>3, <1>4
<1>6. ASSUME NEW t \in 1..(Len(folder.segments) + 1), s < t
      PROVE  Number(s, e) < Number(t, 1)
  <2>1. Number(s + 1, 1) <= Number(t, 1) /\ Number(t, 1) \in Nat
    BY <1>6, NumberFacts
  <2> QED BY <1>1, <1>3, <1>5, <2>1
<1> QED BY <1>1, <1>3, <1>5, <1>6

(* No two entries have the same number. *)
LEMMA NumbersDiffer ==
  ASSUME folder \in Folders,
         NEW s \in DOMAIN folder.segments, NEW e \in DOMAIN folder.segments[s].entries,
         NEW t \in DOMAIN folder.segments, NEW d \in DOMAIN folder.segments[t].entries,
         Number(s, e) = Number(t, d)
  PROVE  s = t /\ e = d
<1>1. /\ s \in Nat /\ t \in Nat /\ s \in 1..(Len(folder.segments) + 1)
      /\ t \in 1..(Len(folder.segments) + 1)
  BY Shape
<1>2. /\ Number(s, e) = Number(s, 1) + e - 1 /\ Number(s, 1) \in Nat /\ e \in Nat \ {0}
      /\ s < t => Number(s, e) < Number(t, 1)
  BY <1>1, EntryNumbers
<1>3. /\ Number(t, d) = Number(t, 1) + d - 1 /\ Number(t, 1) \in Nat /\ d \in Nat \ {0}
      /\ t < s => Number(t, d) < Number(s, 1)
  BY <1>1, EntryNumbers
<1> DEFINE a == Number(s, 1)
           b == Number(t, 1)
<1>4. a \in Nat /\ b \in Nat /\ a + e - 1 = b + d - 1
  BY <1>2, <1>3
<1>5. s < t => a + e - 1 < b
  BY <1>2
<1>6. t < s => b + d - 1 < a
  BY <1>3
<1>7. e \in Nat \ {0} /\ d \in Nat \ {0}
  BY <1>2, <1>3
<1> HIDE DEF a, b
<1>8. ~(s < t) /\ ~(t < s)
  BY <1>4, <1>5, <1>6, <1>7
<1>9. s = t
  BY <1>1, <1>8
<1>10. a = b
  BY <1>9 DEF a, b
<1> QED BY <1>4, <1>7, <1>9, <1>10

(* An entry with a greater number comes later. *)
LEMMA NumbersOrdered ==
  ASSUME folder \in Folders,
         NEW s \in DOMAIN folder.segments, NEW e \in DOMAIN folder.segments[s].entries,
         NEW t \in DOMAIN folder.segments, NEW d \in DOMAIN folder.segments[t].entries,
         Number(s, e) <= Number(t, d)
  PROVE  t > s \/ (t = s /\ d >= e)
<1> DEFINE a == Number(s, 1)
           b == Number(t, 1)
           m == Number(s, e)
           n == Number(t, d)
<1>1. /\ m = a + e - 1 /\ n = b + d - 1 /\ m <= n
      /\ a \in Nat /\ b \in Nat /\ e \in Nat \ {0} /\ d \in Nat \ {0} /\ s \in Nat /\ t \in Nat
  BY EntryNumbers
<1>2. t < s => n < a
  <2>1. s \in 1..(Len(folder.segments) + 1)
    BY Shape
  <2> QED BY <2>1, EntryNumbers
<1>3. s = t => a = b
  OBVIOUS
<1> HIDE DEF a, b, m, n
<1>4. ~(t < s)
  BY <1>1, <1>2
<1>5. t = s => d >= e
  BY <1>1, <1>3
<1> QED BY <1>1, <1>4, <1>5

(* No entry comes before the number raft starts from. *)
LEMMA StartsFirst ==
  ASSUME folder \in Folders,
         NEW s \in DOMAIN folder.segments, NEW e \in DOMAIN folder.segments[s].entries
  PROVE  RaftStart(folder) <= Number(s, e) /\ RaftStart(folder) \in Nat
<1>1. /\ 1 \in 1..(Len(folder.segments) + 1) /\ s \in 1..(Len(folder.segments) + 1) /\ 1 <= s
  BY Shape
<1>2. /\ Number(1, 1) = RaftStart(folder) /\ Number(1, 1) \in Nat
      /\ Number(1, 1) <= Number(s, 1) /\ Number(s, 1) \in Nat
  <2>1. Number(1, 1) = RaftStart(folder) /\ Number(1, 1) \in Nat /\ Number(s, 1) \in Nat
    BY <1>1, NumberFacts
  <2>2. CASE s = 1
    BY <2>1, <2>2
  <2>3. CASE s # 1
    <3>1. 1 \in DOMAIN folder.segments /\ s \in Nat /\ 1 < s
      BY <1>1, <2>3, Shape
    <3>2. /\ Number(1 + 1, 1) = Number(1, 1) + Len(folder.segments[1].entries)
          /\ Number(1 + 1, 1) <= Number(s, 1) /\ Len(folder.segments[1].entries) \in Nat
      BY <1>1, <3>1, NumberFacts, Shape
    <3> DEFINE start == Number(1, 1)
               second == Number(1 + 1, 1)
               first == Number(s, 1)
               size == Len(folder.segments[1].entries)
    <3>3. /\ second = start + size /\ second <= first
          /\ start \in Nat /\ first \in Nat /\ size \in Nat
      BY <2>1, <3>2
    <3> HIDE DEF start, second, first, size
    <3>4. start <= first
      BY <3>3
    <3> QED BY <2>1, <3>4 DEF start, first
  <2> QED BY <2>1, <2>2, <2>3
<1>3. Number(s, e) = Number(s, 1) + e - 1 /\ e \in Nat \ {0}
  BY EntryNumbers
<1> DEFINE first == Number(s, 1)
           start == RaftStart(folder)
           i == Number(s, e)
<1>4. start <= first /\ first \in Nat /\ start \in Nat /\ i = first + e - 1
  BY <1>2, <1>3
<1> HIDE DEF i, first, start
<1>5. start <= i
  BY <1>3, <1>4
<1> QED BY <1>4, <1>5 DEF start, i

-----------------------------------------------------------------------------
(* The steps of load_segments_from. *)
LEMMA SegmentPosition ==
  ASSUME IInv, AtCursor, AtSegment
  PROVE  /\ folder \in Folders /\ {seg, ent, frm, index, first_index} \subseteq Nat
         /\ seg \in DOMAIN folder.segments /\ folder.segments # <<>>
         /\ {seg, seg + 1} \subseteq 1..(Len(folder.segments) + 1)
         /\ CurrentSegment = folder.segments[seg]
         /\ Len(CurrentSegment.entries) \in Nat /\ ent <= Len(CurrentSegment.entries)
         /\ DOMAIN CurrentSegment.entries = 1..Len(CurrentSegment.entries)
         /\ Number(seg, 1) \in Nat /\ index = Number(seg, 1) + ent
         /\ Number(seg + 1, 1) = Number(seg, 1) + Len(CurrentSegment.entries)
         /\ \A e \in Nat : Number(seg, e) = Number(seg, 1) + e - 1
         /\ raft_log \subseteq Nat /\ \A i \in raft_log : first_index < i /\ i <= index
         /\ RaftStart(folder) \in Nat /\ RaftStart(folder) <= Number(seg, 1)
<1>1. folder \in Folders /\ {seg, ent, frm, index, first_index} \subseteq Nat /\ raft_log \subseteq Nat
  BY DEF IInv, TypeOK, Index
<1>2. /\ seg \in DOMAIN folder.segments
      /\ Len(folder.segments) \in Nat /\ DOMAIN folder.segments = 1..Len(folder.segments)
      /\ Len(CurrentSegment.entries) \in Nat
      /\ DOMAIN CurrentSegment.entries = 1..Len(CurrentSegment.entries)
  BY <1>1, Shape DEF AtSegment, CurrentSegment
<1>3. {seg, seg + 1} \subseteq 1..(Len(folder.segments) + 1) /\ folder.segments # <<>>
  BY <1>2
<1>4. /\ Number(seg, 1) \in Nat
      /\ \A e \in Nat : Number(seg, e) = Number(seg, 1) + e - 1
      /\ Number(seg + 1, 1) = Number(seg, 1) + Len(CurrentSegment.entries)
  BY <1>1, <1>2, <1>3, NumberFacts DEF CurrentSegment
<1>5. index = Number(seg, 1) + ent
  <2>1. ent + 1 \in Nat /\ index = Number(seg, ent + 1)
    BY <1>1, <1>3 DEF AtCursor
  <2> QED BY <1>1, <1>4, <2>1
<1>6. ent <= Len(CurrentSegment.entries)
  BY <1>2 DEF AtCursor, CurrentSegment
<1>7. \A i \in raft_log : first_index < i /\ i <= index
  BY DEF AtSegment, IInv, Upwards
<1>8. RaftStart(folder) \in Nat /\ RaftStart(folder) <= Number(seg, 1)
  <2>1. 1 \in 1..(Len(folder.segments) + 1) /\ 1 \in DOMAIN folder.segments
    BY <1>2
  <2>2. Number(1, 1) = RaftStart(folder) /\ Number(1, 1) \in Nat
    BY <1>1, <2>1, NumberFacts
  <2>3. CASE seg = 1
    BY <2>2, <2>3
  <2>4. CASE seg > 1
    <3>1. Number(1 + 1, 1) = Number(1, 1) + Len(folder.segments[1].entries)
      BY <1>1, <2>1, NumberFacts
    <3>2. Number(1 + 1, 1) <= Number(seg, 1)
      BY <1>1, <1>3, <2>1, <2>4, NumberFacts
    <3>3. Len(folder.segments[1].entries) \in Nat
      BY <1>1, <2>1, Shape
    <3> DEFINE later == Number(seg, 1)
               second == Number(1 + 1, 1)
               start == RaftStart(folder)
               size == Len(folder.segments[1].entries)
    <3>4. later \in Nat /\ start \in Nat /\ size \in Nat /\ second = start + size /\ second <= later
      BY <1>4, <2>2, <3>1, <3>2, <3>3
    <3> HIDE DEF later, second, start, size
    <3>5. start \in Nat /\ start <= later
      BY <3>4
    <3> QED BY <3>5 DEF start, later
  <2> QED BY <1>2, <2>3, <2>4
<1> QED BY <1>1, <1>2, <1>3, <1>4, <1>5, <1>6, <1>7, <1>8 DEF CurrentSegment

(* The moves of the cursor: over a segment, over an entry, and past either. *)
LEMMA SkipSegmentLog ==
  ASSUME IInv, Numbered, AtCursor, LogRows, SkipSegment
  PROVE  AtCursor' /\ LogRows' /\ raft_log = {} /\ index' <= first_index + 1 /\ index <= index'
<1> DEFINE size == Len(CurrentSegment.entries)
           first == Number(seg, 1)
           start == RaftStart(folder)
<1>1. /\ AtSegment /\ Skipped /\ seg' = seg + 1 /\ index' = CurrentSegment.end + 1
      /\ UNCHANGED <<folder, ent, frm, raft_log, first_index>>
  BY DEF SkipSegment, tables
<1>2. /\ folder \in Folders /\ {seg, ent, frm, index, first_index} \subseteq Nat
      /\ seg \in DOMAIN folder.segments /\ {seg, seg + 1} \subseteq 1..(Len(folder.segments) + 1)
      /\ size \in Nat /\ first \in Nat /\ DOMAIN CurrentSegment.entries = 1..size
      /\ Number(seg + 1, 1) = first + size
      /\ index = first + ent
      /\ start \in Nat /\ start <= first /\ CurrentSegment = folder.segments[seg]
  BY <1>1, SegmentPosition
<1>3. ent = 0
  BY <1>1, <1>2 DEF AtCursor
<1>4. IsClosed(CurrentSegment) /\ CurrentSegment.end <= first_index /\ CurrentSegment.end \in Nat
  BY <1>1, <1>2, SegmentFacts DEF Skipped
<1>5. CurrentSegment.end = first + size - 1
  BY <1>2, <1>4 DEF Numbered, NamedRight, Number
<1>6. raft_log = {}
  <2>1. stage = "segments"
    BY <1>1 DEF AtSegment
  <2>2. ~(CurrentSegment.end > first_index) /\ seg >= seg
    BY <1>2, <1>4
  <2> QED BY <1>2, <1>4, <2>1, <2>2 DEF IInv, Upwards
<1>7. frm = 0
  BY <1>6 DEF AtCursor
<1>8. RaftIndex(folder, seg + 1, 1) = first + size
  BY <1>2 DEF Number
<1> HIDE DEF size, first, start
<1>9. index' = first + size /\ index' <= first_index + 1 /\ index <= index'
  BY <1>1, <1>2, <1>3, <1>4, <1>5
<1>10. AtCursor'
  <2>1. seg' \in 1..(Len(folder.segments) + 1)
    BY <1>1, <1>2
  <2>2. seg' \in DOMAIN folder.segments => Len(folder.segments[seg'].entries) \in Nat
    BY <1>2, Shape
  <2>3. ent' \in 0..(IF seg' \in DOMAIN folder.segments THEN Len(folder.segments[seg'].entries) ELSE 0)
    BY <1>1, <1>3, <2>2
  <2>4. 0 + 1 = 1
    OBVIOUS
  <2>5. RaftIndex(folder', seg', ent' + 1) = first + size
    BY <1>1, <1>3, <1>8, <2>4
  <2>6. ~(ent' > 0)
    BY <1>1, <1>3
  <2> QED BY <1>1, <1>7, <1>9, <2>1, <2>3, <2>5, <2>6 DEF AtCursor, Number
<1>11. LogRows'
  <2>1. ASSUME NEW i \in Nat, first_index < i, i < index' PROVE FALSE
    BY <1>2, <1>9, <2>1
  <2> QED BY <1>1, <1>6, <2>1 DEF LogRows
<1> QED BY <1>6, <1>9, <1>10, <1>11

(* SkipEntry: an entry the snapshot covers keeps its number and gets no row. *)
LEMMA SkipEntryLog ==
  ASSUME IInv, AtCursor, LogRows, SkipEntry
  PROVE  AtCursor' /\ LogRows' /\ raft_log = {}
<1> DEFINE size == Len(CurrentSegment.entries)
           first == Number(seg, 1)
           start == RaftStart(folder)
<1>1. /\ AtEntry /\ AtSegment /\ ~Skipped /\ index <= first_index
      /\ ent' = ent + 1 /\ index' = index + 1 /\ ent < size
      /\ UNCHANGED <<folder, seg, frm, raft_log, first_index>>
  BY DEF SkipEntry, AtEntry, tables
<1>2. /\ {seg, ent, frm, index, first_index} \subseteq Nat /\ folder \in Folders
      /\ seg \in DOMAIN folder.segments /\ {seg, seg + 1} \subseteq 1..(Len(folder.segments) + 1)
      /\ size \in Nat /\ first \in Nat /\ index = first + ent /\ CurrentSegment = folder.segments[seg]
      /\ \A e \in Nat : RaftIndex(folder, seg, e) = first + e - 1
      /\ RaftIndex(folder, seg + 1, 1) = first + size
      /\ start \in Nat /\ start <= first
      /\ \A i \in raft_log : i \in Nat /\ first_index < i /\ i <= index
  BY <1>1, SegmentPosition DEF Number
<1>9. /\ seg \in Nat /\ ent \in Nat /\ index \in Nat /\ first_index \in Nat
      /\ size \in Nat /\ first \in Nat /\ start \in Nat
      /\ index = first + ent /\ start <= first /\ ent < size
      /\ ent' = ent + 1 /\ index' = index + 1 /\ index <= first_index
  BY <1>1, <1>2
<1> HIDE DEF size, first, start
<1>3. raft_log = {}
  <2>1. \A i \in Nat : ~(first_index < i /\ i <= index)
    BY <1>9
  <2> QED BY <1>2, <2>1
<1>4. AtCursor'
  <2>1. ent' \in 0..size
    BY <1>9
  <2>2. ent' \in 0..(IF seg' \in DOMAIN folder'.segments THEN Len(folder'.segments[seg'].entries) ELSE 0)
    BY <1>1, <1>2, <2>1 DEF size
  <2>3. ent + 1 + 1 \in Nat /\ index' = first + (ent + 1 + 1) - 1
    BY <1>9
  <2>4. index' = RaftIndex(folder', seg', ent' + 1)
    BY <1>1, <1>2, <2>3
  <2>5. ~Skipped' /\ frm = 0
    BY <1>1, <1>3 DEF AtCursor, Skipped, CurrentSegment
  <2> QED BY <1>1, <1>2, <2>2, <2>4, <2>5 DEF AtCursor, Number
<1>5. LogRows'
  <2>1. ASSUME NEW i \in Nat, first_index < i, i < index' PROVE FALSE
    BY <1>9, <2>1
  <2> QED BY <1>1, <1>3, <2>1 DEF LogRows
<1> QED BY <1>3, <1>4, <1>5

(* The rows of an entry, which leave the cursor where it is. *)
LEMMA InsertLog ==
  ASSUME IInv, AtCursor, LogRows, InsertEntry \/ InsertFrame
  PROVE  AtCursor' /\ LogRows'
<1> DEFINE size == Len(CurrentSegment.entries)
           first == Number(seg, 1)
           start == RaftStart(folder)
<1>1. /\ AtEntry /\ AtSegment /\ ent < size /\ raft_log' = raft_log \cup {index}
      /\ UNCHANGED <<folder, seg, ent, index, first_index>>
  BY DEF InsertEntry, InsertFrame, AtEntry, cursor
<1>2. /\ {seg, ent, frm, index, first_index} \subseteq Nat /\ folder \in Folders
      /\ seg \in DOMAIN folder.segments /\ {seg, seg + 1} \subseteq 1..(Len(folder.segments) + 1)
      /\ size \in Nat /\ first \in Nat /\ index = first + ent /\ CurrentSegment = folder.segments[seg]
      /\ \A e \in Nat : RaftIndex(folder, seg, e) = first + e - 1
      /\ RaftIndex(folder, seg + 1, 1) = first + size
      /\ start \in Nat /\ start <= first
      /\ \A i \in raft_log : i \in Nat /\ first_index < i /\ i <= index
  BY <1>1, SegmentPosition DEF Number
<1>9. /\ seg \in Nat /\ ent \in Nat /\ index \in Nat /\ first_index \in Nat
      /\ size \in Nat /\ first \in Nat /\ start \in Nat
      /\ index = first + ent /\ start <= first
  BY <1>1, <1>2
<1>3. AtCursor'
  BY <1>1 DEF AtCursor, Number, Skipped, CurrentSegment
<1>4. LogRows'
  <2>1. start <= index
    <3> HIDE DEF size, first, start
    <3> QED BY <1>9
  <2>2. seg \in DOMAIN folder.segments /\ ent < Len(folder.segments[seg].entries)
    BY <1>1, <1>2
  <2>3. index <= index
    BY <1>2
  <2> QED BY <1>1, <2>1, <2>2, <2>3 DEF LogRows
<1> QED BY <1>3, <1>4

(* NextEntry: the cursor leaves an entry that has its row. *)
LEMMA NextEntryLog ==
  ASSUME IInv, AtCursor, LogRows, NextEntry
  PROVE  AtCursor' /\ LogRows'
<1> DEFINE size == Len(CurrentSegment.entries)
           first == Number(seg, 1)
           start == RaftStart(folder)
<1>1. /\ AtEntry /\ AtSegment /\ index \in raft_log /\ stage = "segments"
      /\ ent' = ent + 1 /\ index' = index + 1 /\ frm' = 0 /\ ent < size
      /\ UNCHANGED <<folder, seg, raft_log, first_index>>
  BY DEF NextEntry, AtEntry, AtSegment, tables
<1>2. /\ {seg, ent, frm, index, first_index} \subseteq Nat /\ folder \in Folders
      /\ seg \in DOMAIN folder.segments /\ {seg, seg + 1} \subseteq 1..(Len(folder.segments) + 1)
      /\ size \in Nat /\ first \in Nat /\ index = first + ent /\ CurrentSegment = folder.segments[seg]
      /\ \A e \in Nat : RaftIndex(folder, seg, e) = first + e - 1
      /\ RaftIndex(folder, seg + 1, 1) = first + size
      /\ start \in Nat /\ start <= first
      /\ \A i \in raft_log : i \in Nat /\ first_index < i /\ i <= index
  BY <1>1, SegmentPosition DEF Number
<1>9. /\ seg \in Nat /\ ent \in Nat /\ index \in Nat /\ first_index \in Nat
      /\ size \in Nat /\ first \in Nat /\ start \in Nat
      /\ index = first + ent /\ start <= first /\ ent < size
      /\ ent' = ent + 1 /\ index' = index + 1
  BY <1>1, <1>2
<1>3. ~Skipped
  <2>1. SUFFICES ASSUME IsClosed(CurrentSegment), CurrentSegment.end <= first_index PROVE FALSE
    BY DEF Skipped
  <2>2. CurrentSegment.end \in Nat
    BY <1>2, <2>1, SegmentFacts
  <2>4. first_index \in Nat /\ seg >= seg
    BY <1>9
  <2>3. CurrentSegment.end > first_index
    BY <1>1, <1>2, <2>1, <2>4 DEF IInv, Upwards
  <2> QED BY <2>1, <2>2, <2>3, <2>4
<1> HIDE DEF size, first, start
<1>4. AtCursor'
  <2>1. ent' \in 0..size
    BY <1>9
  <2>2. ent' \in 0..(IF seg' \in DOMAIN folder'.segments THEN Len(folder'.segments[seg'].entries) ELSE 0)
    BY <1>1, <1>2, <2>1 DEF size
  <2>3. ent + 1 + 1 \in Nat /\ index' = first + (ent + 1 + 1) - 1
    BY <1>9
  <2>4. index' = RaftIndex(folder', seg', ent' + 1)
    BY <1>1, <1>2, <2>3
  <2>5. ~Skipped'
    BY <1>1, <1>3 DEF Skipped, CurrentSegment
  <2> QED BY <1>1, <1>2, <2>2, <2>4, <2>5 DEF AtCursor, Number
<1>5. LogRows'
  <2>1. \A i \in raft_log : start <= i /\ i <= index'
    <3>1. \A i \in Nat : i <= index => i <= index'
      BY <1>9
    <3> QED BY <1>2, <3>1 DEF LogRows, start
  <2>2. index' \notin raft_log
    <3>1. ~(index' <= index)
      BY <1>9
    <3> QED BY <1>2, <3>1
  <2>3. ASSUME NEW i \in Nat, first_index < i, start <= i, i < index'
        PROVE  i \in raft_log
    <3>1. i < index \/ i = index
      BY <1>9, <2>3
    <3> QED BY <1>1, <2>3, <3>1 DEF LogRows, start
  <2> QED BY <1>1, <2>1, <2>2, <2>3 DEF LogRows, start
<1> QED BY <1>4, <1>5

(* EndSegment: the first entry of the next segment has the next number. *)
LEMMA EndSegmentLog ==
  ASSUME IInv, AtCursor, LogRows, EndSegment
  PROVE  AtCursor' /\ LogRows' /\ index \notin raft_log
<1> DEFINE size == Len(CurrentSegment.entries)
           first == Number(seg, 1)
           start == RaftStart(folder)
<1>1. /\ AtSegment /\ seg' = seg + 1 /\ ent' = 0 /\ ent = size
      /\ UNCHANGED <<folder, frm, index, raft_log, first_index>>
  BY DEF EndSegment, tables
<1>2. /\ {seg, ent, frm, index, first_index} \subseteq Nat /\ folder \in Folders
      /\ seg \in DOMAIN folder.segments /\ {seg, seg + 1} \subseteq 1..(Len(folder.segments) + 1)
      /\ size \in Nat /\ first \in Nat /\ index = first + ent /\ CurrentSegment = folder.segments[seg]
      /\ \A e \in Nat : RaftIndex(folder, seg, e) = first + e - 1
      /\ RaftIndex(folder, seg + 1, 1) = first + size
      /\ start \in Nat /\ start <= first
      /\ \A i \in raft_log : i \in Nat /\ first_index < i /\ i <= index
  BY <1>1, SegmentPosition DEF Number
<1>9. /\ seg \in Nat /\ ent \in Nat /\ index \in Nat /\ first_index \in Nat
      /\ size \in Nat /\ first \in Nat /\ start \in Nat
      /\ index = first + ent /\ start <= first /\ ent = size
  BY <1>1, <1>2
<1>3. index \notin raft_log
  <2>1. ~(ent < size)
    <3> HIDE DEF size, first, start
    <3> QED BY <1>9
  <2> QED BY <1>2, <2>1 DEF LogRows
<1>4. AtCursor'
  <2>1. seg' \in 1..(Len(folder.segments) + 1) /\ 0 + 1 = 1 /\ ~(0 > 0)
    BY <1>1, <1>2
  <2>2. seg' \in DOMAIN folder.segments => Len(folder.segments[seg'].entries) \in Nat
    BY <1>2, Shape
  <2>3. ent' \in 0..(IF seg' \in DOMAIN folder'.segments THEN Len(folder'.segments[seg'].entries) ELSE 0)
    BY <1>1, <2>2
  <2>4. index' = RaftIndex(folder', seg', ent' + 1)
    BY <1>1, <1>2, <2>1
  <2> QED BY <1>1, <1>3, <2>1, <2>3, <2>4 DEF AtCursor, Number
<1>5. LogRows'
  BY <1>1, <1>3 DEF LogRows
<1> QED BY <1>3, <1>4, <1>5

(* The loader starts where raft does. *)
LEMMA StartLog ==
  ASSUME IInv, LogInv, Numbered, BeginWithoutSnapshot \/ FinishSnapshot
  PROVE  AtCursor' /\ (IF folder.segments = <<>> THEN raft_log = {} ELSE LogRows')
<1>1. /\ stage \in {"start", "snapshot"} /\ index' = FirstIndex(folder)
      /\ UNCHANGED <<folder, seg, ent, frm, raft_log>>
  BY DEF BeginWithoutSnapshot, FinishSnapshot, tables
<1>2. /\ seg = 1 /\ ent = 0 /\ frm = 0 /\ raft_log = {} /\ folder \in Folders
  BY <1>1 DEF LogInv, IInv, Staged, TypeOK
<1>3. /\ Len(folder.segments) \in Nat /\ DOMAIN folder.segments = 1..Len(folder.segments)
      /\ \A s \in DOMAIN folder.segments : Len(folder.segments[s].entries) \in Nat
  BY <1>2, Shape
<1>4. AtCursor'
  <2>1. 1 \in 1..(Len(folder.segments) + 1) /\ 0 + 1 = 1 /\ ~(0 > 0)
    BY <1>3
  <2>2. 0 \in 0..(IF 1 \in DOMAIN folder.segments THEN Len(folder.segments[1].entries) ELSE 0)
    BY <1>3
  <2>3. folder.segments # <<>> => index' = RaftIndex(folder, 1, 1)
    <3>1. Number(1, 1) = RaftStart(folder)
      BY <1>2, NumberFacts
    <3> QED BY <1>1, <3>1 DEF Numbered, Number
  <2> QED BY <1>1, <1>2, <2>1, <2>2, <2>3 DEF AtCursor, Number
<1>5. folder.segments # <<>> => LogRows'
  <2>1. SUFFICES ASSUME folder.segments # <<>> PROVE LogRows'
    OBVIOUS
  <2>2. index' = RaftStart(folder) /\ index' \in Nat
    <3>1. 1 \in 1..(Len(folder.segments) + 1)
      BY <1>3
    <3> QED BY <1>1, <1>2, <2>1, <3>1, NumberFacts DEF Numbered
  <2>3. ASSUME NEW i \in Nat, RaftStart(folder) <= i, i < index' PROVE FALSE
    BY <2>2, <2>3
  <2> QED BY <1>1, <1>2, <2>3 DEF LogRows
<1> QED BY <1>2, <1>4, <1>5

(* Every step keeps LogInv. *)
LEMMA LogInvStep == IInv /\ LogInv /\ [Next]_vars => LogInv'
<1> SUFFICES ASSUME IInv, LogInv, [Next]_vars PROVE LogInv'
  OBVIOUS
<1> USE DEF tables, cursor, served
<1>1. CASE \/ BeginSnapshot \/ LoadMainPage \/ LoadMainEnd
           \/ LoadWalEmpty \/ LoadWalFrame \/ LoadWalEnd
  <2>1. stage \in {"start", "snapshot"} /\ stage' = "snapshot" /\ UNCHANGED <<seg, ent, frm>>
    BY <1>1 DEF BeginSnapshot, LoadMainPage, LoadMainEnd, LoadWalEmpty, LoadWalFrame, LoadWalEnd
  <2> QED BY <2>1 DEF LogInv
<1>2. CASE BeginWithoutSnapshot \/ FinishSnapshot
  <2>1. stage' = "segments" /\ UNCHANGED <<folder, raft_log>>
    BY <1>2 DEF BeginWithoutSnapshot, FinishSnapshot
  <2>2. Numbered' => Numbered
    BY <2>1 DEF Numbered
  <2>3. (IF HasSnapshot THEN first_index = folder.snapshots[1].index
         ELSE first_index = 1 /\ FirstIndex(folder) = 1)'
    BY <1>2 DEF BeginWithoutSnapshot, FinishSnapshot, IInv, Staged, HasSnapshot
  <2> QED BY <1>2, <2>1, <2>2, <2>3, StartLog DEF LogInv
<1>3. CASE SkipSegment \/ SkipEntry \/ InsertEntry \/ InsertFrame \/ NextEntry \/ EndSegment
  <2>1. /\ AtSegment /\ stage = "segments" /\ stage' = "segments" /\ UNCHANGED folder
    BY <1>3 DEF SkipSegment, SkipEntry, InsertEntry, InsertFrame, NextEntry, EndSegment, AtEntry, AtSegment
  <2>6. first_index' = first_index /\ (HasSnapshot' <=> HasSnapshot)
    BY <1>3 DEF SkipSegment, SkipEntry, InsertEntry, InsertFrame, NextEntry, EndSegment, HasSnapshot
  <2>2. SUFFICES ASSUME Numbered PROVE AtCursor' /\ (folder.segments # <<>> /\ LogRows')
    BY <2>1, <2>6 DEF LogInv, Numbered
  <2>3. AtCursor
    BY <2>1, <2>2 DEF LogInv
  <2>4. folder.segments # <<>>
    BY <2>1, <2>3, SegmentPosition
  <2>5. LogRows
    BY <2>1, <2>2, <2>4 DEF LogInv
  <2> QED BY <1>3, <2>1, <2>2, <2>3, <2>4, <2>5,
             SkipSegmentLog, SkipEntryLog, InsertLog, NextEntryLog, EndSegmentLog
<1>4. CASE FinishLoading
  <2>1. /\ stage = "segments" /\ stage' = "serving" /\ seg = Len(folder.segments) + 1
        /\ last_index' = CurrentIndex(folder)
        /\ UNCHANGED <<folder, seg, ent, frm, index, raft_log, first_index>>
    BY <1>4 DEF FinishLoading
  <2>2. AtCursor' <=> AtCursor
    BY <2>1 DEF AtCursor, Number, Skipped, CurrentSegment
  <2>3. LogRows' <=> LogRows
    BY <2>1 DEF LogRows
  <2> QED BY <2>1, <2>2, <2>3 DEF LogInv, Numbered, HasSnapshot
<1>5. CASE LoadFails \/ LoadAgain
  BY <1>5 DEF LoadFails, LoadAgain, LogInv
<1>6. CASE \/ \E i \in Index : SetCurrentIndex(i)
           \/ \E name \in Database : OpenFile(name)
           \/ \E file \in files : CloseFile(file)
           \/ UNCHANGED vars
  <2>1. UNCHANGED <<stage, folder, seg, ent, frm, index, raft_log, first_index, last_index>>
    BY <1>6 DEF SetCurrentIndex, OpenFile, CloseFile, vars
  <2>2. AtCursor' <=> AtCursor
    BY <2>1 DEF AtCursor, Number, Skipped, CurrentSegment
  <2>3. LogRows' <=> LogRows
    BY <2>1 DEF LogRows
  <2> QED BY <2>1, <2>2, <2>3 DEF LogInv, Numbered, HasSnapshot
<1> QED BY <1>1, <1>2, <1>3, <1>4, <1>5, <1>6 DEF Next, LoadStep

(* The loader counts entries as raft does, and writes a row for each of them
   behind the snapshot and for no other: in every reachable state. *)
THEOREM LogInvariance == Spec => [](IInv /\ LogInv)
<1>1. Init => LogInv
  BY DEF Init, LogInv
<1>2. IInv /\ LogInv /\ [Next]_vars => LogInv'
  BY LogInvStep
<1> QED BY <1>1, <1>2, Invariance, PTL DEF Spec

-----------------------------------------------------------------------------
(* current_index, which only counts the entries of open segments, finds the
   last entry of a log that has a closed segment. *)
LEMMA CurrentIndexIsLast ==
  ASSUME folder \in Folders, NamedRight(folder),
         folder.segments # <<>>, IsClosed(folder.segments[1])
  PROVE  /\ CurrentIndex(folder) = Number(Len(folder.segments) + 1, 1) - 1
         /\ Number(Len(folder.segments) + 1, 1) \in Nat
<1> DEFINE F == folder.segments
           C == {s \in DOMAIN F : IsClosed(F[s])}
           n == NumClosedSegments(folder)
           start == RaftStart(folder)
           Count(s) == NumEntries(SubSeq(F, 1, s))
           tail == NumEntries(SubSeq(F, n + 1, Len(F)))
<1>1. F \in Seq(Range(F)) /\ Len(F) \in Nat /\ DOMAIN F = 1..Len(F)
  BY Shape
<1>2. PICK E : \A segment \in Range(F) : segment.entries \in Seq(E)
  BY Shape
<1>3. n \in C
  <2>1. 1 \in C /\ C \subseteq 1..Len(F)
    BY <1>1
  <2>2. n = Max({0} \cup C)
    BY DEF NumClosedSegments
  <2> HIDE DEF F, C, n
  <2>3. {0} \cup C \subseteq Nat /\ {0} \cup C # {} /\ \A x \in {0} \cup C : x <= Len(F)
    BY <1>1, <2>1
  <2>4. n \in {0} \cup C /\ \A x \in {0} \cup C : x <= n
    BY <1>1, <2>2, <2>3, MaxExists
  <2>5. n # 0
    BY <2>1, <2>4
  <2> QED BY <2>4, <2>5
<1>4. n \in DOMAIN F /\ IsClosed(F[n]) /\ n \in 1..Len(F)
  BY <1>1, <1>3
<1>5. /\ ClosedSegments(folder) = SubSeq(F, 1, n)
      /\ OpenSegments(folder) = SubSeq(F, n + 1, Len(F))
  BY DEF ClosedSegments, OpenSegments
<1> HIDE DEF n, C
<1>6. SubSeq(F, 1, n) # <<>> /\ Len(SubSeq(F, 1, n)) = n /\ SubSeq(F, 1, n)[n] = F[n]
  BY <1>1, <1>4
<1>7. CurrentIndex(folder) = F[n].end + tail
  BY <1>5, <1>6 DEF CurrentIndex
<1>8. F[n].end = Number(n, 1) + Len(F[n].entries) - 1
  BY <1>4 DEF NamedRight, Number
<1>9. /\ Number(n + 1, 1) = Number(n, 1) + Len(F[n].entries)
      /\ Number(n, 1) \in Nat /\ Len(F[n].entries) \in Nat
      /\ Number(n + 1, 1) = start + Count(n) /\ Number(Len(F) + 1, 1) = start + Count(Len(F))
      /\ start \in Nat /\ Number(Len(F) + 1, 1) \in Nat
  <2>1. /\ n \in 1..(Len(F) + 1) /\ n + 1 \in 1..(Len(F) + 1) /\ Len(F) + 1 \in 1..(Len(F) + 1)
        /\ 1 \in 1..(Len(F) + 1) /\ (n + 1) - 1 = n /\ (Len(F) + 1) - 1 = Len(F)
        /\ n \in 0..Len(F) /\ Len(F) \in 0..Len(F)
    BY <1>1, <1>4
  <2>2. /\ Number(n, 1) \in Nat /\ Number(n + 1, 1) \in Nat /\ Number(Len(F) + 1, 1) \in Nat
        /\ start \in Nat /\ Number(n + 1, 1) = Number(n, 1) + Len(F[n].entries)
    <3>1. Number(1, 1) = start /\ Number(1, 1) \in Nat
      BY <2>1, NumberFacts
    <3> QED BY <1>4, <2>1, <3>1, NumberFacts
  <2>3. /\ Number(n + 1, 1) = start + Count(n) + 1 - 1
        /\ Number(Len(F) + 1, 1) = start + Count(Len(F)) + 1 - 1
    BY <2>1 DEF Number, RaftIndex
  <2>4. Count(n) \in Nat /\ Count(Len(F)) \in Nat
    <3>1. SubSeq(F, 1, n) \in Seq(Range(F)) /\ SubSeq(F, 1, Len(F)) \in Seq(Range(F))
      BY <1>1, <1>4
    <3> HIDE DEF F
    <3> QED BY <1>2, <3>1, PlacesAreFinite
  <2>5. Len(F[n].entries) \in Nat
    BY <1>4, Shape
  <2> HIDE DEF F, start, Count
  <2> QED BY <2>2, <2>3, <2>4, <2>5
<1>10. Count(Len(F)) = Count(n) + tail /\ Count(n) \in Nat /\ tail \in Nat
  <2>1. n \in 0..Len(F) /\ SubSeq(F, 1, Len(F)) = F
    BY <1>1, <1>4
  <2>2. SubSeq(F, 1, n) \in Seq(Range(F)) /\ SubSeq(F, n + 1, Len(F)) \in Seq(Range(F))
    BY <1>1, <1>4
  <2> HIDE DEF F
  <2>3. NumEntries(F) = Count(n) + tail
    BY <1>1, <1>2, <2>1, EntriesSplit
  <2> QED BY <1>2, <2>1, <2>2, <2>3, PlacesAreFinite
<1> DEFINE a == Number(n, 1)
           b == Number(n + 1, 1)
           c == Number(Len(F) + 1, 1)
           l == Len(F[n].entries)
           all == Count(Len(F))
           some == Count(n)
           current == CurrentIndex(folder)
<1>11. /\ current = a + l - 1 + tail /\ b = a + l /\ a \in Nat /\ l \in Nat
       /\ b = start + some /\ c = start + all /\ all = some + tail
       /\ start \in Nat /\ some \in Nat /\ tail \in Nat /\ c \in Nat
  BY <1>7, <1>8, <1>9, <1>10
<1> HIDE DEF a, b, c, l, all, some, current, tail, start, Count
<1>12. current = c - 1
  BY <1>11
<1> QED BY <1>9, <1>12 DEF current, c

(* Where a folder without a log ends. *)
LEMMA EmptyLogEnds ==
  ASSUME folder.segments = <<>>
  PROVE  CurrentIndex(folder) = FirstIndex(folder) + 0
<1>1. NumClosedSegments(folder) = 0
  <2>1. {s \in DOMAIN folder.segments : IsClosed(folder.segments[s])} = {}
    OBVIOUS
  <2>2. NumClosedSegments(folder) = Max({0} \cup {})
    BY <2>1 DEF NumClosedSegments
  <2>3. {0} \cup {} \subseteq Nat /\ 0 \in {0} \cup {} /\ \A x \in {0} \cup {} : x <= 0
    OBVIOUS
  <2> QED BY <2>2, <2>3, MaxIs
<1>2. SubSeq(<<>>, 1, 0) = <<>> /\ SubSeq(<<>>, 0 + 1, Len(<<>>)) = <<>>
  OBVIOUS
<1>3. ClosedSegments(folder) = <<>> /\ OpenSegments(folder) = <<>>
  BY <1>1, <1>2 DEF ClosedSegments, OpenSegments
<1> QED BY <1>3, NoEntries DEF CurrentIndex

(* Every index of a contiguous log that can be selected was loaded: proved for
   every folder whose closed segments have the numbers their names say. *)
THEOREM EveryIndexIsLoaded == Spec => [](NamedRight(folder) => ContiguousLogIsSelectable)
<1>1. IInv /\ LogInv => (NamedRight(folder) => ContiguousLogIsSelectable)
  <2> SUFFICES ASSUME IInv, LogInv, NamedRight(folder), LogIsContiguous, stage = "serving"
               PROVE  first_index..last_index = {first_index} \cup raft_log
    BY DEF ContiguousLogIsSelectable, SelectableIsLoaded
  <2> DEFINE start == RaftStart(folder)
  <2>1. /\ folder \in Folders /\ first_index \in Nat /\ last_index \in Nat
        /\ first_index <= last_index /\ raft_log \subseteq Nat
        /\ \A i \in raft_log : first_index < i
        /\ seg = Len(folder.segments) + 1 /\ last_index = CurrentIndex(folder)
    <3>1. /\ folder \in Folders /\ first_index \in Nat /\ last_index \in Nat /\ current_index \in Nat
          /\ raft_log \subseteq Nat /\ \A i \in raft_log : first_index < i
          /\ current_index \in first_index..last_index
      BY DEF IInv, TypeOK, Staged, Upwards, Index
    <3>2. first_index <= last_index
      BY <3>1
    <3> QED BY <3>1, <3>2 DEF LogInv
  <2>2. CASE folder.segments = <<>>
    <3>1. Numbered /\ raft_log = {}
      BY <2>2 DEF Numbered, LogInv
    <3>2. FirstIndex(folder) = first_index
      BY <2>2 DEF FirstIndex, LogInv, HasSnapshot
    <3>3. CurrentIndex(folder) = FirstIndex(folder) + 0
      BY <2>2, EmptyLogEnds
    <3> QED BY <2>1, <3>1, <3>2, <3>3
  <2>3. CASE folder.segments # <<>>
    <3>1. IsClosed(folder.segments[1]) /\ FirstIndex(folder) = start /\ Numbered
      BY <2>3 DEF LogIsContiguous, FirstIndex, RaftStart, Numbered
    <3>2. start <= first_index + 1
      BY <2>1, <2>3, <3>1 DEF LogIsContiguous, LogInv, FirstIndex
    <3>3. AtCursor /\ LogRows
      BY <2>3, <3>1 DEF LogInv
    <3>4. last_index = index - 1 /\ index \in Nat /\ index \notin raft_log
      <4>1. /\ CurrentIndex(folder) = Number(seg, 1) - 1 /\ Number(seg, 1) \in Nat
        BY <2>1, <2>3, <3>1, CurrentIndexIsLast
      <4>2. seg \notin DOMAIN folder.segments
        BY <2>1, Shape
      <4>3. ent = 0 /\ 0 + 1 = 1
        BY <3>3, <4>2 DEF AtCursor
      <4>4. index = Number(seg, 1)
        BY <2>3, <3>3, <4>3 DEF AtCursor
      <4> QED BY <2>1, <3>3, <4>1, <4>2, <4>4 DEF LogRows
    <3>5. ASSUME NEW i \in raft_log PROVE i \in first_index..last_index
      <4>1. i \in Nat /\ first_index < i /\ i <= index /\ i # index
        BY <2>1, <3>3, <3>4 DEF LogRows
      <4> QED BY <2>1, <3>4, <4>1
    <3>6. ASSUME NEW i \in first_index..last_index, i # first_index PROVE i \in raft_log
      <4>1. i \in Nat /\ first_index < i /\ start <= i /\ i < index
        <5>1. start \in Nat
          <6>1. 1 \in 1..(Len(folder.segments) + 1)
            BY <2>1, Shape
          <6> QED BY <2>1, <6>1, NumberFacts
        <5> HIDE DEF start
        <5> QED BY <2>1, <3>2, <3>4, <3>6, <5>1
      <4> QED BY <3>3, <4>1 DEF LogRows
    <3>7. first_index \in first_index..last_index
      BY <2>1
    <3> QED BY <3>5, <3>6, <3>7
  <2> QED BY <2>2, <2>3
<1> QED BY LogInvariance, <1>1, PTL

-----------------------------------------------------------------------------
(* The rows of dqlite_transaction are the frames of the entries behind the
   snapshot and before the cursor, and the first frm of the one it is at. *)
Inserted(s, e, n) ==
  /\ first_index < Number(s, e)
  /\ \/ Number(s, e) < index
     \/ Number(s, e) = index /\ index \in raft_log /\ n <= frm

RowAt(s, e, n) == <<Number(s, e), Entry(s, e).name, Entry(s, e).frames[n].page>>

FrameRows ==
  /\ \A s \in DOMAIN folder.segments : \A e \in DOMAIN folder.segments[s].entries :
       Entry(s, e).type = "frames" =>
         \A n \in DOMAIN Entry(s, e).frames :
           Inserted(s, e, n) =>
             /\ RowAt(s, e, n) \in DOMAIN dqlite_transaction
             /\ dqlite_page[dqlite_transaction[RowAt(s, e, n)]] = Entry(s, e).frames[n].data
  /\ \A k \in DOMAIN dqlite_transaction :
       \E s \in DOMAIN folder.segments : \E e \in DOMAIN folder.segments[s].entries :
         /\ Entry(s, e).type = "frames"
         /\ \E n \in DOMAIN Entry(s, e).frames : Inserted(s, e, n) /\ k = RowAt(s, e, n)

RowInv == stage \in {"segments", "serving"} /\ Numbered => FrameRows

(* Numbers are naturals. *)
LEMMA EntryIndex ==
  ASSUME folder \in Folders,
         NEW s \in DOMAIN folder.segments, NEW e \in DOMAIN folder.segments[s].entries
  PROVE  Number(s, e) \in Nat
<1> DEFINE first == Number(s, 1)
           number == Number(s, e)
<1>1. number = first + e - 1 /\ first \in Nat /\ e \in Nat \ {0}
  BY EntryNumbers
<1> HIDE DEF first, number
<1>2. number \in Nat
  BY <1>1
<1> QED BY <1>2 DEF number

(* The entry the cursor is at is the only one with its number. *)
LEMMA AtIndex ==
  ASSUME IInv, AtCursor, AtEntry,
         NEW s \in DOMAIN folder.segments, NEW e \in DOMAIN folder.segments[s].entries,
         Number(s, e) = index
  PROVE  s = seg /\ e = ent + 1 /\ Entry(s, e) = CurrentEntry
<1>1. AtSegment /\ ent < Len(CurrentSegment.entries)
  BY DEF AtEntry
<1>2. /\ folder \in Folders /\ seg \in DOMAIN folder.segments /\ folder.segments # <<>>
      /\ CurrentSegment = folder.segments[seg]
      /\ DOMAIN CurrentSegment.entries = 1..Len(CurrentSegment.entries)
      /\ Len(CurrentSegment.entries) \in Nat /\ ent \in Nat
  BY <1>1, SegmentPosition
<1>3. ent + 1 \in DOMAIN folder.segments[seg].entries
  BY <1>1, <1>2
<1>4. Number(seg, ent + 1) = index
  BY <1>2 DEF AtCursor
<1>5. s = seg /\ e = ent + 1
  BY <1>2, <1>3, <1>4, NumbersDiffer
<1> QED BY <1>2, <1>5 DEF Entry, CurrentEntry

(* Only InsertFrame changes what is inserted. *)
LEMMA SameInserted ==
  ASSUME IInv, Numbered, AtCursor, LogRows,
         SkipSegment \/ SkipEntry \/ InsertEntry \/ NextEntry \/ EndSegment,
         NEW s \in DOMAIN folder.segments, NEW e \in DOMAIN folder.segments[s].entries,
         Entry(s, e).type = "frames", NEW n \in DOMAIN Entry(s, e).frames
  PROVE  Inserted(s, e, n)' <=> Inserted(s, e, n)
<1> DEFINE number == Number(s, e)
<1>1. /\ folder \in Folders /\ index \in Nat /\ index' \in Nat /\ first_index \in Nat
      /\ frm \in Nat
  <2>1. IInv'
    BY SegmentStepInv
  <2> QED BY <2>1 DEF IInv, TypeOK, Index
<1>2. number \in Nat
  BY <1>1, EntryIndex
<1>3. UNCHANGED <<folder, first_index>>
  BY DEF SkipSegment, SkipEntry, InsertEntry, NextEntry, EndSegment
<1>4. Entry(s, e).frames \in Seq(Frame) /\ n \in 1..Len(Entry(s, e).frames)
      /\ Len(Entry(s, e).frames) \in Nat
  <2>1. EntryOK(Entry(s, e))
    BY <1>1, SegmentFacts DEF Entry
  <2>2. Entry(s, e).frames \in Seq(Frame)
    BY <2>1 DEF EntryOK
  <2> QED BY <2>2
<1>5. /\ Inserted(s, e, n) <=>
           first_index < number /\ (number < index \/ (number = index /\ index \in raft_log /\ n <= frm))
      /\ Inserted(s, e, n)' <=>
           first_index < number /\ (number < index' \/ (number = index' /\ index' \in raft_log' /\ n <= frm'))
  BY <1>3 DEF Inserted, Number
<1> HIDE DEF number
<1>6. CASE SkipSegment \/ SkipEntry
  <2>1. raft_log = {} /\ raft_log' = {} /\ index' <= first_index + 1 /\ index <= index'
    <3>1. CASE SkipSegment
      BY <3>1, SkipSegmentLog DEF SkipSegment, tables
    <3>2. CASE SkipEntry
      <4>1. raft_log = {} /\ raft_log' = raft_log
        BY <3>2, SkipEntryLog DEF SkipEntry, tables
      <4>2. index <= first_index /\ index' = index + 1
        BY <3>2 DEF SkipEntry
      <4> QED BY <1>1, <4>1, <4>2
    <3> QED BY <1>6, <3>1, <3>2
  <2>2. first_index < number => ~(number < index') /\ ~(number < index)
    BY <1>1, <1>2, <2>1
  <2> QED BY <1>5, <2>1, <2>2
<1>7. CASE InsertEntry
  <2>1. index' = index /\ frm' = frm /\ index \notin raft_log
    BY <1>7 DEF InsertEntry, cursor
  <2>2. ~(n <= frm)
    BY <1>4, <2>1 DEF AtCursor
  <2> QED BY <1>5, <2>1, <2>2
<1>8. CASE NextEntry
  <2>1. /\ AtEntry /\ index \in raft_log /\ index' = index + 1 /\ raft_log' = raft_log
        /\ ~FramesLeft
    BY <1>8 DEF NextEntry, tables
  <2>2. index' \notin raft_log'
    <3>1. ~(index' <= index)
      BY <1>1, <2>1
    <3> QED BY <2>1, <3>1 DEF LogRows
  <2>3. number = index => n <= frm
    <3>1. SUFFICES ASSUME number = index PROVE n <= frm
      OBVIOUS
    <3>2. Entry(s, e) = CurrentEntry
      BY <2>1, <3>1, AtIndex DEF number
    <3>3. ~(frm < Len(Entry(s, e).frames))
      BY <2>1, <3>2 DEF FramesLeft
    <3> QED BY <1>1, <1>4, <3>3
  <2>4. number < index' <=> number < index \/ number = index
    BY <1>1, <1>2, <2>1
  <2> QED BY <1>5, <2>1, <2>2, <2>3, <2>4
<1>9. CASE EndSegment
  <2>1. UNCHANGED <<index, frm, raft_log>>
    BY <1>9 DEF EndSegment, tables
  <2> QED BY <1>5, <2>1
<1> QED BY <1>6, <1>7, <1>8, <1>9

(* A step that changes neither tables nor which frames are inserted. *)
LEMMA SameRows ==
  ASSUME FrameRows, UNCHANGED <<folder, dqlite_page, dqlite_transaction>>,
         \A s \in DOMAIN folder.segments : \A e \in DOMAIN folder.segments[s].entries :
           Entry(s, e).type = "frames" =>
             \A n \in DOMAIN Entry(s, e).frames : Inserted(s, e, n)' <=> Inserted(s, e, n)
  PROVE  FrameRows'
<1>1. \A s, e : Entry(s, e)' = Entry(s, e)
  BY DEF Entry
<1>2. \A s, e, n : RowAt(s, e, n)' = RowAt(s, e, n)
  BY DEF RowAt, Entry, Number
<1>3. folder' = folder /\ dqlite_page' = dqlite_page /\ dqlite_transaction' = dqlite_transaction
  OBVIOUS
<1>4. ASSUME NEW s \in DOMAIN folder.segments, NEW e \in DOMAIN folder.segments[s].entries,
             Entry(s, e).type = "frames",
             NEW n \in DOMAIN Entry(s, e).frames, Inserted(s, e, n)'
      PROVE  /\ RowAt(s, e, n) \in DOMAIN dqlite_transaction
             /\ dqlite_page[dqlite_transaction[RowAt(s, e, n)]] = Entry(s, e).frames[n].data
  BY <1>4 DEF FrameRows
<1>5. ASSUME NEW k \in DOMAIN dqlite_transaction
      PROVE  \E s \in DOMAIN folder.segments : \E e \in DOMAIN folder.segments[s].entries :
               /\ Entry(s, e).type = "frames"
               /\ \E n \in DOMAIN Entry(s, e).frames : Inserted(s, e, n)' /\ k = RowAt(s, e, n)
  BY DEF FrameRows
<1> QED BY <1>1, <1>2, <1>3, <1>4, <1>5 DEF FrameRows

(* InsertFrame: one frame more is inserted, under a key no other row has. *)
LEMMA InsertFrameRows ==
  ASSUME IInv, AtCursor, LogRows, FrameRows, InsertFrame
  PROVE  FrameRows'
<1> DEFINE id == NextId
           frame == CurrentEntry.frames[frm + 1]
           row == RowOf(frame)
<1>1. /\ AtEntry /\ AtSegment /\ index \in raft_log /\ FramesLeft /\ row \notin DOMAIN dqlite_transaction
      /\ dqlite_page' = Extend(dqlite_page, id, frame.data)
      /\ dqlite_transaction' = Extend(dqlite_transaction, row, id)
      /\ frm' = frm + 1 /\ UNCHANGED <<folder, index, first_index, raft_log>>
  BY DEF InsertFrame, AtEntry
<1>2. id \notin DOMAIN dqlite_page
  BY IdFacts DEF IInv
<1>3. /\ folder \in Folders /\ index \in Nat /\ frm \in Nat /\ ent \in Nat
      /\ seg \in DOMAIN folder.segments /\ folder.segments # <<>> /\ first_index < index
      /\ CurrentSegment = folder.segments[seg]
      /\ DOMAIN CurrentSegment.entries = 1..Len(CurrentSegment.entries)
      /\ Len(CurrentSegment.entries) \in Nat /\ ent < Len(CurrentSegment.entries)
  BY <1>1, SegmentPosition DEF AtEntry
<1>4. CurrentEntry.frames \in Seq(Frame)
  BY <1>1, <1>3, EntryFacts DEF EntryOK, FramesLeft
<1> HIDE DEF id
<1>5. /\ DOMAIN dqlite_transaction' = DOMAIN dqlite_transaction \cup {row}
      /\ dqlite_transaction'[row] = id /\ dqlite_page'[id] = frame.data
      /\ \A k \in DOMAIN dqlite_transaction : dqlite_transaction'[k] = dqlite_transaction[k]
      /\ \A other \in DOMAIN dqlite_page : dqlite_page'[other] = dqlite_page[other]
      /\ \A k \in DOMAIN dqlite_transaction : dqlite_transaction[k] \in DOMAIN dqlite_page
  <2>1. dqlite_transaction \in [DOMAIN dqlite_transaction -> DOMAIN dqlite_page]
    BY DEF IInv, Tables
  <2> HIDE DEF row, frame
  <2> QED BY <1>1, <1>2, <2>1 DEF Extend
<1>6. /\ \A s, e : Entry(s, e)' = Entry(s, e)
      /\ \A s, e, n : RowAt(s, e, n)' = RowAt(s, e, n)
      /\ \A s, e : Number(s, e)' = Number(s, e)
  BY <1>1 DEF RowAt, Entry, Number
<1>7. \A s, e, n : Inserted(s, e, n)' <=>
        first_index < Number(s, e) /\
          (Number(s, e) < index \/ (Number(s, e) = index /\ n <= frm + 1))
  BY <1>1, <1>6 DEF Inserted
<1>8. ASSUME NEW s \in DOMAIN folder.segments, NEW e \in DOMAIN folder.segments[s].entries,
             Entry(s, e).type = "frames",
             NEW n \in DOMAIN Entry(s, e).frames, Inserted(s, e, n)'
      PROVE  /\ RowAt(s, e, n) \in DOMAIN dqlite_transaction'
             /\ dqlite_page'[dqlite_transaction'[RowAt(s, e, n)]] = Entry(s, e).frames[n].data
  <2>1. CASE Inserted(s, e, n)
    <3>1. /\ RowAt(s, e, n) \in DOMAIN dqlite_transaction
          /\ dqlite_page[dqlite_transaction[RowAt(s, e, n)]] = Entry(s, e).frames[n].data
      BY <1>8, <2>1 DEF FrameRows
    <3> HIDE DEF row, frame
    <3> QED BY <1>5, <3>1
  <2>2. CASE ~Inserted(s, e, n)
    <3>1. Number(s, e) = index /\ n <= frm + 1 /\ ~(n <= frm)
      BY <1>1, <1>7, <1>8, <2>2 DEF Inserted
    <3>2. Entry(s, e) = CurrentEntry
      BY <1>1, <3>1, AtIndex
    <3>3. n \in Nat
      BY <1>4, <3>2
    <3>4. n = frm + 1
      BY <1>3, <3>1, <3>3
    <3>5. RowAt(s, e, n) = row /\ Entry(s, e).frames[n].data = frame.data
      BY <3>1, <3>2, <3>4 DEF RowAt, RowOf
    <3> HIDE DEF row, frame
    <3> QED BY <1>5, <3>5
  <2> QED BY <2>1, <2>2
<1>9. ASSUME NEW k \in DOMAIN dqlite_transaction'
      PROVE  \E s \in DOMAIN folder.segments : \E e \in DOMAIN folder.segments[s].entries :
               /\ Entry(s, e).type = "frames"
               /\ \E n \in DOMAIN Entry(s, e).frames : Inserted(s, e, n)' /\ k = RowAt(s, e, n)
  <2>1. CASE k \in DOMAIN dqlite_transaction
    <3>1. PICK s \in DOMAIN folder.segments : \E e \in DOMAIN folder.segments[s].entries :
            /\ Entry(s, e).type = "frames"
            /\ \E n \in DOMAIN Entry(s, e).frames : Inserted(s, e, n) /\ k = RowAt(s, e, n)
      BY <2>1 DEF FrameRows
    <3>2. PICK e \in DOMAIN folder.segments[s].entries :
            /\ Entry(s, e).type = "frames"
            /\ \E n \in DOMAIN Entry(s, e).frames : Inserted(s, e, n) /\ k = RowAt(s, e, n)
      BY <3>1
    <3>3. PICK n \in DOMAIN Entry(s, e).frames : Inserted(s, e, n) /\ k = RowAt(s, e, n)
      BY <3>2
    <3>4. Inserted(s, e, n)'
      <4>1. CASE Number(s, e) < index
        BY <1>7, <3>3, <4>1 DEF Inserted
      <4>2. CASE ~(Number(s, e) < index)
        <5>1. Number(s, e) = index /\ n <= frm /\ first_index < Number(s, e)
          BY <3>3, <4>2 DEF Inserted
        <5>2. Entry(s, e) = CurrentEntry
          BY <1>1, <5>1, AtIndex
        <5>3. n \in Nat
          BY <1>4, <5>2
        <5>4. n <= frm + 1
          BY <1>3, <5>1, <5>3
        <5> QED BY <1>7, <5>1, <5>4
      <4> QED BY <4>1, <4>2
    <3> QED BY <3>2, <3>3, <3>4
  <2>2. CASE k = row
    <3>1. ent + 1 \in DOMAIN folder.segments[seg].entries
      BY <1>3
    <3>2. Number(seg, ent + 1) = index
      BY <1>3 DEF AtCursor
    <3>3. Entry(seg, ent + 1) = CurrentEntry
      BY <1>3 DEF Entry, CurrentEntry
    <3>4. CurrentEntry.type = "frames" /\ frm + 1 \in DOMAIN CurrentEntry.frames
      BY <1>1, <1>3, <1>4 DEF FramesLeft
    <3>5. PICK s \in DOMAIN folder.segments : s = seg
      BY <1>3
    <3>6. PICK e \in DOMAIN folder.segments[s].entries : e = ent + 1
      BY <3>1, <3>5
    <3>7. Entry(s, e) = CurrentEntry /\ Number(s, e) = index
      BY <3>2, <3>3, <3>5, <3>6
    <3>8. PICK n \in DOMAIN Entry(s, e).frames : n = frm + 1
      BY <3>4, <3>7
    <3>9. Inserted(s, e, n)'
      <4>1. n <= frm + 1
        BY <1>3, <3>8
      <4> QED BY <1>3, <1>7, <3>7, <4>1
    <3>10. k = RowAt(s, e, n)
      BY <2>2, <3>7, <3>8 DEF RowAt, RowOf
    <3> QED BY <3>4, <3>7, <3>9, <3>10
  <2> QED BY <1>5, <2>1, <2>2
<1> QED BY <1>1, <1>6, <1>8, <1>9 DEF FrameRows

(* Every step keeps RowInv. *)
LEMMA RowInvStep == IInv /\ LogInv /\ RowInv /\ [Next]_vars => RowInv'
<1> SUFFICES ASSUME IInv, LogInv, RowInv, [Next]_vars PROVE RowInv'
  OBVIOUS
<1> USE DEF tables, cursor, served
<1>1. CASE \/ BeginSnapshot \/ LoadMainPage \/ LoadMainEnd
           \/ LoadWalEmpty \/ LoadWalFrame \/ LoadWalEnd \/ LoadFails \/ LoadAgain
  <2>1. stage' \notin {"segments", "serving"}
    BY <1>1 DEF BeginSnapshot, LoadMainPage, LoadMainEnd, LoadWalEmpty, LoadWalFrame, LoadWalEnd,
                LoadFails, LoadAgain
  <2> QED BY <2>1 DEF RowInv
<1>2. CASE BeginWithoutSnapshot \/ FinishSnapshot
  <2>1. SUFFICES ASSUME Numbered PROVE FrameRows'
    BY <1>2 DEF RowInv, Numbered, BeginWithoutSnapshot, FinishSnapshot
  <2>2. /\ UNCHANGED <<folder, dqlite_page, dqlite_transaction, raft_log>>
        /\ DOMAIN dqlite_transaction = {} /\ raft_log = {} /\ folder \in Folders
    BY <1>2 DEF BeginWithoutSnapshot, FinishSnapshot, IInv, Staged, TypeOK
  <2>3. ASSUME NEW s \in DOMAIN folder.segments, NEW e \in DOMAIN folder.segments[s].entries,
               NEW n
        PROVE  ~Inserted(s, e, n)'
    <3>1. folder.segments # <<>> /\ 1 \in DOMAIN folder.segments /\ 1 \in 1..(Len(folder.segments) + 1)
      BY <2>2, Shape
    <3>2. index' = RaftStart(folder)
      BY <1>2, <2>1, <3>1 DEF BeginWithoutSnapshot, FinishSnapshot, Numbered
    <3>3. Number(s, e) >= RaftStart(folder) /\ RaftStart(folder) \in Nat /\ Number(s, e) \in Nat
      <4>1. Number(s, e) = Number(s, 1) + e - 1 /\ Number(s, 1) \in Nat /\ e \in Nat \ {0}
        BY <2>2, EntryNumbers
      <4>2. /\ Number(1, 1) = RaftStart(folder) /\ Number(1, 1) \in Nat
            /\ Number(1 + 1, 1) = Number(1, 1) + Len(folder.segments[1].entries)
            /\ Len(folder.segments[1].entries) \in Nat
            /\ 1 < s => Number(1 + 1, 1) <= Number(s, 1)
        <5>1. s \in 1..(Len(folder.segments) + 1)
          BY <2>2, Shape
        <5> QED BY <2>2, <3>1, <5>1, NumberFacts, Shape
      <4>3. s = 1 \/ 1 < s
        BY <2>2, Shape
      <4> DEFINE first == Number(s, 1)
                 number == Number(s, e)
                 start == RaftStart(folder)
                 size == Len(folder.segments[1].entries)
                 second == Number(1 + 1, 1)
      <4>4. /\ number = first + e - 1 /\ first \in Nat /\ e \in Nat \ {0} /\ start \in Nat
            /\ size \in Nat /\ second = start + size
            /\ first = start \/ second <= first
        BY <4>1, <4>2, <4>3
      <4> HIDE DEF first, number, start, size, second
      <4>5. number >= start /\ start \in Nat /\ number \in Nat
        BY <4>4
      <4> QED BY <4>5 DEF number, start
    <3>4. Number(s, e)' = Number(s, e) /\ raft_log' = {}
      BY <2>2 DEF Number
    <3>5. ~(Number(s, e) < index')
      BY <3>2, <3>3
    <3> QED BY <3>4, <3>5 DEF Inserted
  <2> QED BY <2>2, <2>3 DEF FrameRows, Entry
<1>3. CASE SkipSegment \/ SkipEntry \/ InsertEntry \/ InsertFrame \/ NextEntry \/ EndSegment
  <2>1. /\ AtSegment /\ stage = "segments" /\ stage' = "segments" /\ UNCHANGED folder
    BY <1>3 DEF SkipSegment, SkipEntry, InsertEntry, InsertFrame, NextEntry, EndSegment, AtEntry, AtSegment
  <2>2. SUFFICES ASSUME Numbered PROVE FrameRows'
    BY <2>1 DEF RowInv, Numbered
  <2>3. AtCursor
    BY <2>1, <2>2 DEF LogInv
  <2>4. folder.segments # <<>>
    BY <2>1, <2>3, SegmentPosition
  <2>5. LogRows /\ FrameRows
    BY <2>1, <2>2, <2>4 DEF LogInv, RowInv
  <2>6. CASE InsertFrame
    BY <2>3, <2>5, <2>6, InsertFrameRows
  <2>7. CASE SkipSegment \/ SkipEntry \/ InsertEntry \/ NextEntry \/ EndSegment
    <3>1. UNCHANGED <<folder, dqlite_page, dqlite_transaction>>
      BY <2>7 DEF SkipSegment, SkipEntry, InsertEntry, NextEntry, EndSegment
    <3>2. ASSUME NEW s \in DOMAIN folder.segments, NEW e \in DOMAIN folder.segments[s].entries,
                 Entry(s, e).type = "frames", NEW n \in DOMAIN Entry(s, e).frames
          PROVE  Inserted(s, e, n)' <=> Inserted(s, e, n)
      BY <2>2, <2>3, <2>5, <2>7, <3>2, SameInserted
    <3> QED BY <2>5, <3>1, <3>2, SameRows
  <2> QED BY <1>3, <2>6, <2>7
<1>4. CASE \/ FinishLoading
           \/ \E i \in Index : SetCurrentIndex(i)
           \/ \E name \in Database : OpenFile(name)
           \/ \E file \in files : CloseFile(file)
           \/ UNCHANGED vars
  <2>1. /\ UNCHANGED <<folder, frm, index, raft_log, first_index, dqlite_page, dqlite_transaction>>
        /\ stage' \in {"segments", "serving"} => stage \in {"segments", "serving"}
    BY <1>4 DEF FinishLoading, SetCurrentIndex, OpenFile, CloseFile, vars
  <2>2. \A s, e, n : Inserted(s, e, n)' <=> Inserted(s, e, n)
    BY <2>1 DEF Inserted, Number
  <2>3. FrameRows => FrameRows'
    BY <2>1, <2>2, SameRows
  <2> QED BY <2>1, <2>3 DEF RowInv, Numbered
<1> QED BY <1>1, <1>2, <1>3, <1>4 DEF Next, LoadStep

-----------------------------------------------------------------------------
(* The rows of dqlite_database: what is read at index 0, which no entry has. *)
SnapshotRead(name, page) == ReadPage(name, page, 0)

(* What n pages of the main file, or all of it and n frames of the WAL, leave
   on a page. *)
MainPage(contents, n, page) ==
  IF page \in DOMAIN contents.main /\ page <= n THEN contents.main[page] ELSE NoPage

FramesOf(contents, n, page) == {f \in 1..n : contents.wal[f].page = page}

WalPage(contents, n, page) ==
  IF FramesOf(contents, n, page) # {}
  THEN contents.wal[Max(FramesOf(contents, n, page))].data
  ELSE MainPage(contents, Len(contents.main), page)

SoFar(contents, p, n, page) ==
  IF p = "main" THEN MainPage(contents, n, page) ELSE WalPage(contents, n, page)

AllOf(contents, page) == WalPage(contents, Len(contents.wal), page)

DatabaseSoFar(d, page) ==
  CASE d < db -> AllOf(SnapshotDatabases[d], page)
    [] d = db -> SoFar(SnapshotDatabases[d], part, pos, page)
    [] d > db -> NoPage

(* A database is there as far as the loader has come with it, and nothing is
   there under another name. *)
SnapshotRows ==
  \A name \in Database, page \in PageNumber :
    /\ \A d \in DOMAIN SnapshotDatabases :
         SnapshotDatabases[d].name = name => SnapshotRead(name, page) = DatabaseSoFar(d, page)
    /\ (\A d \in DOMAIN SnapshotDatabases : SnapshotDatabases[d].name # name) =>
         SnapshotRead(name, page) = NoPage

SnapshotInv ==
  /\ stage = "start" => db = 1 /\ part = "main" /\ pos = 0
  /\ stage = "snapshot" => SnapshotRows
  /\ stage \in {"segments", "serving"} =>
       \A name \in Database, page \in PageNumber :
         SnapshotRead(name, page) = SnapshotPage(name, page)

(* The types of a database of the oldest snapshot. *)
LEMMA DatabaseFacts ==
  ASSUME folder \in Folders, HasSnapshot, NEW d \in DOMAIN SnapshotDatabases
  PROVE  LET contents == SnapshotDatabases[d]
         IN /\ contents.name \in Database /\ d \in Nat
            /\ Len(contents.main) \in Nat /\ DOMAIN contents.main = 1..Len(contents.main)
            /\ Len(contents.wal) \in Nat /\ DOMAIN contents.wal = 1..Len(contents.wal)
<1>1. DatabaseOK(SnapshotDatabases[d])
  BY SnapshotFacts
<1>2. d \in Nat
  <2>1. 1 \in DOMAIN folder.snapshots
    BY FolderAssumption DEF HasSnapshot
  <2>2. folder.snapshots[1].databases \in Seq(Range(folder.snapshots[1].databases))
    BY <2>1, FolderAssumption
  <2> QED BY <2>2 DEF SnapshotDatabases
<1> QED BY <1>1, <1>2 DEF DatabaseOK

(* How one page of the main file and one frame of the WAL change a page. *)
LEMMA NextMainPage ==
  ASSUME NEW contents, NEW n \in Nat, NEW page \in Nat,
         DOMAIN contents.main = 1..Len(contents.main), Len(contents.main) \in Nat,
         n < Len(contents.main)
  PROVE  MainPage(contents, n + 1, page) =
           IF page = n + 1 THEN contents.main[n + 1] ELSE MainPage(contents, n, page)
<1>1. CASE page = n + 1
  <2>1. page \in 1..Len(contents.main) /\ page <= n + 1
    BY <1>1
  <2> QED BY <1>1, <2>1 DEF MainPage
<1>2. CASE page # n + 1
  <2>1. page <= n + 1 <=> page <= n
    BY <1>2
  <2> QED BY <1>2, <2>1 DEF MainPage
<1> QED BY <1>1, <1>2

(* A page behind the end of the main file has no row yet. *)
LEMMA NoMainPage ==
  ASSUME NEW contents, NEW page \in Nat, DOMAIN contents.main = 1..Len(contents.main)
  PROVE  MainPage(contents, 0, page) = NoPage
<1>1. page \in DOMAIN contents.main => ~(page <= 0)
  OBVIOUS
<1> QED BY <1>1 DEF MainPage

(* Before its first frame, the WAL leaves the main file as it is. *)
LEMMA NoFrame ==
  ASSUME NEW contents, NEW page
  PROVE  WalPage(contents, 0, page) = MainPage(contents, Len(contents.main), page)
<1>1. FramesOf(contents, 0, page) = {}
  BY DEF FramesOf
<1> QED BY <1>1 DEF WalPage

(* A frame replaces the page it names, and no other. *)
LEMMA NextFrame ==
  ASSUME NEW contents, NEW n \in Nat, NEW page
  PROVE  WalPage(contents, n + 1, page) =
           IF page = contents.wal[n + 1].page THEN contents.wal[n + 1].data
           ELSE WalPage(contents, n, page)
<1> DEFINE S == FramesOf(contents, n + 1, page)
<1>1. CASE page = contents.wal[n + 1].page
  <2>1. n + 1 \in S /\ S \subseteq Nat /\ \A f \in S : f <= n + 1
    BY <1>1 DEF FramesOf
  <2> HIDE DEF S
  <2>2. Max(S) = n + 1 /\ S # {}
    BY <2>1, MaxIs
  <2> QED BY <1>1, <2>2 DEF WalPage, S
<1>2. CASE page # contents.wal[n + 1].page
  <2>1. ASSUME NEW f \in 1..(n + 1), contents.wal[f].page = page PROVE f \in 1..n
    <3>1. f # n + 1
      BY <1>2, <2>1
    <3> QED BY <3>1
  <2>2. 1..n \subseteq 1..(n + 1)
    OBVIOUS
  <2>3. S = FramesOf(contents, n, page)
    BY <2>1, <2>2 DEF FramesOf
  <2> QED BY <1>2, <2>3 DEF WalPage
<1> QED BY <1>1, <1>2

(* A database that was loaded to its end is the one of the snapshot. *)
LEMMA SnapshotPageIs ==
  ASSUME folder \in Folders, HasSnapshot, NEW name \in Database, NEW page \in PageNumber
  PROVE  /\ \A d \in DOMAIN SnapshotDatabases :
              SnapshotDatabases[d].name = name =>
                SnapshotPage(name, page) = AllOf(SnapshotDatabases[d], page)
         /\ (\A d \in DOMAIN SnapshotDatabases : SnapshotDatabases[d].name # name) =>
              SnapshotPage(name, page) = NoPage
<1> DEFINE is == {d \in DOMAIN SnapshotDatabases : SnapshotDatabases[d].name = name}
<1>1. ASSUME \A d \in DOMAIN SnapshotDatabases : SnapshotDatabases[d].name # name
      PROVE  SnapshotPage(name, page) = NoPage
  <2>1. is = {}
    BY <1>1
  <2> QED BY <2>1 DEF SnapshotPage
<1>2. ASSUME NEW d \in DOMAIN SnapshotDatabases, SnapshotDatabases[d].name = name
      PROVE  SnapshotPage(name, page) = AllOf(SnapshotDatabases[d], page)
  <2> DEFINE contents == SnapshotDatabases[d]
             frames == {f \in DOMAIN contents.wal : contents.wal[f].page = page}
  <2>1. is = {d}
    BY <1>2, NamesDiffer
  <2>2. (CHOOSE x \in is : TRUE) = d
    BY <2>1
  <2>3. SnapshotPage(name, page) =
          CASE frames # {} -> contents.wal[Max(frames)].data
            [] frames = {} /\ page \in DOMAIN contents.main -> contents.main[page]
            [] OTHER -> NoPage
    BY <2>1, <2>2 DEF SnapshotPage
  <2>4. /\ DOMAIN contents.wal = 1..Len(contents.wal)
        /\ DOMAIN contents.main = 1..Len(contents.main)
    BY DatabaseFacts
  <2>5. frames = FramesOf(contents, Len(contents.wal), page)
    BY <2>4 DEF FramesOf
  <2>6. page \in DOMAIN contents.main => page <= Len(contents.main)
    BY <2>4
  <2>7. AllOf(contents, page) =
          IF frames # {} THEN contents.wal[Max(frames)].data
          ELSE IF page \in DOMAIN contents.main THEN contents.main[page] ELSE NoPage
    BY <2>5, <2>6 DEF AllOf, WalPage, MainPage
  <2> HIDE DEF frames, contents
  <2>8. SnapshotPage(name, page) = AllOf(contents, page)
    BY <2>3, <2>7
  <2> QED BY <2>8 DEF contents
<1> QED BY <1>1, <1>2

(* The steps of load_first_snapshot. *)
LEMMA SamePages ==
  ASSUME UNCHANGED <<dqlite_page, dqlite_database, dqlite_transaction>>
  PROVE  \A name, page : SnapshotRead(name, page)' = SnapshotRead(name, page)
BY SameReads DEF SnapshotRead

(* A step to a database's next item, which changes that database only. *)
LEMMA ItemLoaded ==
  ASSUME IInv, SnapshotRows, stage = "snapshot", db \in DOMAIN SnapshotDatabases,
         UNCHANGED <<folder, db>>,
         \A name \in Database, page \in PageNumber :
           name # SnapshotDatabases[db].name =>
             SnapshotRead(name, page)' = SnapshotRead(name, page),
         \A name \in Database, page \in PageNumber :
           name = SnapshotDatabases[db].name =>
             SnapshotRead(name, page)' = SoFar(SnapshotDatabases[db], part', pos', page)
  PROVE  SnapshotRows'
<1>1. folder \in Folders /\ HasSnapshot /\ db \in Nat
  BY DEF IInv, TypeOK, Staged
<1>2. SnapshotDatabases' = SnapshotDatabases /\ db' = db
  BY DEF SnapshotDatabases
<1>3. ASSUME NEW name \in Database, NEW page \in PageNumber,
             NEW d \in DOMAIN SnapshotDatabases, SnapshotDatabases[d].name = name
      PROVE  SnapshotRead(name, page)' = DatabaseSoFar(d, page)'
  <2>1. d \in Nat
    BY <1>1, DatabaseFacts
  <2>2. CASE d = db
    <3>1. ~(d < db) /\ ~(d > db)
      BY <1>1, <2>2
    <3>2. DatabaseSoFar(d, page)' = SoFar(SnapshotDatabases[d], part', pos', page)
      BY <1>2, <2>2, <3>1 DEF DatabaseSoFar
    <3> QED BY <1>3, <2>2, <3>2
  <2>3. CASE d # db
    <3>1. name # SnapshotDatabases[db].name
      BY <1>1, <1>3, <2>3, NamesDiffer
    <3>2. SnapshotRead(name, page)' = SnapshotRead(name, page)
      BY <3>1
    <3>3. DatabaseSoFar(d, page)' = DatabaseSoFar(d, page)
      <4>1. (d < db /\ ~(d > db)) \/ (d > db /\ ~(d < db))
        BY <1>1, <2>1, <2>3
      <4> QED BY <1>2, <2>3, <4>1 DEF DatabaseSoFar
    <3> QED BY <1>3, <3>2, <3>3 DEF SnapshotRows
  <2> QED BY <2>2, <2>3
<1>4. ASSUME NEW name \in Database, NEW page \in PageNumber,
             \A d \in DOMAIN SnapshotDatabases : SnapshotDatabases[d].name # name
      PROVE  SnapshotRead(name, page)' = NoPage
  BY <1>4 DEF SnapshotRows
<1> QED BY <1>2, <1>3, <1>4 DEF SnapshotRows

(* The step to the next database. *)
LEMMA DatabaseLoaded ==
  ASSUME IInv, SnapshotRows, stage = "snapshot", db \in DOMAIN SnapshotDatabases,
         part = "wal", pos = Len(SnapshotDatabases[db].wal),
         NextDatabase, UNCHANGED folder,
         \A name \in Database, page \in PageNumber : SnapshotRead(name, page)' = SnapshotRead(name, page)
  PROVE  SnapshotRows'
<1>1. folder \in Folders /\ HasSnapshot /\ db \in Nat
  BY DEF IInv, TypeOK, Staged
<1>2. SnapshotDatabases' = SnapshotDatabases /\ db' = db + 1 /\ part' = "main" /\ pos' = 0
  BY DEF SnapshotDatabases, NextDatabase
<1>3. ASSUME NEW name \in Database, NEW page \in PageNumber,
             NEW d \in DOMAIN SnapshotDatabases, SnapshotDatabases[d].name = name
      PROVE  SnapshotRead(name, page)' = DatabaseSoFar(d, page)'
  <2>1. d \in Nat
    BY <1>1, DatabaseFacts
  <2>2. SnapshotRead(name, page)' = SnapshotRead(name, page)
    OBVIOUS
  <2>3. SnapshotRead(name, page) = DatabaseSoFar(d, page)
    BY <1>3 DEF SnapshotRows
  <2>4. CASE d < db
    <3>1. d < db + 1 /\ ~(d = db + 1) /\ ~(d > db + 1) /\ ~(d = db) /\ ~(d > db)
      BY <1>1, <2>1, <2>4
    <3>2. DatabaseSoFar(d, page)' = DatabaseSoFar(d, page)
      BY <1>2, <2>4, <3>1 DEF DatabaseSoFar
    <3> QED BY <2>2, <2>3, <3>2
  <2>5. CASE d = db
    <3>1. d < db + 1 /\ ~(d = db + 1) /\ ~(d > db + 1) /\ ~(d < db) /\ ~(d > db)
      BY <1>1, <2>1, <2>5
    <3>2. SoFar(SnapshotDatabases[d], part, pos, page) = AllOf(SnapshotDatabases[d], page)
      BY <2>5 DEF SoFar, AllOf
    <3>3. DatabaseSoFar(d, page)' = DatabaseSoFar(d, page)
      BY <1>2, <2>5, <3>1, <3>2 DEF DatabaseSoFar
    <3> QED BY <2>2, <2>3, <3>3
  <2>6. CASE d > db
    <3>1. ~(d < db + 1) /\ ~(d < db) /\ ~(d = db) /\ (d = db + 1 \/ d > db + 1)
      BY <1>1, <2>1, <2>6
    <3>2. SoFar(SnapshotDatabases[d], "main", 0, page) = NoPage
      <4>1. page \in Nat
        BY ContentAssumption
      <4> QED BY <1>1, <4>1, DatabaseFacts, NoMainPage DEF SoFar
    <3>3. DatabaseSoFar(d, page)' = NoPage
      BY <1>2, <3>1, <3>2 DEF DatabaseSoFar
    <3>4. DatabaseSoFar(d, page) = NoPage
      BY <2>6, <3>1 DEF DatabaseSoFar
    <3> QED BY <2>2, <2>3, <3>3, <3>4
  <2> QED BY <1>1, <2>1, <2>4, <2>5, <2>6
<1>4. ASSUME NEW name \in Database, NEW page \in PageNumber,
             \A d \in DOMAIN SnapshotDatabases : SnapshotDatabases[d].name # name
      PROVE  SnapshotRead(name, page)' = NoPage
  BY <1>4 DEF SnapshotRows
<1> QED BY <1>2, <1>3, <1>4 DEF SnapshotRows

(* Every step of the snapshot loads one page more. *)
LEMMA SnapshotRowsStep ==
  ASSUME IInv, OneRowPerPage, SnapshotRows, stage = "snapshot",
         LoadMainPage \/ LoadMainEnd \/ LoadWalEmpty \/ LoadWalFrame \/ LoadWalEnd
  PROVE  SnapshotRows'
<1> DEFINE contents == SnapshotDatabases[db]
<1>1. /\ folder \in Folders /\ HasSnapshot /\ db \in DOMAIN SnapshotDatabases /\ db \in Nat /\ pos \in Nat
      /\ UNCHANGED folder /\ DOMAIN dqlite_transaction = {}
  BY DEF IInv, TypeOK, Staged, LoadMainPage, LoadMainEnd, LoadWalEmpty, LoadWalFrame, LoadWalEnd
<1>2. /\ contents.name \in Database
      /\ Len(contents.main) \in Nat /\ DOMAIN contents.main = 1..Len(contents.main)
      /\ Len(contents.wal) \in Nat /\ DOMAIN contents.wal = 1..Len(contents.wal)
  BY <1>1, DatabaseFacts
<1>3. /\ \A name \in Database, page \in PageNumber :
           name = contents.name => SnapshotRead(name, page) = SoFar(contents, part, pos, page)
      /\ PageNumber \subseteq Nat
  <2>1. ~(db < db) /\ ~(db > db)
    BY <1>1
  <2>2. \A page : DatabaseSoFar(db, page) = SoFar(contents, part, pos, page)
    BY <2>1 DEF DatabaseSoFar
  <2> QED BY <1>1, <2>2, ContentAssumption DEF SnapshotRows
<1>4. ASSUME NEW n \in Database, NEW page \in PageNumber, NEW data \in Content,
             InsertSnapshotPage(n, page, data)
      PROVE  \A name \in Database, p \in PageNumber :
               SnapshotRead(name, p)' = IF <<name, p>> = <<n, page>> THEN data ELSE SnapshotRead(name, p)
  BY <1>1, <1>4, SnapshotReads DEF SnapshotRead
<1>5. CASE LoadMainPage
  <2> DEFINE page == pos + 1
             data == contents.main[page]
  <2>1. /\ part = "main" /\ part' = "main" /\ pos < Len(contents.main) /\ pos' = pos + 1 /\ db' = db
        /\ InsertSnapshotPage(contents.name, page, data)
    BY <1>5 DEF LoadMainPage
  <2>2. page \in PageNumber /\ data \in Content
    BY <1>1, <2>1, MainFacts
  <2>3. \A name \in Database, p \in PageNumber :
          SnapshotRead(name, p)' = IF <<name, p>> = <<contents.name, page>> THEN data ELSE SnapshotRead(name, p)
    BY <1>2, <1>4, <2>1, <2>2
  <2>4. ASSUME NEW name \in Database, NEW p \in PageNumber, name = contents.name
        PROVE  SnapshotRead(name, p)' = SoFar(contents, part', pos', p)
    <3>1. MainPage(contents, pos + 1, p) = IF p = page THEN data ELSE MainPage(contents, pos, p)
      BY <1>1, <1>2, <1>3, <2>1, NextMainPage
    <3>2. SnapshotRead(name, p)' = IF p = page THEN data ELSE MainPage(contents, pos, p)
      <4>1. SnapshotRead(name, p)' = IF p = page THEN data ELSE SnapshotRead(name, p)
        BY <2>3, <2>4
      <4>2. SnapshotRead(name, p) = MainPage(contents, pos, p)
        BY <1>3, <2>1, <2>4 DEF SoFar
      <4> QED BY <4>1, <4>2
    <3> QED BY <2>1, <3>1, <3>2 DEF SoFar
  <2> HIDE DEF page, data
  <2>5. \A name \in Database, p \in PageNumber :
          name # contents.name => SnapshotRead(name, p)' = SnapshotRead(name, p)
    BY <2>3
  <2> QED BY <1>1, <2>1, <2>4, <2>5, ItemLoaded
<1>6. CASE LoadMainEnd
  <2>1. /\ part = "main" /\ part' = "wal" /\ pos = Len(contents.main) /\ pos' = 0 /\ db' = db
        /\ \A name, p : SnapshotRead(name, p)' = SnapshotRead(name, p)
    BY <1>6, SamePages DEF LoadMainEnd, tables
  <2>2. ASSUME NEW name \in Database, NEW p \in PageNumber, name = contents.name
        PROVE  SnapshotRead(name, p) = SoFar(contents, part', pos', p)
    BY <1>3, <2>1, <2>2, NoFrame DEF SoFar
  <2> QED BY <1>1, <2>1, <2>2, ItemLoaded
<1>7. CASE LoadWalEmpty
  <2>1. /\ part = "wal" /\ contents.wal = <<>> /\ NextDatabase
        /\ \A name, p : SnapshotRead(name, p)' = SnapshotRead(name, p)
    BY <1>7, SamePages DEF LoadWalEmpty, tables
  <2>2. pos = Len(contents.wal)
    <3>1. pos <= Len(contents.wal)
      BY <2>1 DEF OneRowPerPage
    <3>2. Len(contents.wal) = 0
      BY <2>1
    <3> QED BY <1>1, <3>1, <3>2
  <2> QED BY <1>1, <2>1, <2>2, DatabaseLoaded
<1>8. CASE LoadWalFrame
  <2> DEFINE frame == contents.wal[pos + 1]
  <2>1. /\ part = "wal" /\ part' = "wal" /\ pos < Len(contents.wal) /\ pos' = pos + 1 /\ db' = db
        /\ InsertSnapshotPage(contents.name, frame.page, frame.data)
    BY <1>8 DEF LoadWalFrame
  <2>2. frame.page \in PageNumber /\ frame.data \in Content
    BY <1>1, <2>1, WalFacts
  <2>3. \A name \in Database, p \in PageNumber :
          SnapshotRead(name, p)' =
            IF <<name, p>> = <<contents.name, frame.page>> THEN frame.data ELSE SnapshotRead(name, p)
    BY <1>2, <1>4, <2>1, <2>2
  <2>4. ASSUME NEW name \in Database, NEW p \in PageNumber, name = contents.name
        PROVE  SnapshotRead(name, p)' = SoFar(contents, part', pos', p)
    <3>1. WalPage(contents, pos + 1, p) = IF p = frame.page THEN frame.data ELSE WalPage(contents, pos, p)
      BY <1>1, NextFrame
    <3>2. SnapshotRead(name, p)' = IF p = frame.page THEN frame.data ELSE WalPage(contents, pos, p)
      <4>1. SnapshotRead(name, p)' = IF p = frame.page THEN frame.data ELSE SnapshotRead(name, p)
        BY <2>3, <2>4
      <4>2. SnapshotRead(name, p) = WalPage(contents, pos, p)
        BY <1>3, <2>1, <2>4 DEF SoFar
      <4> QED BY <4>1, <4>2
    <3> QED BY <2>1, <3>1, <3>2 DEF SoFar
  <2> HIDE DEF frame
  <2>5. \A name \in Database, p \in PageNumber :
          name # contents.name => SnapshotRead(name, p)' = SnapshotRead(name, p)
    BY <2>3
  <2> QED BY <1>1, <2>1, <2>4, <2>5, ItemLoaded
<1>9. CASE LoadWalEnd
  <2>1. /\ part = "wal" /\ pos = Len(contents.wal) /\ NextDatabase
        /\ DeleteUnreferencedPages /\ UNCHANGED dqlite_database
    BY <1>9 DEF LoadWalEnd
  <2>2. \A id \in Range(dqlite_database) : dqlite_page'[id] = dqlite_page[id]
    BY <1>1, <2>1, DeletePages DEF IInv
  <2>3. ASSUME NEW name \in Database, NEW p \in PageNumber
        PROVE  SnapshotRead(name, p)' = SnapshotRead(name, p)
    <3>1. Changes(name, p, 0) = {} /\ Changes(name, p, 0)' = {}
      BY DEF Changes
    <3>2. <<name, p>> \in DOMAIN dqlite_database =>
            dqlite_database[<<name, p>>] \in Range(dqlite_database)
      BY DEF Range
    <3> QED BY <2>1, <2>2, <3>1, <3>2 DEF SnapshotRead, ReadPage
  <2> QED BY <1>1, <2>1, <2>3, DatabaseLoaded
<1> QED BY <1>5, <1>6, <1>7, <1>8, <1>9

(* Every step keeps SnapshotInv: what comes later does not touch the snapshot. *)
LEMMA SnapshotInvStep == IInv /\ OneRowPerPage /\ SnapshotInv /\ [Next]_vars => SnapshotInv'
<1> SUFFICES ASSUME IInv, OneRowPerPage, SnapshotInv, [Next]_vars PROVE SnapshotInv'
  OBVIOUS
<1> USE DEF tables, cursor, served
<1>1. folder \in Folders
  BY DEF IInv, TypeOK
<1>2. CASE BeginSnapshot
  <2>1. /\ stage = "start" /\ stage' = "snapshot" /\ HasSnapshot
        /\ UNCHANGED <<folder, db, part, pos, dqlite_page, dqlite_database, dqlite_transaction>>
    BY <1>2 DEF BeginSnapshot
  <2>2. db = 1 /\ part = "main" /\ pos = 0
    BY <2>1 DEF SnapshotInv
  <2>3. \A name, page : SnapshotRead(name, page)' = NoPage
    BY <2>1, SamePages, EmptyReads DEF IInv, Staged, SnapshotRead
  <2>4. SnapshotDatabases' = SnapshotDatabases /\ db' = 1 /\ part' = "main" /\ pos' = 0
    BY <2>1, <2>2 DEF SnapshotDatabases
  <2>5. ASSUME NEW d \in DOMAIN SnapshotDatabases, NEW page \in PageNumber
        PROVE  DatabaseSoFar(d, page)' = NoPage
    <3>1. page \in Nat
      BY ContentAssumption
    <3>2. SoFar(SnapshotDatabases[d], "main", 0, page) = NoPage
      BY <1>1, <2>1, <3>1, DatabaseFacts, NoMainPage DEF SoFar
    <3>3. d \in Nat /\ ~(d < 1)
      <4>1. 1 \in DOMAIN folder.snapshots
        BY <1>1, <2>1, FolderAssumption DEF HasSnapshot
      <4>2. folder.snapshots[1].databases \in Seq(Range(folder.snapshots[1].databases))
        BY <1>1, <4>1, FolderAssumption
      <4> QED BY <4>2 DEF SnapshotDatabases
    <3>4. (d = 1 /\ ~(d > 1)) \/ (d > 1 /\ d # 1)
      BY <3>3
    <3> QED BY <2>4, <3>2, <3>3, <3>4 DEF DatabaseSoFar
  <2>6. SnapshotRows'
    BY <2>3, <2>4, <2>5 DEF SnapshotRows
  <2> QED BY <2>1, <2>6 DEF SnapshotInv
<1>3. CASE BeginWithoutSnapshot
  <2>1. /\ stage = "start" /\ stage' = "segments" /\ ~HasSnapshot
        /\ UNCHANGED <<folder, dqlite_page, dqlite_database, dqlite_transaction>>
    BY <1>3 DEF BeginWithoutSnapshot
  <2>2. \A name, page : SnapshotRead(name, page)' = NoPage
    BY <2>1, SamePages, EmptyReads DEF IInv, Staged, SnapshotRead
  <2>3. \A name, page : SnapshotPage(name, page)' = NoPage
    BY <2>1 DEF SnapshotPage, HasSnapshot
  <2> QED BY <2>1, <2>2, <2>3 DEF SnapshotInv
<1>4. CASE LoadMainPage \/ LoadMainEnd \/ LoadWalEmpty \/ LoadWalFrame \/ LoadWalEnd
  <2>1. stage = "snapshot" /\ stage' = "snapshot"
    BY <1>4 DEF LoadMainPage, LoadMainEnd, LoadWalEmpty, LoadWalFrame, LoadWalEnd
  <2>2. SnapshotRows'
    BY <1>4, <2>1, SnapshotRowsStep DEF SnapshotInv
  <2> QED BY <2>1, <2>2 DEF SnapshotInv
<1>5. CASE FinishSnapshot
  <2>1. /\ stage = "snapshot" /\ stage' = "segments" /\ db = Len(SnapshotDatabases) + 1
        /\ UNCHANGED <<folder, dqlite_page, dqlite_database, dqlite_transaction>>
        /\ HasSnapshot
    BY <1>5 DEF FinishSnapshot, IInv, Staged
  <2>2. ASSUME NEW name \in Database, NEW page \in PageNumber
        PROVE  SnapshotRead(name, page) = SnapshotPage(name, page)
    <3>1. CASE \A d \in DOMAIN SnapshotDatabases : SnapshotDatabases[d].name # name
      BY <1>1, <2>1, <3>1, SnapshotPageIs DEF SnapshotInv, SnapshotRows
    <3>2. ASSUME NEW d \in DOMAIN SnapshotDatabases, SnapshotDatabases[d].name = name
          PROVE  SnapshotRead(name, page) = SnapshotPage(name, page)
      <4>1. d < db /\ ~(d = db) /\ ~(d > db)
        <5>1. 1 \in DOMAIN folder.snapshots
          BY <1>1, <2>1, FolderAssumption DEF HasSnapshot
        <5>2. folder.snapshots[1].databases \in Seq(Range(folder.snapshots[1].databases))
          BY <1>1, <5>1, FolderAssumption
        <5>3. d \in 1..Len(SnapshotDatabases) /\ Len(SnapshotDatabases) \in Nat
          BY <5>2 DEF SnapshotDatabases
        <5> QED BY <2>1, <5>3
      <4>2. DatabaseSoFar(d, page) = AllOf(SnapshotDatabases[d], page)
        BY <4>1 DEF DatabaseSoFar
      <4>3. SnapshotRead(name, page) = AllOf(SnapshotDatabases[d], page)
        BY <2>1, <3>2, <4>2 DEF SnapshotInv, SnapshotRows
      <4> QED BY <1>1, <2>1, <3>2, <4>3, SnapshotPageIs
    <3> QED BY <3>1, <3>2
  <2>3. \A name, page : SnapshotRead(name, page)' = SnapshotRead(name, page)
    BY <2>1, SamePages
  <2>4. \A name, page : SnapshotPage(name, page)' = SnapshotPage(name, page)
    BY <2>1 DEF SnapshotPage, HasSnapshot, SnapshotDatabases
  <2> QED BY <2>1, <2>2, <2>3, <2>4 DEF SnapshotInv
<1>6. CASE InsertFrame
  <2> DEFINE frame == CurrentEntry.frames[frm + 1]
  <2>1. /\ AtEntry /\ AtSegment /\ index \in raft_log /\ FramesLeft /\ ent \in Nat /\ frm \in Nat
        /\ stage = "segments" /\ stage' = "segments"
        /\ RowOf(frame) \notin DOMAIN dqlite_transaction
        /\ dqlite_page' = Extend(dqlite_page, NextId, frame.data)
        /\ dqlite_transaction' = Extend(dqlite_transaction, RowOf(frame), NextId)
        /\ UNCHANGED <<folder, dqlite_database>>
    BY <1>6 DEF InsertFrame, AtEntry, AtSegment, IInv, TypeOK
  <2>2. CurrentEntry.name \in Database /\ frame.page \in PageNumber /\ frame.data \in Content
    BY <1>1, <2>1, FrameFacts
  <2>3. ~(0 >= index)
    <3>1. first_index < index /\ first_index \in Nat /\ index \in Nat
      BY <2>1 DEF IInv, Upwards, TypeOK, Index
    <3> QED BY <3>1
  <2>4. ASSUME NEW name \in Database, NEW page \in PageNumber
        PROVE  SnapshotRead(name, page)' = SnapshotRead(name, page)
    <3>1. RowOf(frame) = <<index, CurrentEntry.name, frame.page>>
      BY DEF RowOf
    <3> HIDE DEF frame
    <3>2. ReadPage(name, page, 0)' =
            IF <<name, page>> = <<CurrentEntry.name, frame.page>> /\ 0 >= index
            THEN frame.data ELSE ReadPage(name, page, 0)
      BY <2>1, <2>2, <3>1, FrameReads
    <3> QED BY <2>3, <3>2 DEF SnapshotRead
  <2>5. \A name, page : SnapshotPage(name, page)' = SnapshotPage(name, page)
    BY <2>1 DEF SnapshotPage, HasSnapshot, SnapshotDatabases
  <2> QED BY <2>1, <2>4, <2>5 DEF SnapshotInv
<1>7. CASE \/ SkipSegment \/ SkipEntry \/ InsertEntry \/ NextEntry \/ EndSegment \/ FinishLoading
           \/ \E i \in Index : SetCurrentIndex(i)
           \/ \E name \in Database : OpenFile(name)
           \/ \E file \in files : CloseFile(file)
  <2>1. /\ UNCHANGED <<folder, dqlite_page, dqlite_database, dqlite_transaction>>
        /\ stage \in {"segments", "serving"} /\ stage' \in {"segments", "serving"}
    BY <1>7 DEF SkipSegment, SkipEntry, InsertEntry, NextEntry, EndSegment, FinishLoading,
                AtEntry, AtSegment, SetCurrentIndex, OpenFile, CloseFile
  <2>2. \A name, page : SnapshotRead(name, page)' = SnapshotRead(name, page)
    BY <2>1, SamePages
  <2>3. \A name, page : SnapshotPage(name, page)' = SnapshotPage(name, page)
    BY <2>1 DEF SnapshotPage, HasSnapshot, SnapshotDatabases
  <2> QED BY <2>1, <2>2, <2>3 DEF SnapshotInv
<1>8. CASE LoadFails \/ LoadAgain
  BY <1>8 DEF LoadFails, LoadAgain, SnapshotInv
<1>9. CASE UNCHANGED vars
  <2>1. \A name, page : SnapshotRead(name, page)' = SnapshotRead(name, page)
    BY <1>9, SamePages DEF vars
  <2>2. \A name, page : SnapshotPage(name, page)' = SnapshotPage(name, page)
    BY <1>9 DEF vars, SnapshotPage, HasSnapshot, SnapshotDatabases
  <2>3. SnapshotRows' <=> SnapshotRows
    <3>1. \A d, page : DatabaseSoFar(d, page)' = DatabaseSoFar(d, page)
      BY <1>9 DEF vars, DatabaseSoFar, SnapshotDatabases
    <3> QED BY <1>9, <2>1, <3>1 DEF vars, SnapshotRows, SnapshotDatabases
  <2> QED BY <1>9, <2>1, <2>2, <2>3 DEF vars, SnapshotInv
<1> QED BY <1>2, <1>3, <1>4, <1>5, <1>6, <1>7, <1>8, <1>9 DEF Next, LoadStep

-----------------------------------------------------------------------------
(* Everything that is invariant, for the theorems about the loaded folder. *)
ReplayInv == IInv /\ OneRowPerPage /\ LogInv /\ RowInv /\ SnapshotInv

(* All of them hold in every reachable state. *)
LEMMA ReplayInvariance == Spec => []ReplayInv
<1>1. Init => LogInv /\ RowInv /\ SnapshotInv
  BY DEF Init, LogInv, RowInv, SnapshotInv
<1>2. IInv /\ OneRowPerPage /\ LogInv /\ RowInv /\ SnapshotInv /\ [Next]_vars
        => LogInv' /\ RowInv' /\ SnapshotInv'
  BY LogInvStep, RowInvStep, SnapshotInvStep
<1> QED BY <1>1, <1>2, Invariance, OneRowPerPageInvariance, PTL DEF Spec, ReplayInv

(* Written, with its unions spelt out. *)
LEMMA WrittenFrames ==
  ASSUME folder \in Folders, NEW i, NEW name, NEW page, NEW data
  PROVE  data \in Written(i, name, page) <=>
           \E s \in DOMAIN folder.segments : \E e \in DOMAIN folder.segments[s].entries :
             /\ Number(s, e) = i /\ Entry(s, e).type = "frames" /\ Entry(s, e).name = name
             /\ \E n \in DOMAIN Entry(s, e).frames :
                  Entry(s, e).frames[n].page = page /\ Entry(s, e).frames[n].data = data
<1> DEFINE At(s) == {x \in DOMAIN folder.segments[s].entries : RaftIndex(folder, s, x) = i}
           Column(s) == UNION {Frames(folder.segments[s].entries[e], name) : e \in At(s)}
           All == UNION {Column(s) : s \in DOMAIN folder.segments}
<1>1. Written(i, name, page) = {frame.data : frame \in {fr \in All : fr.page = page}}
  BY DEF Written
<1>2. ASSUME NEW frame
      PROVE  frame \in All <=>
               \E s \in DOMAIN folder.segments : \E e \in DOMAIN folder.segments[s].entries :
                 Number(s, e) = i /\ frame \in Frames(Entry(s, e), name)
  <2>1. ASSUME NEW s PROVE frame \in Column(s) <=> \E e \in At(s) : frame \in Frames(Entry(s, e), name)
    BY DEF Entry
  <2>2. frame \in All <=> \E s \in DOMAIN folder.segments : frame \in Column(s)
    OBVIOUS
  <2> HIDE DEF All, Column
  <2> QED BY <2>1, <2>2 DEF Number
<1>3. \A s, e, frame :
        frame \in Frames(Entry(s, e), name) <=>
          /\ Entry(s, e).type = "frames" /\ Entry(s, e).name = name
          /\ \E n \in DOMAIN Entry(s, e).frames : frame = Entry(s, e).frames[n]
  BY DEF Frames, Range
<1> HIDE DEF All
<1>4. data \in Written(i, name, page) <=> \E frame \in All : frame.page = page /\ frame.data = data
  BY <1>1
<1>5. ASSUME data \in Written(i, name, page)
      PROVE  \E s \in DOMAIN folder.segments : \E e \in DOMAIN folder.segments[s].entries :
               /\ Number(s, e) = i /\ Entry(s, e).type = "frames" /\ Entry(s, e).name = name
               /\ \E n \in DOMAIN Entry(s, e).frames :
                    Entry(s, e).frames[n].page = page /\ Entry(s, e).frames[n].data = data
  <2>1. PICK frame \in All : frame.page = page /\ frame.data = data
    BY <1>4, <1>5
  <2>2. PICK s \in DOMAIN folder.segments : \E e \in DOMAIN folder.segments[s].entries :
          Number(s, e) = i /\ frame \in Frames(Entry(s, e), name)
    BY <1>2
  <2>3. PICK e \in DOMAIN folder.segments[s].entries :
          Number(s, e) = i /\ frame \in Frames(Entry(s, e), name)
    BY <2>2
  <2> QED BY <1>3, <2>1, <2>3
<1>6. ASSUME NEW s \in DOMAIN folder.segments, NEW e \in DOMAIN folder.segments[s].entries,
             Number(s, e) = i, Entry(s, e).type = "frames", Entry(s, e).name = name,
             NEW n \in DOMAIN Entry(s, e).frames,
             Entry(s, e).frames[n].page = page, Entry(s, e).frames[n].data = data
      PROVE  data \in Written(i, name, page)
  <2>1. Entry(s, e).frames[n] \in All
    BY <1>2, <1>3, <1>6
  <2> QED BY <1>4, <1>6, <2>1
<1> QED BY <1>5, <1>6

(* Once the folder is served, the rows at an index are what the log says. *)
LEMMA WrittenIsRow ==
  ASSUME ReplayInv, stage = "serving", Numbered,
         NEW name \in Database, NEW page \in PageNumber, NEW i \in Nat, first_index < i
  PROVE  IF <<i, name, page>> \in DOMAIN dqlite_transaction
         THEN Written(i, name, page) = {dqlite_page[dqlite_transaction[<<i, name, page>>]]}
         ELSE Written(i, name, page) = {}
<1> DEFINE row == <<i, name, page>>
<1>1. /\ folder \in Folders /\ index \in Nat /\ AtCursor /\ FrameRows
      /\ seg = Len(folder.segments) + 1
  BY DEF ReplayInv, IInv, TypeOK, LogInv, RowInv
<1>2. ASSUME NEW s \in DOMAIN folder.segments, NEW e \in DOMAIN folder.segments[s].entries,
             Number(s, e) = i, NEW n
      PROVE  Inserted(s, e, n)
  <2>1. /\ folder.segments # <<>> /\ seg \in 1..(Len(folder.segments) + 1) /\ s < seg
        /\ seg \notin DOMAIN folder.segments
    BY <1>1, Shape
  <2>2. ent = 0 /\ 0 + 1 = 1
    BY <1>1, <2>1 DEF AtCursor
  <2>3. index = Number(seg, 1)
    BY <1>1, <2>1, <2>2 DEF AtCursor
  <2>4. Number(s, e) < Number(seg, 1)
    BY <1>1, <2>1, EntryNumbers
  <2> QED BY <1>2, <2>3, <2>4 DEF Inserted
<1>3. ASSUME NEW data \in Written(i, name, page)
      PROVE  row \in DOMAIN dqlite_transaction /\ data = dqlite_page[dqlite_transaction[row]]
  <2>1. PICK s \in DOMAIN folder.segments : \E e \in DOMAIN folder.segments[s].entries :
          /\ Number(s, e) = i /\ Entry(s, e).type = "frames" /\ Entry(s, e).name = name
          /\ \E n \in DOMAIN Entry(s, e).frames :
               Entry(s, e).frames[n].page = page /\ Entry(s, e).frames[n].data = data
    BY <1>1, WrittenFrames
  <2>2. PICK e \in DOMAIN folder.segments[s].entries :
          /\ Number(s, e) = i /\ Entry(s, e).type = "frames" /\ Entry(s, e).name = name
          /\ \E n \in DOMAIN Entry(s, e).frames :
               Entry(s, e).frames[n].page = page /\ Entry(s, e).frames[n].data = data
    BY <2>1
  <2>3. PICK n \in DOMAIN Entry(s, e).frames :
          Entry(s, e).frames[n].page = page /\ Entry(s, e).frames[n].data = data
    BY <2>2
  <2>4. RowAt(s, e, n) = row
    BY <2>2, <2>3 DEF RowAt
  <2> QED BY <1>1, <1>2, <2>2, <2>3, <2>4 DEF FrameRows
<1>4. ASSUME row \in DOMAIN dqlite_transaction
      PROVE  Written(i, name, page) # {}
  <2>1. PICK s \in DOMAIN folder.segments : \E e \in DOMAIN folder.segments[s].entries :
          /\ Entry(s, e).type = "frames"
          /\ \E n \in DOMAIN Entry(s, e).frames : Inserted(s, e, n) /\ row = RowAt(s, e, n)
    BY <1>1, <1>4 DEF FrameRows
  <2>2. PICK e \in DOMAIN folder.segments[s].entries :
          /\ Entry(s, e).type = "frames"
          /\ \E n \in DOMAIN Entry(s, e).frames : Inserted(s, e, n) /\ row = RowAt(s, e, n)
    BY <2>1
  <2>3. PICK n \in DOMAIN Entry(s, e).frames : row = RowAt(s, e, n)
    BY <2>2
  <2>4. Number(s, e) = i /\ Entry(s, e).name = name /\ Entry(s, e).frames[n].page = page
    BY <2>3 DEF RowAt
  <2>5. Entry(s, e).frames[n].data \in Written(i, name, page)
    BY <1>1, <2>2, <2>3, <2>4, WrittenFrames
  <2> QED BY <2>5
<1> HIDE DEF row
<1>5. CASE row \in DOMAIN dqlite_transaction
  <2>1. Written(i, name, page) = {dqlite_page[dqlite_transaction[row]]}
    BY <1>3, <1>4, <1>5
  <2> QED BY <1>5, <2>1 DEF row
<1>6. CASE row \notin DOMAIN dqlite_transaction
  <2>1. Written(i, name, page) = {}
    BY <1>3, <1>6
  <2> QED BY <1>6, <2>1 DEF row
<1> QED BY <1>5, <1>6

(* Raft numbers the log as its names say, the code starts where raft does, and
   a node that never took a snapshot starts its log with its configuration. *)
NumberedByRaft ==
  /\ Numbered
  /\ ~HasSnapshot =>
       \A s \in DOMAIN folder.segments : \A e \in DOMAIN folder.segments[s].entries :
         Number(s, e) = 1 => Entry(s, e).type # "frames"

(* What is served at every index is the replay of the snapshot and the log. *)
THEOREM ReplayIsServed == Spec => [](NumberedByRaft => ReadsReplayLog)
<1>1. ReplayInv => (NumberedByRaft => ReadsReplayLog)
  <2> SUFFICES ASSUME ReplayInv, NumberedByRaft, stage = "serving",
                      NEW i \in first_index..last_index, NEW name \in Database, NEW page \in PageNumber
               PROVE  ReadPage(name, page, i) = Replayed(name, page, i)
    BY DEF ReadsReplayLog
  <2> DEFINE base == IF HasSnapshot THEN folder.snapshots[1].index ELSE 0
             W == {j \in base + 1..i : Written(j, name, page) # {}}
             C == Changes(name, page, i)
  <2>1. /\ folder \in Folders /\ Numbered /\ first_index \in Nat /\ i \in Nat
        /\ raft_log \subseteq Nat /\ \A j \in raft_log : first_index < j
        /\ \A k \in DOMAIN dqlite_transaction : k[1] \in raft_log
    BY DEF ReplayInv, NumberedByRaft, IInv, TypeOK, Upwards, Index
  <2>2. base \in Nat /\ base <= first_index
    <3>1. IF HasSnapshot THEN first_index = folder.snapshots[1].index
          ELSE first_index = 1 /\ FirstIndex(folder) = 1
      BY DEF ReplayInv, LogInv
    <3> QED BY <2>1, <3>1
  <2>3. ASSUME NEW j \in Nat, base < j, j <= first_index
        PROVE  Written(j, name, page) = {}
    <3>1. ~HasSnapshot /\ j = 1
      <4>1. IF HasSnapshot THEN first_index = folder.snapshots[1].index
            ELSE first_index = 1 /\ FirstIndex(folder) = 1
        BY DEF ReplayInv, LogInv
      <4> QED BY <2>1, <2>3, <4>1
    <3>2. ASSUME NEW data \in Written(j, name, page) PROVE FALSE
      BY <2>1, <3>1, WrittenFrames DEF NumberedByRaft
    <3> QED BY <3>2
  <2>4. W = C
    <3>1. ASSUME NEW j \in W PROVE j \in C
      <4>1. j \in Nat /\ base < j /\ j <= i /\ Written(j, name, page) # {}
        BY <2>1, <2>2
      <4>2. first_index < j
        BY <2>1, <2>3, <4>1
      <4>3. <<j, name, page>> \in DOMAIN dqlite_transaction
        BY <2>1, <4>1, <4>2, WrittenIsRow
      <4>4. j \in 1..i
        BY <2>1, <4>1, <4>2
      <4> QED BY <4>3, <4>4 DEF Changes
    <3>2. ASSUME NEW j \in C PROVE j \in W
      <4>1. j \in 1..i /\ <<j, name, page>> \in DOMAIN dqlite_transaction
        BY DEF Changes
      <4>2. j \in Nat /\ first_index < j /\ j \in base + 1..i
        <5>1. j \in raft_log
          BY <2>1, <4>1
        <5> QED BY <2>1, <2>2, <4>1, <5>1
      <4>3. Written(j, name, page) # {}
        BY <2>1, <4>1, <4>2, WrittenIsRow
      <4> QED BY <4>2, <4>3
    <3> QED BY <3>1, <3>2
  <2>5. Replayed(name, page, i) =
          IF W = {} THEN SnapshotPage(name, page)
          ELSE CHOOSE data \in Written(Max(W), name, page) : TRUE
    BY DEF Replayed
  <2>6. CASE C = {}
    <3>1. SnapshotRead(name, page) = SnapshotPage(name, page)
      BY DEF ReplayInv, SnapshotInv
    <3>2. Changes(name, page, 0) = {}
      BY DEF Changes
    <3>3. ReadPage(name, page, i) = ReadPage(name, page, 0)
      BY <2>6, <3>2 DEF ReadPage
    <3> QED BY <2>4, <2>5, <2>6, <3>1, <3>3 DEF SnapshotRead
  <2>7. CASE C # {}
    <3> DEFINE m == Max(C)
               row == <<m, name, page>>
    <3>1. m \in C
      <4>1. C \subseteq Nat /\ \A j \in C : j <= i
        BY <2>1 DEF Changes
      <4> HIDE DEF C
      <4> QED BY <2>1, <2>7, <4>1, MaxExists
    <3> HIDE DEF m
    <3>2. row \in DOMAIN dqlite_transaction /\ m \in Nat
      BY <3>1 DEF Changes
    <3>3. first_index < m
      BY <2>1, <3>2
    <3>4. Written(m, name, page) = {dqlite_page[dqlite_transaction[row]]}
      BY <2>1, <3>2, <3>3, WrittenIsRow
    <3>5. ReadPage(name, page, i) = dqlite_page[dqlite_transaction[row]]
      BY <2>7 DEF ReadPage, m
    <3>6. Replayed(name, page, i) = CHOOSE data \in Written(m, name, page) : TRUE
      <4> HIDE DEF W, C
      <4>1. Max(W) = m /\ W # {}
        BY <2>4, <2>7 DEF m
      <4> QED BY <2>5, <4>1
    <3> QED BY <3>4, <3>5, <3>6
  <2> QED BY <2>6, <2>7
<1> QED BY ReplayInvariance, <1>1, PTL

-----------------------------------------------------------------------------
(* .log counts backwards from current_index and comes to the same numbers. *)
LEMMA LogCountsBackwards ==
  ASSUME folder \in Folders, NamedRight(folder),
         folder.segments # <<>>, IsClosed(folder.segments[1]),
         NEW s \in DOMAIN folder.segments
  PROVE  /\ LogIndexAfter(folder, s) = Number(s + 1, 1) - 1
         /\ \A e \in DOMAIN folder.segments[s].entries : LogIndex(folder, s, e) = Number(s, e)
<1> DEFINE F == folder.segments
           start == RaftStart(folder)
           upto == NumEntries(SubSeq(F, 1, s))
           all == NumEntries(F)
           tail == NumEntries(SubSeq(F, s + 1, Len(F)))
           last == Number(Len(F) + 1, 1)
           next == Number(s + 1, 1)
           first == Number(s, 1)
           size == Len(F[s].entries)
           current == CurrentIndex(folder)
<1>1. F \in Seq(Range(F)) /\ Len(F) \in Nat /\ DOMAIN F = 1..Len(F)
  BY Shape
<1>2. PICK E : \A segment \in Range(F) : segment.entries \in Seq(E)
  BY Shape
<1>3. /\ s \in 0..Len(F) /\ s \in 1..(Len(F) + 1) /\ s + 1 \in 1..(Len(F) + 1)
      /\ Len(F) + 1 \in 1..(Len(F) + 1) /\ 1 \in 1..(Len(F) + 1)
      /\ (s + 1) - 1 = s /\ (Len(F) + 1) - 1 = Len(F) /\ SubSeq(F, 1, Len(F)) = F
      /\ SubSeq(F, 1, s) \in Seq(Range(F)) /\ SubSeq(F, s + 1, Len(F)) \in Seq(Range(F))
  BY <1>1
<1>4. all = upto + tail /\ upto \in Nat /\ tail \in Nat
  <2> HIDE DEF F
  <2> QED BY <1>1, <1>2, <1>3, EntriesSplit, PlacesAreFinite
<1>5. /\ next = start + upto + 1 - 1 /\ last = start + all + 1 - 1
  BY <1>3 DEF Number, RaftIndex
<1>6. /\ start \in Nat /\ first \in Nat /\ size \in Nat /\ next = first + size
      /\ \A e \in Nat : Number(s, e) = first + e - 1
  <2>1. Number(1, 1) = start /\ Number(1, 1) \in Nat
    BY <1>3, NumberFacts
  <2>2. first \in Nat /\ next = first + size /\ \A e \in Nat : Number(s, e) = first + e - 1
    BY <1>3, NumberFacts
  <2> QED BY <2>1, <2>2, Shape
<1>7. current = last - 1
  BY CurrentIndexIsLast
<1>8. /\ LogIndexAfter(folder, s) = current - tail
      /\ \A e : LogIndex(folder, s, e) = LogIndexAfter(folder, s) - (size - e)
  BY DEF LogIndexAfter, LogIndex
<1>9. \A e \in DOMAIN folder.segments[s].entries : e \in Nat
  BY Shape
<1> HIDE DEF F, start, upto, all, tail, last, next, first, size, current
<1>10. LogIndexAfter(folder, s) = next - 1 /\ next = first + size
  BY <1>4, <1>5, <1>6, <1>7, <1>8
<1>11. ASSUME NEW e \in Nat PROVE LogIndex(folder, s, e) = Number(s, e)
  <2>1. LogIndexAfter(folder, s) = (first + size) - 1
    BY <1>10
  <2>2. LogIndex(folder, s, e) = LogIndexAfter(folder, s) - (size - e)
    BY <1>8
  <2>3. LogIndex(folder, s, e) = ((first + size) - 1) - (size - e)
    BY <2>1, <2>2, Zenon
  <2>4. ((first + size) - 1) - (size - e) = first + e - 1
    BY <1>6
  <2>5. Number(s, e) = first + e - 1
    BY <1>6
  <2> QED BY <2>3, <2>4, <2>5, Zenon
<1> QED BY <1>9, <1>10, <1>11 DEF next

(* The rows of raft_configuration: that of the snapshot, and the changes. *)
IsChangeAt(i) ==
  \E s \in DOMAIN folder.segments : \E e \in DOMAIN folder.segments[s].entries :
    Number(s, e) = i /\ IsChange(Entry(s, e))

ConfigurationRows ==
  /\ \A s \in DOMAIN folder.segments : \A e \in DOMAIN folder.segments[s].entries :
       Number(s, e) \in raft_log =>
         /\ Number(s, e) \in DOMAIN raft_configuration <=> IsChange(Entry(s, e))
         /\ IsChange(Entry(s, e)) => raft_configuration[Number(s, e)] = Entry(s, e).configuration
  /\ \A i \in DOMAIN raft_configuration \ {0} : IsChangeAt(i)

ConfigurationInv ==
  /\ DOMAIN raft_configuration \subseteq {0} \cup raft_log
  /\ stage = "start" => DOMAIN raft_configuration = {}
  /\ stage \in {"snapshot", "segments", "serving"} =>
       IF HasSnapshot
       THEN 0 \in DOMAIN raft_configuration /\
            raft_configuration[0] = folder.snapshots[1].configuration
       ELSE 0 \notin DOMAIN raft_configuration
  /\ stage = "failed" => DOMAIN raft_configuration = {}
  /\ stage \in {"segments", "serving"} /\ Numbered => ConfigurationRows

(* Every step keeps ConfigurationInv. *)
LEMMA ConfigurationInvStep == IInv /\ LogInv /\ ConfigurationInv /\ [Next]_vars => ConfigurationInv'
<1> SUFFICES ASSUME IInv, LogInv, ConfigurationInv, [Next]_vars PROVE ConfigurationInv'
  OBVIOUS
<1> USE DEF tables, cursor, served
<1>1. CASE BeginSnapshot
  <2>1. /\ stage = "start" /\ stage' = "snapshot" /\ HasSnapshot /\ UNCHANGED <<folder, raft_log>>
        /\ raft_configuration' = Extend(raft_configuration, 0, folder.snapshots[1].configuration)
    BY <1>1 DEF BeginSnapshot
  <2>2. DOMAIN raft_configuration' = {0} /\ raft_configuration'[0] = folder.snapshots[1].configuration
    BY <2>1 DEF ConfigurationInv, Extend
  <2> QED BY <2>1, <2>2 DEF ConfigurationInv, HasSnapshot
<1>2. CASE \/ LoadMainPage \/ LoadMainEnd \/ LoadWalEmpty \/ LoadWalFrame \/ LoadWalEnd
  <2>1. /\ stage = "snapshot" /\ stage' = "snapshot" /\ UNCHANGED <<folder, raft_log, raft_configuration>>
    BY <1>2 DEF LoadMainPage, LoadMainEnd, LoadWalEmpty, LoadWalFrame, LoadWalEnd, InsertSnapshotPage
  <2> QED BY <2>1 DEF ConfigurationInv, HasSnapshot
<1>3. CASE BeginWithoutSnapshot \/ FinishSnapshot
  <2>1. /\ stage \in {"start", "snapshot"} /\ stage' = "segments"
        /\ UNCHANGED <<folder, raft_log, raft_configuration>>
        /\ raft_log = {} /\ (HasSnapshot <=> stage = "snapshot")
    BY <1>3 DEF BeginWithoutSnapshot, FinishSnapshot, IInv, Staged
  <2>2. DOMAIN raft_configuration \subseteq {0}
    BY <2>1 DEF ConfigurationInv
  <2> QED BY <2>1, <2>2 DEF ConfigurationInv, HasSnapshot, ConfigurationRows
<1>4. CASE InsertEntry
  <2>1. /\ AtEntry /\ AtSegment /\ stage = "segments" /\ stage' = "segments" /\ first_index < index
        /\ index \in Nat /\ first_index \in Nat
        /\ index \notin raft_log /\ raft_log' = raft_log \cup {index} /\ UNCHANGED folder
        /\ raft_configuration' =
             IF IsChange(CurrentEntry) THEN Extend(raft_configuration, index, CurrentEntry.configuration)
             ELSE raft_configuration
    BY <1>4 DEF InsertEntry, AtEntry, AtSegment, IsChange, IInv, TypeOK, Index
  <2>2. index # 0 /\ index \notin DOMAIN raft_configuration
    BY <2>1 DEF ConfigurationInv
  <2>3. /\ DOMAIN raft_configuration' =
             DOMAIN raft_configuration \cup (IF IsChange(CurrentEntry) THEN {index} ELSE {})
        /\ IsChange(CurrentEntry) => raft_configuration'[index] = CurrentEntry.configuration
        /\ \A i \in DOMAIN raft_configuration : raft_configuration'[i] = raft_configuration[i]
    BY <2>1, <2>2 DEF Extend
  <2>4. ASSUME Numbered,
               NEW s \in DOMAIN folder.segments, NEW e \in DOMAIN folder.segments[s].entries,
               Number(s, e) \in raft_log'
        PROVE  /\ Number(s, e) \in DOMAIN raft_configuration' <=> IsChange(Entry(s, e))
               /\ IsChange(Entry(s, e)) => raft_configuration'[Number(s, e)] = Entry(s, e).configuration
    <3>1. AtCursor /\ ConfigurationRows
      BY <2>1, <2>4 DEF LogInv, ConfigurationInv
    <3>2. CASE Number(s, e) = index
      <4>1. Entry(s, e) = CurrentEntry
        BY <2>1, <3>1, <3>2, AtIndex
      <4> QED BY <2>2, <2>3, <3>2, <4>1
    <3>3. CASE Number(s, e) # index
      <4>1. Number(s, e) \in raft_log
        BY <2>1, <2>4, <3>3
      <4> QED BY <2>3, <3>1, <3>3, <4>1 DEF ConfigurationRows
    <3> QED BY <3>2, <3>3
  <2>5. Numbered' => ConfigurationRows'
    <3>1. /\ \A s, e : Entry(s, e)' = Entry(s, e) /\ Number(s, e)' = Number(s, e)
          /\ \A i : IsChangeAt(i)' = IsChangeAt(i)
          /\ Numbered' = Numbered /\ folder' = folder
      BY <2>1 DEF Entry, Number, Numbered, IsChangeAt
    <3>2. ASSUME Numbered, NEW i \in DOMAIN raft_configuration' \ {0}
          PROVE  IsChangeAt(i)
      <4>1. CASE i \in DOMAIN raft_configuration
        BY <2>1, <3>2, <4>1 DEF ConfigurationInv, ConfigurationRows
      <4>2. CASE i \notin DOMAIN raft_configuration
        <5>1. i = index /\ IsChange(CurrentEntry)
          BY <2>3, <3>2, <4>2
        <5>2. /\ seg \in DOMAIN folder.segments /\ ent + 1 \in DOMAIN folder.segments[seg].entries
              /\ Number(seg, ent + 1) = index /\ Entry(seg, ent + 1) = CurrentEntry
          <6>1. /\ AtCursor /\ folder \in Folders /\ ent \in Nat /\ seg \in DOMAIN folder.segments
                /\ ent < Len(folder.segments[seg].entries)
            BY <2>1, <3>2 DEF LogInv, IInv, TypeOK, AtEntry, AtSegment, CurrentSegment
          <6>2. folder.segments # <<>> /\ ent + 1 \in DOMAIN folder.segments[seg].entries
            BY <6>1, Shape
          <6> QED BY <6>1, <6>2 DEF AtCursor, Entry, CurrentEntry, CurrentSegment
        <5> QED BY <5>1, <5>2 DEF IsChangeAt
      <4> QED BY <4>1, <4>2
    <3> QED BY <2>4, <3>1, <3>2 DEF ConfigurationRows
  <2>6. DOMAIN raft_configuration' \subseteq {0} \cup raft_log'
    BY <2>1, <2>3 DEF ConfigurationInv
  <2>7. 0 \in DOMAIN raft_configuration' <=> 0 \in DOMAIN raft_configuration
    BY <2>2, <2>3
  <2> QED BY <2>1, <2>3, <2>5, <2>6, <2>7 DEF ConfigurationInv, HasSnapshot
<1>5. CASE \/ SkipSegment \/ SkipEntry \/ InsertFrame \/ NextEntry \/ EndSegment \/ FinishLoading
           \/ \E i \in Index : SetCurrentIndex(i)
           \/ \E name \in Database : OpenFile(name)
           \/ \E file \in files : CloseFile(file)
  <2>1. /\ UNCHANGED <<folder, raft_log, raft_configuration>>
        /\ stage \in {"segments", "serving"} /\ stage' \in {"segments", "serving"}
    BY <1>5 DEF SkipSegment, SkipEntry, InsertFrame, NextEntry, EndSegment, FinishLoading,
                AtEntry, AtSegment, SetCurrentIndex, OpenFile, CloseFile
  <2>2. ConfigurationRows' <=> ConfigurationRows
    BY <2>1 DEF ConfigurationRows, IsChangeAt, Entry, Number
  <2> QED BY <2>1, <2>2 DEF ConfigurationInv, HasSnapshot, Numbered
<1>6. CASE LoadFails
  BY <1>6 DEF LoadFails, ConfigurationInv, Empty
<1>7. CASE LoadAgain
  BY <1>7 DEF LoadAgain, ConfigurationInv, HasSnapshot
<1>8. CASE UNCHANGED vars
  <2>1. UNCHANGED <<folder, stage, raft_log, raft_configuration>>
    BY <1>8 DEF vars
  <2>2. ConfigurationRows' <=> ConfigurationRows
    BY <2>1 DEF ConfigurationRows, IsChangeAt, Entry, Number
  <2> QED BY <2>1, <2>2 DEF ConfigurationInv, HasSnapshot, Numbered
<1> QED BY <1>1, <1>2, <1>3, <1>4, <1>5, <1>6, <1>7, <1>8 DEF Next, LoadStep

(* ConfigurationInv holds in every reachable state. *)
LEMMA ConfigurationInvariance == Spec => [](ReplayInv /\ ConfigurationInv)
<1>1. Init => ConfigurationInv
  BY DEF Init, ConfigurationInv, Empty
<1>2. ReplayInv /\ ConfigurationInv /\ [Next]_vars => ConfigurationInv'
  BY ConfigurationInvStep DEF ReplayInv
<1> QED BY <1>1, <1>2, ReplayInvariance, PTL DEF Spec

(* When loading is finished, an entry behind the snapshot has its row. *)
LEMMA ShownIsLoaded ==
  ASSUME ReplayInv, ConfigurationInv, Numbered, FinishLoading,
         NEW s \in DOMAIN folder.segments, NEW e \in DOMAIN folder.segments[s].entries,
         first_index < Number(s, e)
  PROVE  /\ Number(s, e) \in raft_log
         /\ {k \in DOMAIN dqlite_transaction : k[1] = Number(s, e)} =
              IF Entry(s, e).type = "frames"
              THEN {<<Number(s, e), Entry(s, e).name, Entry(s, e).frames[n].page>> :
                      n \in DOMAIN Entry(s, e).frames}
              ELSE {}
         /\ Number(s, e) \in DOMAIN raft_configuration <=> IsChange(Entry(s, e))
<1> DEFINE i == Number(s, e)
<1>1. /\ folder \in Folders /\ stage = "segments" /\ seg = Len(folder.segments) + 1
      /\ folder.segments # <<>> /\ AtCursor /\ LogRows /\ FrameRows /\ ConfigurationRows
  <2>1. stage = "segments" /\ seg = Len(folder.segments) + 1 /\ folder \in Folders
    BY DEF FinishLoading, ReplayInv, IInv, TypeOK
  <2>2. folder.segments # <<>>
    BY <2>1, Shape
  <2> QED BY <2>1, <2>2 DEF ReplayInv, LogInv, RowInv, ConfigurationInv
<1>2. i < index
  <2>1. /\ seg \in 1..(Len(folder.segments) + 1) /\ s < seg /\ seg \notin DOMAIN folder.segments
    BY <1>1, Shape
  <2>2. ent = 0 /\ 0 + 1 = 1
    BY <1>1, <2>1 DEF AtCursor
  <2>3. index = Number(seg, 1)
    BY <1>1, <2>2 DEF AtCursor
  <2>4. Number(s, e) < Number(seg, 1)
    BY <1>1, <2>1, EntryNumbers
  <2> QED BY <2>3, <2>4
<1>3. i \in raft_log
  <2>1. i \in Nat
    BY <1>1, EntryIndex
  <2>2. RaftStart(folder) <= i
    BY <1>1, StartsFirst
  <2> QED BY <1>1, <1>2, <2>1, <2>2 DEF LogRows
<1>4. \A n : Inserted(s, e, n)
  BY <1>2 DEF Inserted
<1>5. ASSUME NEW k \in DOMAIN dqlite_transaction, k[1] = i
      PROVE  Entry(s, e).type = "frames" /\ \E n \in DOMAIN Entry(s, e).frames : k = RowAt(s, e, n)
  <2>1. PICK t \in DOMAIN folder.segments : \E d \in DOMAIN folder.segments[t].entries :
          /\ Entry(t, d).type = "frames"
          /\ \E n \in DOMAIN Entry(t, d).frames : Inserted(t, d, n) /\ k = RowAt(t, d, n)
    BY <1>1 DEF FrameRows
  <2>2. PICK d \in DOMAIN folder.segments[t].entries :
          /\ Entry(t, d).type = "frames"
          /\ \E n \in DOMAIN Entry(t, d).frames : Inserted(t, d, n) /\ k = RowAt(t, d, n)
    BY <2>1
  <2>3. PICK n \in DOMAIN Entry(t, d).frames : k = RowAt(t, d, n)
    BY <2>2
  <2>4. Number(t, d) = Number(s, e)
    BY <1>5, <2>3 DEF RowAt
  <2>5. s = t /\ e = d
    BY <1>1, <2>4, NumbersDiffer
  <2> QED BY <2>2, <2>3, <2>5
<1>6. ASSUME Entry(s, e).type = "frames", NEW n \in DOMAIN Entry(s, e).frames
      PROVE  RowAt(s, e, n) \in DOMAIN dqlite_transaction /\ RowAt(s, e, n)[1] = i
  BY <1>1, <1>4, <1>6 DEF FrameRows, RowAt
<1>7. {k \in DOMAIN dqlite_transaction : k[1] = i} =
        IF Entry(s, e).type = "frames"
        THEN {RowAt(s, e, n) : n \in DOMAIN Entry(s, e).frames}
        ELSE {}
  <2> HIDE DEF i
  <2>1. CASE Entry(s, e).type = "frames"
    BY <1>5, <1>6, <2>1
  <2>2. CASE Entry(s, e).type # "frames"
    BY <1>5, <2>2
  <2> QED BY <2>1, <2>2
<1>8. i \in DOMAIN raft_configuration <=> IsChange(Entry(s, e))
  BY <1>1, <1>3 DEF ConfigurationRows
<1> QED BY <1>3, <1>7, <1>8 DEF RowAt

(* The files of the folder are only read. *)
LEMMA FolderStays == [Next]_vars => folder' = folder
BY DEF Next, LoadStep, vars, BeginSnapshot, BeginWithoutSnapshot, LoadMainPage, LoadMainEnd,
       LoadWalEmpty, LoadWalFrame, LoadWalEnd, FinishSnapshot, SkipSegment, SkipEntry,
       InsertEntry, InsertFrame, NextEntry, EndSegment, FinishLoading, LoadFails, LoadAgain,
       SetCurrentIndex, OpenFile, CloseFile

(* .log shows what .open loaded, of every folder whose closed segments are
   named after the entries they hold. *)
THEOREM LogIsWhatIsLoaded == Spec /\ NamedRight(folder) => LogShowsWhatIsLoaded
<1>1. [Next]_vars => (NamedRight(folder) => NamedRight(folder)')
  BY FolderStays
<1>2. ASSUME ReplayInv, ConfigurationInv, NamedRight(folder), FinishLoading, LogIsContiguous
      PROVE  /\ LogAssertion(folder)
             /\ \A s \in DOMAIN folder.segments : \A e \in DOMAIN folder.segments[s].entries :
                  LET entry == folder.segments[s].entries[e]
                      i == LogIndex(folder, s, e)
                  IN i > first_index =>
                       /\ i \in raft_log
                       /\ {k \in DOMAIN dqlite_transaction : k[1] = i} =
                            IF entry.type = "frames"
                            THEN {<<i, entry.name, entry.frames[n].page>> : n \in DOMAIN entry.frames}
                            ELSE {}
                       /\ i \in DOMAIN raft_configuration <=> IsChange(entry)
  <2>1. folder \in Folders /\ first_index \in Nat
    BY <1>2 DEF ReplayInv, IInv, TypeOK, Index
  <2>2. CASE folder.segments = <<>>
    BY <2>1, <2>2, Shape DEF LogAssertion
  <2>3. CASE folder.segments # <<>>
    <3>1. IsClosed(folder.segments[1])
      BY <1>2, <2>3 DEF LogIsContiguous
    <3>2. Numbered
      BY <1>2, <2>3, <3>1 DEF Numbered, FirstIndex, RaftStart
    <3>3. ASSUME NEW s \in DOMAIN folder.segments, IsClosed(folder.segments[s])
          PROVE  LogIndexAfter(folder, s) = folder.segments[s].end
      <4> DEFINE next == Number(s + 1, 1)
                 first == Number(s, 1)
                 size == Len(folder.segments[s].entries)
                 end == folder.segments[s].end
                 shown == LogIndexAfter(folder, s)
      <4>1. shown = next - 1
        BY <1>2, <2>1, <2>3, <3>1, LogCountsBackwards
      <4>2. end = folder.segments[s].first + size - 1 /\ folder.segments[s].first = first
        BY <1>2, <3>3 DEF NamedRight, Number
      <4>3. next = first + size /\ first \in Nat /\ size \in Nat
        <5>1. s \in 1..(Len(folder.segments) + 1)
          BY <2>1, Shape
        <5> QED BY <2>1, <5>1, NumberFacts, Shape
      <4>4. end = first + size - 1
        BY <4>2
      <4> HIDE DEF next, first, size, end, shown
      <4>5. shown = end
        BY <4>1, <4>3, <4>4
      <4> QED BY <4>5 DEF shown, end
    <3>4. ASSUME NEW s \in DOMAIN folder.segments, NEW e \in DOMAIN folder.segments[s].entries,
                 LogIndex(folder, s, e) > first_index
          PROVE  LET entry == folder.segments[s].entries[e]
                     i == LogIndex(folder, s, e)
                 IN /\ i \in raft_log
                    /\ {k \in DOMAIN dqlite_transaction : k[1] = i} =
                         IF entry.type = "frames"
                         THEN {<<i, entry.name, entry.frames[n].page>> : n \in DOMAIN entry.frames}
                         ELSE {}
                    /\ i \in DOMAIN raft_configuration <=> IsChange(entry)
      <4>1. LogIndex(folder, s, e) = Number(s, e)
        BY <1>2, <2>1, <2>3, <3>1, LogCountsBackwards
      <4>2. Number(s, e) \in Nat
        BY <2>1, EntryIndex
      <4>3. first_index < Number(s, e)
        <5> DEFINE number == Number(s, e)
        <5>1. number > first_index /\ number \in Nat
          BY <3>4, <4>1, <4>2
        <5> HIDE DEF number
        <5>2. first_index < number
          BY <2>1, <5>1
        <5> QED BY <5>2 DEF number
      <4> QED BY <1>2, <3>2, <4>1, <4>3, ShownIsLoaded DEF Entry
    <3> QED BY <3>3, <3>4 DEF LogAssertion
  <2> QED BY <2>2, <2>3
<1>3. ReplayInv /\ ConfigurationInv /\ NamedRight(folder) /\ [Next]_vars
        => [FinishLoading /\ LogIsContiguous =>
              /\ LogAssertion(folder)
              /\ \A s \in DOMAIN folder.segments : \A e \in DOMAIN folder.segments[s].entries :
                   LET entry == folder.segments[s].entries[e]
                       i == LogIndex(folder, s, e)
                   IN i > first_index =>
                        /\ i \in raft_log
                        /\ {k \in DOMAIN dqlite_transaction : k[1] = i} =
                             IF entry.type = "frames"
                             THEN {<<i, entry.name, entry.frames[n].page>> : n \in DOMAIN entry.frames}
                             ELSE {}
                        /\ i \in DOMAIN raft_configuration <=> IsChange(entry)]_vars
  BY <1>2
<1> QED BY <1>1, <1>3, ConfigurationInvariance, PTL DEF Spec, LogShowsWhatIsLoaded

-----------------------------------------------------------------------------
(* The configurations of a folder raft wrote: one is in force at every index,
   a change in the log sets it, an entry of the log that is not a change keeps
   it, and a snapshot has the one at its index.  The log goes on at least up to
   the newest snapshot. *)
ConfigurationsOfRaft ==
  /\ \A n \in DOMAIN folder.snapshots :
       /\ folder.snapshots[1].index <= folder.snapshots[n].index
       /\ folder.snapshots[n].index <= CurrentIndex(folder)
  /\ \E inForce \in [Index -> Configuration] :
       /\ \A n \in DOMAIN folder.snapshots :
            folder.snapshots[n].configuration = inForce[folder.snapshots[n].index]
       /\ \A s \in DOMAIN folder.segments : \A e \in DOMAIN folder.segments[s].entries :
            IsChange(Entry(s, e)) => inForce[Number(s, e)] = Entry(s, e).configuration
       /\ \A i, j \in Index :
            /\ RaftStart(folder) <= i + 1 /\ i <= j /\ j <= CurrentIndex(folder)
            /\ \A k \in i + 1..j : ~IsChangeAt(k)
            => inForce[i] = inForce[j]

(* The newest change, if there is one. *)
LEMMA NewestChange ==
  ASSUME folder \in Folders, ChangesIn(folder) # {},
         NEW c, c = CHOOSE p \in ChangesIn(folder) : \A d \in ChangesIn(folder) : Later(p, d)
  PROVE  \E s \in DOMAIN folder.segments : \E e \in DOMAIN folder.segments[s].entries :
           /\ c = <<s, e>> /\ IsChange(Entry(s, e)) /\ Number(s, e) \in Nat
           /\ \A i : IsChangeAt(i) => i <= Number(s, e)
<1> DEFINE Changed == ChangesIn(folder)
           Num(p) == Number(p[1], p[2])
           Numbers == {Num(p) : p \in Changed}
           bound == Number(Len(folder.segments) + 1, 1)
<1>1. \A p : p \in Changed <=>
        \E s \in DOMAIN folder.segments : \E e \in DOMAIN folder.segments[s].entries :
          p = <<s, e>> /\ IsChange(Entry(s, e))
  BY DEF ChangesIn, Places, Entry
<1>2. ASSUME NEW s \in DOMAIN folder.segments, NEW e \in DOMAIN folder.segments[s].entries
      PROVE  Number(s, e) \in Nat /\ Number(s, e) <= bound /\ bound \in Nat
  <2>1. /\ Len(folder.segments) + 1 \in 1..(Len(folder.segments) + 1)
        /\ s < Len(folder.segments) + 1
    BY Shape
  <2>2. Number(s, e) < bound /\ bound \in Nat
    BY <2>1, EntryNumbers, NumberFacts
  <2>3. Number(s, e) \in Nat
    BY EntryIndex
  <2> DEFINE number == Number(s, e)
  <2>4. number < bound /\ bound \in Nat /\ number \in Nat
    BY <2>2, <2>3
  <2> HIDE DEF number, bound
  <2>5. number <= bound
    BY <2>4
  <2> QED BY <2>4, <2>5 DEF number
<1>3. \A p \in Changed : Num(p) \in Nat /\ Num(p) <= bound /\ bound \in Nat
  <2> SUFFICES ASSUME NEW p \in Changed PROVE Num(p) \in Nat /\ Num(p) <= bound /\ bound \in Nat
    OBVIOUS
  <2>1. PICK s \in DOMAIN folder.segments : \E e \in DOMAIN folder.segments[s].entries : p = <<s, e>>
    BY <1>1
  <2>2. PICK e \in DOMAIN folder.segments[s].entries : p = <<s, e>>
    BY <2>1
  <2>3. Num(p) = Number(s, e)
    BY <2>2
  <2> QED BY <1>2, <2>3
<1>4. PICK newest \in Changed : \A p \in Changed : Num(p) <= Num(newest)
  <2>1. /\ Numbers \subseteq Nat /\ Numbers # {} /\ bound \in Nat
        /\ \A x \in Numbers : x <= bound
    <3> HIDE DEF Changed, Num, bound
    <3> QED BY <1>3 DEF Changed
  <2>2. Max(Numbers) \in Numbers /\ \A x \in Numbers : x <= Max(Numbers)
    <3> HIDE DEF Numbers, bound
    <3> QED BY <2>1, MaxExists
  <2> HIDE DEF Changed, Num
  <2> QED BY <2>2
<1>5. PICK t \in DOMAIN folder.segments : \E d \in DOMAIN folder.segments[t].entries :
        newest = <<t, d>> /\ IsChange(Entry(t, d))
  BY <1>1
<1>6. PICK d \in DOMAIN folder.segments[t].entries : newest = <<t, d>> /\ IsChange(Entry(t, d))
  BY <1>5
<1>7. \A p \in Changed : Later(newest, p)
  <2> SUFFICES ASSUME NEW p \in Changed PROVE Later(newest, p)
    OBVIOUS
  <2>1. PICK s \in DOMAIN folder.segments : \E e \in DOMAIN folder.segments[s].entries : p = <<s, e>>
    BY <1>1
  <2>2. PICK e \in DOMAIN folder.segments[s].entries : p = <<s, e>>
    BY <2>1
  <2>3. Number(s, e) <= Number(t, d)
    <3>1. Num(p) = Number(s, e) /\ Num(newest) = Number(t, d)
      BY <1>6, <2>2
    <3> QED BY <1>4, <3>1
  <2>4. t > s \/ (t = s /\ d >= e)
    BY <2>3, NumbersOrdered
  <2>5. newest[1] = t /\ newest[2] = d /\ p[1] = s /\ p[2] = e
    BY <1>6, <2>2
  <2> QED BY <2>4, <2>5 DEF Later
<1>8. c \in Changed /\ Later(c, newest)
  <2>1. c \in Changed /\ \A p \in Changed : Later(c, p)
    <3> HIDE DEF Changed
    <3>1. c = CHOOSE p \in Changed : \A q \in Changed : Later(p, q)
      BY DEF Changed
    <3> QED BY <1>7, <3>1
  <2> QED BY <2>1
<1>9. PICK s \in DOMAIN folder.segments : \E e \in DOMAIN folder.segments[s].entries :
        c = <<s, e>> /\ IsChange(Entry(s, e))
  BY <1>1, <1>8
<1>10. PICK e \in DOMAIN folder.segments[s].entries : c = <<s, e>> /\ IsChange(Entry(s, e))
  BY <1>9
<1>11. c = newest
  <2>1. Later(newest, c) /\ Later(c, newest)
    BY <1>7, <1>8
  <2>2. newest[1] = t /\ newest[2] = d /\ c[1] = s /\ c[2] = e
    <3>1. newest[1] = t /\ newest[2] = d
      BY <1>6
    <3>2. PICK p : p = c
      OBVIOUS
    <3>3. p = <<s, e>>
      BY <1>10, <3>2, Zenon
    <3>4. p[1] = s /\ p[2] = e
      BY <3>3
    <3> QED BY <3>1, <3>2, <3>4, Zenon
  <2>3. (t > s \/ (t = s /\ d >= e)) /\ (s > t \/ (s = t /\ e >= d))
    BY <2>1, <2>2 DEF Later
  <2>4. s \in Nat /\ t \in Nat /\ e \in Nat /\ d \in Nat
    BY EntryNumbers
  <2>5. s = t
    BY <2>3, <2>4
  <2>6. e = d
    BY <2>3, <2>4
  <2> QED BY <1>6, <1>10, <2>5, <2>6
<1>12. ASSUME NEW i, IsChangeAt(i) PROVE i <= Number(s, e)
  <2>1. PICK u \in DOMAIN folder.segments : \E x \in DOMAIN folder.segments[u].entries :
          Number(u, x) = i /\ IsChange(Entry(u, x))
    BY <1>12 DEF IsChangeAt
  <2>2. PICK x \in DOMAIN folder.segments[u].entries : Number(u, x) = i /\ IsChange(Entry(u, x))
    BY <2>1
  <2>3. <<u, x>> \in Changed
    BY <1>1, <2>2
  <2>4. Num(<<u, x>>) = i /\ Num(newest) = Number(s, e)
    BY <1>10, <1>11, <2>2
  <2> QED BY <1>4, <2>3, <2>4
<1>13. Number(s, e) \in Nat
  BY <1>2
<1> QED BY <1>10, <1>12, <1>13

(* What is in raft_configuration when loading is finished, beside the log. *)
LEMMA RowsAreChanges ==
  ASSUME ReplayInv, ConfigurationInv, Numbered, stage = "segments", NEW i \in DOMAIN raft_configuration
  PROVE  \/ i = 0 /\ HasSnapshot /\ raft_configuration[0] = folder.snapshots[1].configuration
         \/ i \in Nat /\ first_index < i /\ i \in raft_log /\ IsChangeAt(i)
<1>1. CASE i = 0
  BY <1>1 DEF ConfigurationInv
<1>2. CASE i # 0
  <2>1. i \in raft_log /\ IsChangeAt(i)
    BY <1>2 DEF ConfigurationInv, ConfigurationRows
  <2>2. i \in Nat /\ first_index < i
    BY <2>1 DEF ReplayInv, IInv, TypeOK, Upwards
  <2> QED BY <2>1, <2>2
<1> QED BY <1>1, <1>2

(* The newest configuration of the log, or of the newest snapshot, is the one
   with the greatest index that was loaded. *)
LEMMA NewestIsLoaded ==
  ASSUME ReplayInv, ConfigurationInv, Numbered, LogIsContiguous, ConfigurationsOfRaft,
         FinishLoading, DOMAIN raft_configuration # {}
  PROVE  CurrentConfiguration(folder) = raft_configuration[Max(DOMAIN raft_configuration)]
<1> DEFINE rows == DOMAIN raft_configuration
           changes == ChangesIn(folder)
           c == CHOOSE p \in ChangesIn(folder) : \A d \in ChangesIn(folder) : Later(p, d)
           F == folder.segments
           S == folder.snapshots
<1>1. /\ folder \in Folders /\ stage = "segments" /\ rows \subseteq Nat /\ rows # {}
      /\ first_index \in Nat
  BY DEF ReplayInv, IInv, TypeOK, FinishLoading, Index
<1>2. \A i \in rows :
        \/ i = 0 /\ HasSnapshot /\ raft_configuration[0] = S[1].configuration
        \/ i \in Nat /\ first_index < i /\ i \in raft_log /\ IsChangeAt(i)
  BY <1>1, RowsAreChanges
<1>3. HasSnapshot => /\ S[1].index = first_index /\ first_index \in Index
                     /\ 1 \in DOMAIN S /\ Len(S) \in DOMAIN S
                     /\ S[Len(S)].index \in Index /\ first_index <= S[Len(S)].index
                     /\ first_index <= CurrentIndex(folder) /\ S[Len(S)].index <= CurrentIndex(folder)
  <2> SUFFICES ASSUME HasSnapshot
               PROVE  /\ S[1].index = first_index /\ first_index \in Index
                      /\ 1 \in DOMAIN S /\ Len(S) \in DOMAIN S
                      /\ S[Len(S)].index \in Index /\ first_index <= S[Len(S)].index
                      /\ first_index <= CurrentIndex(folder)
                      /\ S[Len(S)].index <= CurrentIndex(folder)
    OBVIOUS
  <2>1. S[1].index = first_index
    BY <1>1 DEF ReplayInv, LogInv
  <2>2. 1 \in DOMAIN S /\ Len(S) \in DOMAIN S
    BY <1>1, FolderAssumption DEF HasSnapshot
  <2>3. \A n \in DOMAIN S : S[n].index \in 1..MaxIndex
    BY <1>1, FolderAssumption
  <2>4. \A n \in 1..MaxIndex : n \in Index
    BY IndexAssumption DEF Index
  <2>5. /\ S[1].index <= S[Len(S)].index
        /\ S[1].index <= CurrentIndex(folder) /\ S[Len(S)].index <= CurrentIndex(folder)
    BY <2>2 DEF ConfigurationsOfRaft
  <2> QED BY <2>1, <2>2, <2>3, <2>4, <2>5
<1>4. PICK inForce \in [Index -> Configuration] :
        /\ \A n \in DOMAIN S : S[n].configuration = inForce[S[n].index]
        /\ \A s \in DOMAIN F : \A e \in DOMAIN F[s].entries :
             IsChange(Entry(s, e)) => inForce[Number(s, e)] = Entry(s, e).configuration
        /\ \A i, j \in Index :
             /\ RaftStart(folder) <= i + 1 /\ i <= j /\ j <= CurrentIndex(folder)
             /\ \A k \in i + 1..j : ~IsChangeAt(k)
             => inForce[i] = inForce[j]
  BY DEF ConfigurationsOfRaft
<1>5. CASE changes = {}
  <2>1. \A i : ~IsChangeAt(i)
    <3>1. ASSUME NEW s \in DOMAIN folder.segments, NEW e \in DOMAIN folder.segments[s].entries,
                 IsChange(Entry(s, e))
          PROVE  FALSE
      <4>1. <<s, e>> \in Places(folder.segments)
        BY DEF Places
      <4>2. <<s, e>> \in ChangesIn(folder)
        BY <3>1, <4>1 DEF ChangesIn, Entry
      <4> QED BY <1>5, <4>2
    <3> QED BY <3>1 DEF IsChangeAt
  <2>2. rows = {0} /\ HasSnapshot /\ raft_configuration[0] = S[1].configuration
    BY <1>1, <1>2, <2>1
  <2>3. CurrentConfiguration(folder) = S[Len(S)].configuration
    BY <1>5 DEF CurrentConfiguration
  <2>4. S[Len(S)].configuration = S[1].configuration
    <3>1. CASE F = <<>>
      <4>1. CurrentIndex(folder) = first_index
        <5>1. FirstIndex(folder) = first_index
          BY <1>3, <2>2, <3>1 DEF FirstIndex, HasSnapshot
        <5>2. CurrentIndex(folder) = FirstIndex(folder) + 0
          BY <3>1, EmptyLogEnds
        <5> QED BY <1>1, <5>1, <5>2
      <4> DEFINE current == CurrentIndex(folder)
                 newest == S[Len(S)].index
      <4>2. newest = first_index
        <5>1. /\ current = first_index /\ newest \in Nat /\ newest <= current
              /\ first_index <= newest
          BY <1>3, <2>2, <4>1 DEF Index
        <5> HIDE DEF current, newest
        <5> QED BY <1>1, <5>1
      <4> QED BY <1>3, <1>4, <2>2, <4>2
    <3>2. CASE F # <<>>
      <4>1. RaftStart(folder) <= first_index + 1
        BY <1>1, <1>3, <2>2, <3>2 DEF LogIsContiguous, RaftStart
      <4>2. inForce[first_index] = inForce[S[Len(S)].index]
        BY <1>3, <1>4, <2>1, <2>2, <4>1
      <4> QED BY <1>3, <1>4, <2>2, <4>2
    <3> QED BY <3>1, <3>2
  <2>5. Max({0}) = 0
    <3>1. {0} \subseteq Nat /\ 0 \in {0} /\ \A x \in {0} : x <= 0
      OBVIOUS
    <3> QED BY <3>1, MaxIs
  <2> QED BY <2>2, <2>3, <2>4, <2>5
<1>6. CASE changes # {}
  <2>1. PICK s \in DOMAIN F : \E e \in DOMAIN F[s].entries :
          /\ c = <<s, e>> /\ IsChange(Entry(s, e)) /\ Number(s, e) \in Nat
          /\ \A i : IsChangeAt(i) => i <= Number(s, e)
    BY <1>1, <1>6, NewestChange
  <2>2. PICK e \in DOMAIN F[s].entries :
          /\ c = <<s, e>> /\ IsChange(Entry(s, e)) /\ Number(s, e) \in Nat
          /\ \A i : IsChangeAt(i) => i <= Number(s, e)
    BY <2>1
  <2> DEFINE newest == Number(s, e)
  <2>3. CurrentConfiguration(folder) = Entry(s, e).configuration
    <3>1. CurrentConfiguration(folder) = F[c[1]].entries[c[2]].configuration
      BY <1>6 DEF CurrentConfiguration
    <3> HIDE DEF c
    <3>2. c[1] = s /\ c[2] = e
      BY <2>2
    <3> QED BY <3>1, <3>2 DEF Entry
  <2>4. \A i \in rows : i <= newest
    <3> HIDE DEF newest, rows
    <3>1. newest \in Nat /\ \A i : IsChangeAt(i) => i <= newest
      BY <2>2 DEF newest
    <3>2. \A i \in rows : i = 0 \/ IsChangeAt(i)
      BY <1>2
    <3> QED BY <3>1, <3>2
  <2>5. Max(rows) \in rows /\ \A i \in rows : i <= Max(rows)
    <3>1. newest \in Nat
      BY <2>2
    <3> HIDE DEF rows, newest
    <3> QED BY <1>1, <2>4, <3>1, MaxExists
  <2>6. CASE first_index < newest
    <3>1. newest \in raft_log /\ newest \in rows
      BY <2>2, <2>6, ShownIsLoaded
    <3>2. raft_configuration[newest] = Entry(s, e).configuration
      BY <1>1, <2>2, <3>1 DEF ConfigurationInv, ConfigurationRows
    <3>3. Max(rows) = newest
      <4>1. newest \in Nat
        BY <2>2
      <4> HIDE DEF rows, newest
      <4>2. Max(rows) \in Nat /\ Max(rows) <= newest /\ newest <= Max(rows)
        BY <1>1, <2>4, <2>5, <3>1
      <4> DEFINE m == Max(rows)
      <4>3. m \in Nat /\ m <= newest /\ newest <= m
        BY <4>2
      <4> HIDE DEF m
      <4>4. m = newest
        BY <4>1, <4>3
      <4> QED BY <4>4 DEF m
    <3> QED BY <2>3, <3>2, <3>3
  <2>7. CASE ~(first_index < newest)
    <3>1. newest \in Nat /\ newest <= first_index
      <4>1. newest \in Nat
        BY <2>2
      <4> HIDE DEF newest
      <4> QED BY <1>1, <2>7, <4>1
    <3>2. \A i \in rows : ~(first_index < i)
      <4> HIDE DEF newest, rows
      <4> QED BY <1>1, <2>4, <3>1
    <3>3. rows = {0} /\ HasSnapshot /\ raft_configuration[0] = S[1].configuration
      BY <1>1, <1>2, <3>2
    <3>4. S[1].configuration = inForce[first_index]
      BY <1>3, <1>4, <3>3
    <3>5. inForce[newest] = Entry(s, e).configuration
      BY <1>4, <2>2
    <3>6. newest \in Index /\ RaftStart(folder) <= newest + 1
      <4>1. newest \in Index
        <5> HIDE DEF newest
        <5> QED BY <1>3, <3>1, <3>3, IndexAssumption DEF Index
      <4>2. RaftStart(folder) <= Number(s, e) /\ RaftStart(folder) \in Nat
        BY <1>1, StartsFirst
      <4> HIDE DEF newest
      <4>3. RaftStart(folder) <= newest + 1
        <5> DEFINE start == RaftStart(folder)
        <5>1. start <= newest /\ start \in Nat
          BY <4>2 DEF newest
        <5> HIDE DEF start
        <5>2. start <= newest + 1
          BY <3>1, <5>1
        <5> QED BY <5>2 DEF start
      <4> QED BY <4>1, <4>3
    <3>7. \A k \in newest + 1..first_index : ~IsChangeAt(k)
      <4> SUFFICES ASSUME NEW k \in newest + 1..first_index, IsChangeAt(k) PROVE FALSE
        OBVIOUS
      <4>1. k <= newest
        BY <2>2
      <4> HIDE DEF newest
      <4> QED BY <1>1, <3>1, <4>1
    <3>8. inForce[newest] = inForce[first_index]
      <4> HIDE DEF newest
      <4> QED BY <1>3, <1>4, <3>1, <3>3, <3>6, <3>7
    <3>9. Max(rows) = 0
      <4>1. {0} \subseteq Nat /\ 0 \in {0} /\ \A x \in {0} : x <= 0
        OBVIOUS
      <4> QED BY <3>3, <4>1, MaxIs
    <3> QED BY <2>3, <3>3, <3>4, <3>5, <3>8, <3>9
  <2> QED BY <2>6, <2>7
<1> QED BY <1>5, <1>6

(* .config shows what .open has loaded as the newest configuration, of every
   folder whose closed segments are named after the entries they hold and whose
   configurations are those of raft. *)
THEOREM ConfigIsWhatIsLoaded ==
  Spec /\ NamedRight(folder) /\ ConfigurationsOfRaft => ConfigIsTheOneLoaded
<1>1. [Next]_vars => folder' = folder
  BY FolderStays
<1>2. NamedRight(folder) /\ ConfigurationsOfRaft /\ [Next]_vars
        => NamedRight(folder)' /\ ConfigurationsOfRaft'
  BY <1>1 DEF ConfigurationsOfRaft, IsChangeAt, Entry, Number
<1>3. ReplayInv /\ ConfigurationInv /\ NamedRight(folder) /\ ConfigurationsOfRaft /\ [Next]_vars
        => [FinishLoading /\ LogIsContiguous /\ DOMAIN raft_configuration # {} =>
              CurrentConfiguration(folder) = raft_configuration[Max(DOMAIN raft_configuration)]]_vars
  <2> SUFFICES ASSUME ReplayInv, ConfigurationInv, NamedRight(folder), ConfigurationsOfRaft,
                      FinishLoading, LogIsContiguous, DOMAIN raft_configuration # {}
               PROVE  CurrentConfiguration(folder) =
                        raft_configuration[Max(DOMAIN raft_configuration)]
    OBVIOUS
  <2>1. Numbered
    BY DEF Numbered, LogIsContiguous, FirstIndex, RaftStart
  <2> QED BY <2>1, NewestIsLoaded
<1> QED BY <1>2, <1>3, ConfigurationInvariance, PTL DEF Spec, ConfigIsTheOneLoaded

=============================================================================
