--------------------------- MODULE LiveOpen_proofs --------------------------
(***************************************************************************)
(* Proofs about LiveOpen, for any log, number of open segments and number  *)
(* of retries: what a folder that opens has lost of the log of a node that *)
(* ran, crashed or started meanwhile.                                      *)
(***************************************************************************)
EXTENDS LiveOpen, DqliteFolder_proofs

(* The log of the node: the closed segments follow one another, and so do the
   entries of the open ones. *)
LogIsContiguous ==
  /\ \A s \in DOMAIN closed :
       /\ closed[s].first <= closed[s].end
       /\ s > 1 => closed[s].first = closed[s - 1].end + 1
  /\ \A s, t \in DOMAIN closed : s < t => closed[s].end < closed[t].first
  /\ \A s \in DOMAIN opens : \A e \in DOMAIN opens[s].entries :
       opens[s].entries[e] = LastClosed + NumEntries(SubSeq(opens, 1, s - 1)) + e
  /\ LastIndex <= MaxIndex
  /\ appending => active <= Len(opens) /\ LastIndex < MaxIndex

(* Open segments are filled, and removed, in the order they were made. *)
OpensInOrder ==
  /\ \A s, t \in DOMAIN opens : s < t => opens[s].counter < opens[t].counter
  /\ \A s \in DOMAIN opens :
       /\ opens[s].counter <= counter
       /\ s < active => opens[s].entries # <<>>
       /\ s > active => opens[s].entries = <<>>

(* The log on disk goes back to the oldest snapshot. *)
LogReachesSnapshot ==
  /\ \A n \in DOMAIN taken : taken[1] <= taken[n] /\ taken[n] <= LastClosed
  /\ Len(taken) <= 2
  /\ taken # <<>> => closed # <<>> /\ closed[1].first <= taken[1] + 1

ListedClosed(s) == listed.segments[s].kind = "closed"

(* A list is of one moment. *)
Listing ==
  /\ \A s, t \in DOMAIN listed.segments : s < t /\ ListedClosed(t) => ListedClosed(s)
  /\ \A s \in DOMAIN listed.segments :
       IF ListedClosed(s)
       THEN /\ listed.segments[s].name.first <= listed.segments[s].name.end
            /\ s > 1 => listed.segments[s].name.first = listed.segments[s - 1].name.end + 1
       ELSE listed.segments[s].name <= counter
  /\ listed.snapshots # <<>> =>
       /\ listed.segments # <<>> /\ ListedClosed(1)
       /\ listed.segments[1].name.first <= listed.snapshots[1] + 1

IsFirstOpen(f) == ~ListedClosed(f) /\ (f = 1 \/ ListedClosed(f - 1))

(* As long as the first open segment of the list is on disk, no entry has been
   closed since. *)
FirstOpenFollows ==
  \A f \in DOMAIN listed.segments :
    IsFirstOpen(f) /\ OnDisk(listed.segments[f]) =>
      /\ opens # <<>> /\ Head(opens).counter = listed.segments[f].name
      /\ LastClosed = IF f = 1 THEN 0 ELSE listed.segments[f - 1].name.end

(* The DqliteDir is what the list says, as far as it was opened. *)
DirFollowsList ==
  /\ Len(dir.snapshots) <= Len(listed.snapshots)
  /\ \A n \in DOMAIN dir.snapshots : dir.snapshots[n].index = listed.snapshots[n]
  /\ Len(dir.segments) <= Len(listed.segments)
  /\ \A s \in DOMAIN dir.segments :
       /\ dir.segments[s].kind = listed.segments[s].kind
       /\ IsClosed(dir.segments[s]) =>
            /\ listed.segments[s].name \in handles
            /\ dir.segments[s] = ClosedSegment(listed.segments[s].name)
       /\ ~IsClosed(dir.segments[s]) => dir.segments[s].counter = listed.segments[s].name
  /\ dir.segments # <<>> \/ Done => ~SnapshotsLeft
  /\ Done => ~SegmentsLeft

(* The numbers of the entries in it. *)
Start(s) == FirstIndex(dir) + NumEntries(SubSeq(dir.segments, 1, s - 1))

PrefixIsNumbered ==
  \A s \in DOMAIN dir.segments :
    /\ IsClosed(dir.segments[s]) => dir.segments[s].first = Start(s)
    /\ IsFirstOpen(s) =>
         \A e \in DOMAIN dir.segments[s].entries : dir.segments[s].entries[e] = Start(s) + e - 1

Attempts ==
  /\ phase = "start" => attempt = 0 \/ attempt < MaxRetries
  /\ phase # "start" => attempt > 0
  /\ phase = "failed" => attempt = AttemptsAllowed
  /\ OpenedStaysReadable

IInv ==
  /\ TypeOK
  /\ LogIsContiguous /\ OpensInOrder /\ LogReachesSnapshot
  /\ Listing /\ FirstOpenFollows /\ DirFollowsList /\ PrefixIsNumbered /\ Attempts

-----------------------------------------------------------------------------
LEMMA EntriesAreSequences ==
  /\ \A file \in OpenFile : file.entries \in Seq(1..MaxIndex)
  /\ \A segment \in Segment : segment.entries \in Seq(1..MaxIndex)
BY DEF OpenFile, Segment

LEMMA SeqFacts ==
  ASSUME NEW S, NEW s \in Seq(S)
  PROVE  /\ DOMAIN s = 1..Len(s) /\ Len(s) \in Nat
         /\ \A n \in DOMAIN s : s[n] \in S
         /\ s # <<>> => Len(s) > 0 /\ 1 \in DOMAIN s /\ s[1] \in S
         /\ Len(s) > 0 => s # <<>>
OBVIOUS

LEMMA FunctionFacts ==
  ASSUME NEW S, NEW n \in Nat, NEW f \in [1..n -> S]
  PROVE  f \in Seq(S) /\ DOMAIN f = 1..n /\ Len(f) = n
OBVIOUS

LEMMA AppendFacts ==
  ASSUME NEW S, NEW s \in Seq(S), NEW x \in S
  PROVE  LET t == Append(s, x)
         IN  /\ t \in Seq(S) /\ t # <<>>
             /\ DOMAIN s = 1..Len(s) /\ Len(s) \in Nat
             /\ DOMAIN t = 1..(Len(s) + 1) /\ Len(t) = Len(s) + 1
             /\ \A n \in 1..Len(s) : t[n] = s[n]
             /\ t[Len(s) + 1] = x
OBVIOUS

LEMMA ConcatFacts ==
  ASSUME NEW S, NEW s \in Seq(S), NEW t \in Seq(S)
  PROVE  /\ s \o t \in Seq(S) /\ Len(s \o t) = Len(s) + Len(t)
         /\ \A n \in 1..Len(s) : (s \o t)[n] = s[n]
         /\ \A n \in 1..Len(t) : (s \o t)[Len(s) + n] = t[n]
<1>1. s \o t \in Seq(S) /\ Len(s \o t) = Len(s) + Len(t)
  OBVIOUS
<1>2. \A n \in 1..Len(s) : (s \o t)[n] = s[n]
  OBVIOUS
<1>3. ASSUME NEW n \in 1..Len(t) PROVE (s \o t)[Len(s) + n] = t[n]
  <2>1. Len(s) + n \in 1..(Len(s) + Len(t)) /\ Len(s) + n > Len(s) /\ (Len(s) + n) - Len(s) = n
    OBVIOUS
  <2> QED BY <2>1
<1> QED BY <1>1, <1>2, <1>3

LEMMA TailFacts ==
  ASSUME NEW S, NEW s \in Seq(S), s # <<>>
  PROVE  LET t == Tail(s)
         IN  /\ t \in Seq(S) /\ Head(s) = s[1] /\ Head(s) \in S /\ 1 \in DOMAIN s
             /\ DOMAIN s = 1..Len(s) /\ Len(s) \in Nat \ {0}
             /\ DOMAIN t = 1..(Len(s) - 1) /\ Len(t) = Len(s) - 1
             /\ \A n \in DOMAIN t : n + 1 \in DOMAIN s /\ t[n] = s[n + 1]
<1>1. Len(s) \in Nat \ {0} /\ DOMAIN s = 1..Len(s)
  OBVIOUS
<1>2. Tail(s) \in Seq(S) /\ Len(Tail(s)) = Len(s) - 1
  OBVIOUS
<1>3. \A n \in 1..(Len(s) - 1) : Tail(s)[n] = s[n + 1]
  OBVIOUS
<1>4. Head(s) = s[1] /\ s[1] \in S
  OBVIOUS
<1>5. DOMAIN Tail(s) = 1..(Len(s) - 1)
  BY <1>1, <1>2
<1>6. \A n \in 1..(Len(s) - 1) : n + 1 \in 1..Len(s)
  BY <1>1
<1> QED BY <1>1, <1>2, <1>3, <1>4, <1>5, <1>6

LEMMA LogFacts ==
  ASSUME TypeOK
  PROVE  /\ LastClosed \in 0..MaxIndex
         /\ Written \in Nat
         /\ LastIndex = LastClosed + Written
         /\ DOMAIN closed = 1..Len(closed) /\ Len(closed) \in Nat
         /\ DOMAIN opens = 1..Len(opens) /\ Len(opens) \in Nat
         /\ DOMAIN taken = 1..Len(taken) /\ Len(taken) \in Nat
         /\ \A s \in DOMAIN closed : closed[s] \in Name
         /\ \A s \in DOMAIN opens : /\ opens[s] \in OpenFile
                                    /\ Len(opens[s].entries) \in Nat
<1> USE DEF TypeOK
<1>1. LastClosed \in 0..MaxIndex
  <2>1. CASE closed = <<>>
    BY <2>1, LiveOpenAssumption DEF LastClosed
  <2>2. CASE closed # <<>>
    <3>1. closed[Len(closed)] \in Name
      BY <2>2
    <3> QED BY <2>2, <3>1 DEF LastClosed, Name
  <2> QED BY <2>1, <2>2
<1>2. Written \in Nat
  BY PlacesAreFinite, EntriesAreSequences DEF Written
<1>3. \A s \in DOMAIN opens : opens[s] \in OpenFile /\ Len(opens[s].entries) \in Nat
  <2> TAKE s \in DOMAIN opens
  <2>1. opens[s] \in OpenFile /\ opens[s].entries \in Seq(1..MaxIndex)
    BY EntriesAreSequences
  <2> QED BY <2>1
<1> QED BY <1>1, <1>2, <1>3 DEF LastIndex

LEMMA InitInv == Init => IInv
<1> SUFFICES ASSUME Init PROVE IInv
  OBVIOUS
<1> USE LiveOpenAssumption
<1>1. TypeOK
  <2>1. /\ closed \in Seq(Name) /\ opens \in Seq(OpenFile) /\ taken \in Seq(1..MaxIndex)
    BY DEF Init
  <2>2. active \in 1..(Len(opens) + 1)
    BY DEF Init
  <2>3. /\ listed \in [snapshots : Seq(1..MaxIndex), segments : Seq(Listed)]
        /\ dir \in [snapshots : Seq([index : 1..MaxIndex]), segments : Seq(Segment)]
    BY DEF Init, Nothing
  <2>4. counter \in 0..MaxCounter /\ attempt \in 0..MaxRetries \cup {1}
    BY DEF Init
  <2>5. appending \in BOOLEAN /\ up \in BOOLEAN /\ handles \subseteq Name
    BY DEF Init
  <2>6. phase \in {"start", "open", "opened", "read", "unreadable", "failed"}
    BY DEF Init
  <2> QED BY <2>1, <2>2, <2>3, <2>4, <2>5, <2>6 DEF TypeOK
<1>2. LastIndex = 0
  BY NoEntries DEF Init, LastIndex, LastClosed, Written
<1>3. LogIsContiguous /\ OpensInOrder /\ LogReachesSnapshot
  BY <1>2 DEF Init, LogIsContiguous, OpensInOrder, LogReachesSnapshot
<1>4. Listing /\ FirstOpenFollows /\ DirFollowsList /\ PrefixIsNumbered /\ Attempts
  BY DEF Init, Nothing, Listing, FirstOpenFollows, DirFollowsList, PrefixIsNumbered,
         Attempts, OpenedStaysReadable, Done
<1> QED BY <1>1, <1>3, <1>4 DEF IInv

-----------------------------------------------------------------------------
(* The node changes nothing that the reader has. *)
LEMMA ReaderIsApart ==
  ASSUME IInv, UNCHANGED reader, counter' \in {counter, counter + 1}
  PROVE  Listing' /\ DirFollowsList' /\ PrefixIsNumbered' /\ Attempts'
<1> USE DEF IInv, reader
<1>1. Listing'
  <2>1. \A s \in DOMAIN listed.segments :
          ~ListedClosed(s) => listed.segments[s].name \in Nat
    BY DEF TypeOK, Listed, ListedClosed
  <2>2. counter \in Nat /\ counter' \in Nat /\ counter <= counter'
    BY DEF TypeOK
  <2>3. \A s \in DOMAIN listed.segments :
          ~ListedClosed(s) => listed.segments[s].name <= counter'
    BY <2>1, <2>2 DEF Listing
  <2> QED BY <2>3 DEF Listing, ListedClosed
<1>2. DirFollowsList' /\ Attempts'
  BY DEF DirFollowsList, Attempts, Done, SnapshotsLeft, SegmentsLeft, OpenedStaysReadable
<1>3. PrefixIsNumbered'
  BY DEF PrefixIsNumbered, Start, IsFirstOpen, ListedClosed
<1> QED BY <1>1, <1>2, <1>3

(* Nor does it bring back what was listed: the counters of open segments are
   never used again. *)
LEMMA FirstOpenStays ==
  ASSUME IInv, UNCHANGED listed,
         LastClosed' = LastClosed,
         opens # <<>> => opens' # <<>> /\ Head(opens').counter = Head(opens).counter,
         \A s \in DOMAIN opens' : \/ opens'[s].counter = counter + 1
                                  \/ \E r \in DOMAIN opens : opens[r].counter = opens'[s].counter
  PROVE  FirstOpenFollows'
<1> USE DEF IInv
<1> SUFFICES ASSUME NEW f \in DOMAIN listed.segments,
                    IsFirstOpen(f), OnDisk(listed.segments[f])'
             PROVE  /\ opens' # <<>> /\ Head(opens').counter = listed.segments[f].name
                    /\ LastClosed = IF f = 1 THEN 0 ELSE listed.segments[f - 1].name.end
  BY DEF FirstOpenFollows, IsFirstOpen, ListedClosed
<1>1. listed.segments[f].kind = "open" /\ listed.segments[f].name \in Nat
  BY DEF IsFirstOpen, ListedClosed, TypeOK, Listed
<1>2. listed.segments[f].name <= counter
  BY DEF IsFirstOpen, Listing
<1>3. PICK s \in DOMAIN opens' : opens'[s].counter = listed.segments[f].name
  BY <1>1 DEF OnDisk
<1>4. \E r \in DOMAIN opens : opens[r].counter = listed.segments[f].name
  <2>1. counter \in Nat
    BY DEF TypeOK
  <2>2. opens'[s].counter # counter + 1
    BY <1>1, <1>2, <1>3, <2>1
  <2> QED BY <1>3, <2>2
<1>5. OnDisk(listed.segments[f])
  BY <1>1, <1>4 DEF OnDisk
<1> QED BY <1>5 DEF FirstOpenFollows

(* Steps that change no file. *)
LEMMA QuietInv ==
  ASSUME IInv, BeginAppend \/ Advance \/ Crash \/ Restart
  PROVE  IInv'
<1> USE DEF IInv
<1>1. /\ UNCHANGED <<closed, opens, counter, taken>> /\ UNCHANGED reader
      /\ active' \in {active, active + 1} /\ appending' \in BOOLEAN /\ up' \in BOOLEAN
      /\ active' = active + 1 => active <= Len(opens) /\ opens[active].entries # <<>>
                                 /\ ~appending'
      /\ appending' => appending \/ (active' <= Len(opens) /\ LastIndex < MaxIndex)
      /\ appending' => active' = active
  <2>1. CASE BeginAppend
    BY <2>1 DEF BeginAppend, NodeStep, TypeOK
  <2>2. CASE Advance
    BY <2>2 DEF Advance, NodeStep, TypeOK
  <2>3. CASE Crash
    <3>1. active \in Nat
      BY LogFacts DEF TypeOK
    <3>2. /\ UNCHANGED <<closed, opens, active, counter, appending, taken>>
          /\ UNCHANGED reader /\ up' \in BOOLEAN
      BY <2>3 DEF Crash, NodeStep
    <3>3. appending \in BOOLEAN
      BY DEF TypeOK
    <3> QED BY <3>1, <3>2, <3>3
  <2>4. CASE Restart
    BY <2>4 DEF Restart, NodeStep, TypeOK
  <2> QED BY <2>1, <2>2, <2>3, <2>4
<1>2. UNCHANGED <<LastClosed, LastIndex>>
  BY <1>1 DEF LastClosed, LastIndex, Written
<1>3. TypeOK'
  <2>1. active' \in 1..(Len(opens) + 1)
    BY <1>1, LogFacts DEF TypeOK
  <2> QED BY <1>1, <2>1 DEF TypeOK, reader
<1>4. LogIsContiguous'
  BY <1>1, <1>2 DEF LogIsContiguous
<1>5. OpensInOrder'
  <2>0. active \in Nat /\ \A s \in DOMAIN opens : s \in Nat
    BY LogFacts DEF TypeOK
  <2>1. ASSUME NEW s \in DOMAIN opens, s < active' PROVE opens[s].entries # <<>>
    <3>1. s < active \/ (s = active /\ active' = active + 1)
      BY <1>1, <2>0, <2>1
    <3> QED BY <1>1, <3>1 DEF OpensInOrder
  <2>2. ASSUME NEW s \in DOMAIN opens, s > active' PROVE opens[s].entries = <<>>
    <3>1. s > active
      BY <1>1, <2>0, <2>2
    <3> QED BY <3>1 DEF OpensInOrder
  <2> QED BY <1>1, <2>1, <2>2 DEF OpensInOrder
<1>6. LogReachesSnapshot'
  BY <1>1, <1>2 DEF LogReachesSnapshot
<1>7. FirstOpenFollows'
  BY <1>1, <1>2, FirstOpenStays DEF reader
<1>8. Listing' /\ DirFollowsList' /\ PrefixIsNumbered' /\ Attempts'
  BY <1>1, ReaderIsApart
<1> QED BY <1>3, <1>4, <1>5, <1>6, <1>7, <1>8

-----------------------------------------------------------------------------
LEMMA PrefixOfAppend ==
  ASSUME NEW S, NEW s \in Seq(S), NEW x \in S, NEW k \in 1..(Len(s) + 1)
  PROVE  SubSeq(Append(s, x), 1, k - 1) = SubSeq(s, 1, k - 1)
OBVIOUS

LEMMA PrepareInv ==
  ASSUME IInv, Prepare
  PROVE  IInv'
<1> USE DEF IInv
<1> DEFINE new == [counter |-> counter + 1, entries |-> <<>>]
<1>1. /\ opens' = Append(opens, new) /\ counter' = counter + 1 /\ counter < MaxCounter
      /\ UNCHANGED <<closed, active, appending, taken, up>> /\ UNCHANGED reader
  BY DEF Prepare, NodeStep
<1>2. new \in OpenFile /\ new.entries = <<>> /\ new.counter = counter + 1
  <2>1. counter + 1 \in 1..MaxCounter
    BY <1>1, LiveOpenAssumption DEF TypeOK
  <2>2. <<>> \in Seq(1..MaxIndex)
    OBVIOUS
  <2> QED BY <2>1, <2>2 DEF OpenFile
<1> HIDE DEF new
<1>3. /\ opens \in Seq(OpenFile) /\ opens' \in Seq(OpenFile)
      /\ DOMAIN opens = 1..Len(opens) /\ Len(opens) \in Nat
      /\ Len(opens') = Len(opens) + 1 /\ DOMAIN opens' = 1..(Len(opens) + 1)
      /\ \A s \in DOMAIN opens : opens'[s] = opens[s]
      /\ opens'[Len(opens) + 1] = new
  BY <1>1, <1>2 DEF TypeOK
<1>4. LastClosed' = LastClosed /\ LastIndex' = LastIndex
  <2>1. NumEntries(opens') = NumEntries(opens) + Len(new.entries)
    BY <1>1, <1>2, <1>3, AppendEntries, EntriesAreSequences
  <2>2. NumEntries(opens') = NumEntries(opens)
    BY <1>2, <2>1, LogFacts DEF Written
  <2> QED BY <1>1, <2>2 DEF LastIndex, Written, LastClosed
<1>5. TypeOK'
  <2>1. active' \in 1..(Len(opens') + 1) /\ counter' \in 0..MaxCounter
    BY <1>1, <1>3, LiveOpenAssumption DEF TypeOK
  <2> QED BY <1>1, <1>3, <2>1 DEF TypeOK, reader
<1>6. LogIsContiguous'
  <2>1. ASSUME NEW s \in DOMAIN opens', NEW e \in DOMAIN opens'[s].entries
        PROVE  opens'[s].entries[e] = LastClosed + NumEntries(SubSeq(opens', 1, s - 1)) + e
    <3>1. s \in DOMAIN opens
      BY <1>2, <1>3
    <3>2. SubSeq(opens', 1, s - 1) = SubSeq(opens, 1, s - 1)
      BY <1>1, <1>2, <1>3, <3>1, PrefixOfAppend
    <3> QED BY <1>3, <3>1, <3>2 DEF LogIsContiguous
  <2> QED BY <1>1, <1>3, <1>4, <2>1 DEF LogIsContiguous, TypeOK
<1>7. OpensInOrder'
  <2>1. counter \in Nat /\ active \in Nat /\ active <= Len(opens) + 1
    BY <1>3 DEF TypeOK
  <2>2. \A s \in DOMAIN opens : opens[s].counter \in Nat /\ opens[s].counter <= counter
    BY LogFacts DEF OpensInOrder, OpenFile
  <2>3. ASSUME NEW s \in DOMAIN opens', NEW t \in DOMAIN opens', s < t
        PROVE  opens'[s].counter < opens'[t].counter
    <3>1. s \in DOMAIN opens
      BY <1>3, <2>3
    <3>2. CASE t \in DOMAIN opens
      BY <1>3, <2>3, <3>1, <3>2 DEF OpensInOrder
    <3>3. CASE t = Len(opens) + 1
      BY <1>2, <1>3, <2>1, <2>2, <3>1, <3>3
    <3> QED BY <1>3, <3>2, <3>3
  <2>4. ASSUME NEW s \in DOMAIN opens'
        PROVE  /\ opens'[s].counter <= counter'
               /\ s < active => opens'[s].entries # <<>>
               /\ s > active => opens'[s].entries = <<>>
    <3>1. CASE s \in DOMAIN opens
      BY <1>1, <1>3, <2>1, <2>2, <3>1 DEF OpensInOrder
    <3>2. CASE s = Len(opens) + 1
      BY <1>1, <1>2, <1>3, <2>1, <3>2
    <3> QED BY <1>3, <3>1, <3>2
  <2> QED BY <1>1, <2>3, <2>4 DEF OpensInOrder
<1>8. LogReachesSnapshot'
  BY <1>1, <1>4 DEF LogReachesSnapshot
<1>9. FirstOpenFollows'
  <2>1. opens # <<>> => opens' # <<>> /\ Head(opens').counter = Head(opens).counter
    BY <1>3
  <2>2. \A s \in DOMAIN opens' : \/ opens'[s].counter = counter + 1
                                 \/ \E r \in DOMAIN opens : opens[r].counter = opens'[s].counter
    BY <1>2, <1>3
  <2> QED BY <1>1, <1>4, <2>1, <2>2, FirstOpenStays DEF reader
<1>10. Listing' /\ DirFollowsList' /\ PrefixIsNumbered' /\ Attempts'
  BY <1>1, ReaderIsApart
<1> QED BY <1>5, <1>6, <1>7, <1>8, <1>9, <1>10

-----------------------------------------------------------------------------
LEMMA EndAppendInv ==
  ASSUME IInv, EndAppend
  PROVE  IInv'
<1> USE DEF IInv
<1>1. /\ appending /\ appending' = FALSE
      /\ opens' = [opens EXCEPT ![active].entries = Append(@, LastIndex + 1)]
      /\ UNCHANGED <<closed, active, counter, taken, up>> /\ UNCHANGED reader
  BY DEF EndAppend, NodeStep
<1>2. active \in DOMAIN opens /\ LastIndex + 1 \in 1..MaxIndex
  <2>1. active \in Nat \ {0} /\ active <= Len(opens)
    <3>1. opens \in Seq(OpenFile) /\ active \in 1..(Len(opens) + 1)
      BY DEF TypeOK
    <3>2. active <= Len(opens)
      BY <1>1 DEF LogIsContiguous
    <3> QED BY ONLY <3>1, <3>2
  <2>2. LastIndex \in Nat /\ LastIndex < MaxIndex
    BY <1>1, LogFacts DEF LogIsContiguous
  <2> QED BY <2>1, <2>2, LogFacts, LiveOpenAssumption
<1>3. opens[active] \in OpenFile /\ opens[active].entries \in Seq(1..MaxIndex)
  BY <1>2, LogFacts, EntriesAreSequences
<1>4. /\ opens' \in Seq(OpenFile) /\ DOMAIN opens' = DOMAIN opens /\ Len(opens') = Len(opens)
      /\ \A s \in DOMAIN opens \ {active} : opens'[s] = opens[s]
      /\ opens'[active].entries = Append(opens[active].entries, LastIndex + 1)
      /\ \A s \in DOMAIN opens : opens'[s].counter = opens[s].counter
  <2> DEFINE file == [opens[active] EXCEPT !.entries = Append(@, LastIndex + 1)]
  <2>1. file \in OpenFile /\ file.entries = Append(opens[active].entries, LastIndex + 1)
        /\ file.counter = opens[active].counter
    <3>1. Append(opens[active].entries, LastIndex + 1) \in Seq(1..MaxIndex)
      BY <1>2, <1>3
    <3> QED BY <1>3, <3>1 DEF OpenFile
  <2>2. opens' = [opens EXCEPT ![active] = file]
    BY <1>1
  <2> HIDE DEF file
  <2>3. /\ opens' \in Seq(OpenFile) /\ DOMAIN opens' = DOMAIN opens /\ Len(opens') = Len(opens)
        /\ \A s \in DOMAIN opens \ {active} : opens'[s] = opens[s]
        /\ opens'[active] = file
    BY <1>2, <2>1, <2>2 DEF TypeOK
  <2> QED BY <2>1, <2>3
<1>5. NumEntries(opens') = NumEntries(opens) + 1
  BY <1>2, <1>4, OneEntryMore, EntriesAreSequences DEF TypeOK
<1>6. LastClosed' = LastClosed /\ LastIndex' = LastIndex + 1
  BY <1>1, <1>5, LogFacts DEF LastIndex, Written, LastClosed
<1>7. TypeOK'
  BY <1>1, <1>4 DEF TypeOK, reader
<1>8. LogIsContiguous'
  <2>1. ASSUME NEW s \in DOMAIN opens, s <= active
        PROVE  SubSeq(opens', 1, s - 1) = SubSeq(opens, 1, s - 1)
    <3>1. \A r \in 1..(s - 1) : opens'[r] = opens[r]
      BY <1>2, <1>4, <2>1, LogFacts
    <3>2. opens \in Seq(OpenFile) /\ opens' \in Seq(OpenFile) /\ s - 1 <= Len(opens)
          /\ s - 1 <= Len(opens') /\ s - 1 \in Nat
      <4>1. opens \in Seq(OpenFile) /\ DOMAIN opens = 1..Len(opens) /\ Len(opens) \in Nat
        BY LogFacts DEF TypeOK
      <4>2. opens' \in Seq(OpenFile) /\ Len(opens') = Len(opens)
        BY <1>4
      <4> QED BY ONLY <2>1, <4>1, <4>2
    <3> QED BY <3>1, <3>2, SamePrefix
  <2>2. NumEntries(opens) = NumEntries(SubSeq(opens, 1, active - 1)) + Len(opens[active].entries)
    <3>1. \A s \in DOMAIN opens : s > active => opens[s].entries = <<>>
      BY DEF OpensInOrder
    <3>2. NumEntries(opens) = NumEntries(SubSeq(opens, 1, active))
      BY <1>2, <3>1, TrailingEmpty DEF TypeOK
    <3> QED BY <1>2, <3>2, EntriesBefore, EntriesAreSequences DEF TypeOK
  <2>3. ASSUME NEW s \in DOMAIN opens', NEW e \in DOMAIN opens'[s].entries
        PROVE  opens'[s].entries[e] = LastClosed + NumEntries(SubSeq(opens', 1, s - 1)) + e
    <3>1. CASE s = active
      <4> DEFINE old == opens[active].entries
                 new == opens'[active].entries
                 before == NumEntries(SubSeq(opens, 1, active - 1))
      <4>1. SubSeq(opens', 1, s - 1) = SubSeq(opens, 1, s - 1)
        BY <1>2, <2>1, <3>1, LogFacts
      <4>2. /\ old \in Seq(1..MaxIndex) /\ Len(old) \in Nat /\ DOMAIN old = 1..Len(old)
            /\ DOMAIN new = 1..(Len(old) + 1) /\ new[Len(old) + 1] = LastIndex + 1
            /\ \A d \in 1..Len(old) : new[d] = old[d]
        BY <1>3, <1>4
      <4>3. LastIndex = LastClosed + (before + Len(old))
        BY <2>2, LogFacts DEF Written
      <4>4. before \in Nat /\ LastClosed \in Nat
        <5>1. LastClosed \in Nat
          BY LogFacts
        <5>2. opens \in Seq(OpenFile)
          BY DEF TypeOK
        <5>3. before \in Nat
          BY <1>2, <5>2, EntriesBefore, EntriesAreSequences
        <5> QED BY <5>1, <5>3
      <4>5. \A d \in DOMAIN old : old[d] = LastClosed + before + d
        BY <1>2 DEF LogIsContiguous
      <4>6. e \in DOMAIN new
        BY <3>1
      <4> HIDE DEF old, new, before
      <4>7. new[e] = LastClosed + before + e
        <5>1. CASE e \in 1..Len(old)
          BY <4>2, <4>5, <5>1
        <5>2. CASE e = Len(old) + 1
          <6>1. new[e] = LastIndex + 1
            BY <4>2, <5>2
          <6>2. LastIndex + 1 = LastClosed + before + (Len(old) + 1)
            BY <4>2, <4>3, <4>4
          <6> QED BY <5>2, <6>1, <6>2
        <5> QED BY <4>2, <4>6, <5>1, <5>2
      <4> QED BY <3>1, <4>1, <4>7 DEF new, before
    <3>2. CASE s < active
      <4>1. opens'[s] = opens[s] /\ s \in DOMAIN opens /\ s <= active
        BY <1>2, <1>4, <3>2, LogFacts
      <4>2. SubSeq(opens', 1, s - 1) = SubSeq(opens, 1, s - 1)
        BY <2>1, <4>1
      <4> QED BY <4>1, <4>2 DEF LogIsContiguous
    <3>3. CASE s > active
      <4>1. opens'[s] = opens[s] /\ s \in DOMAIN opens
        BY <1>2, <1>4, <3>3, LogFacts
      <4>2. opens[s].entries = <<>>
        BY <3>3, <4>1 DEF OpensInOrder
      <4> QED BY <4>1, <4>2
    <3> QED BY <1>2, <1>4, <3>1, <3>2, <3>3, LogFacts
  <2>4. LastIndex' <= MaxIndex
    BY <1>2, <1>6
  <2>5. /\ \A s \in DOMAIN closed' :
             /\ closed'[s].first <= closed'[s].end
             /\ s > 1 => closed'[s].first = closed'[s - 1].end + 1
        /\ \A s, r \in DOMAIN closed' : s < r => closed'[s].end < closed'[r].first
    BY <1>1 DEF LogIsContiguous
  <2>6. \A s \in DOMAIN opens' : \A e \in DOMAIN opens'[s].entries :
          opens'[s].entries[e] = LastClosed' + NumEntries(SubSeq(opens', 1, s - 1)) + e
    BY <1>6, <2>3
  <2> QED BY <1>1, <2>4, <2>5, <2>6 DEF LogIsContiguous
<1>9. OpensInOrder'
  <2>1. ASSUME NEW s \in DOMAIN opens'
        PROVE  /\ opens'[s].counter <= counter
               /\ s < active => opens'[s].entries # <<>>
               /\ s > active => opens'[s].entries = <<>>
    <3>1. CASE s = active
      BY <1>2, <1>4, <3>1, LogFacts DEF OpensInOrder
    <3>2. CASE s # active
      BY <1>4, <3>2 DEF OpensInOrder
    <3> QED BY <3>1, <3>2
  <2> QED BY <1>1, <1>4, <2>1 DEF OpensInOrder
<1>10. LogReachesSnapshot'
  BY <1>1, <1>6 DEF LogReachesSnapshot
<1>11. FirstOpenFollows'
  <2>1. opens # <<>> => opens' # <<>> /\ Head(opens').counter = Head(opens).counter
    <3>1. opens # <<>> => 1 \in DOMAIN opens
      BY LogFacts DEF TypeOK
    <3>2. opens \in Seq(OpenFile) /\ opens' \in Seq(OpenFile)
      BY <1>4 DEF TypeOK
    <3>3. opens # <<>> => opens' # <<>>
      BY <1>4, <3>2, SeqFacts
    <3>4. opens # <<>> => Head(opens) = opens[1] /\ Head(opens') = opens'[1]
      BY <3>2, <3>3, TailFacts
    <3> QED BY <1>4, <3>1, <3>3, <3>4
  <2> QED BY <1>1, <1>4, <1>6, <2>1, FirstOpenStays DEF reader
<1>12. Listing' /\ DirFollowsList' /\ PrefixIsNumbered' /\ Attempts'
  BY <1>1, ReaderIsApart
<1> QED BY <1>7, <1>8, <1>9, <1>10, <1>11, <1>12

-----------------------------------------------------------------------------
(* The oldest open segment is closed, or dropped if it has no entry. *)
LEMMA OldestCloses ==
  ASSUME IInv, opens # <<>>, opens' = Tail(opens), UNCHANGED <<taken, counter, listed>>,
         \/ Head(opens).entries = <<>> /\ closed' = closed
         \/ /\ Head(opens).entries # <<>>
            /\ closed' = Append(closed, [first |-> LastClosed + 1,
                                         end |-> LastClosed + Len(Head(opens).entries)])
  PROVE  /\ closed' \in Seq(Name) /\ opens' \in Seq(OpenFile)
         /\ LastIndex' = LastIndex
         /\ (appending' => active' <= Len(opens') /\ LastIndex < MaxIndex)
              => LogIsContiguous'
         /\ LogReachesSnapshot'
         /\ \A s, t \in DOMAIN opens' : s < t => opens'[s].counter < opens'[t].counter
         /\ \A s \in DOMAIN opens' : opens'[s].counter <= counter
         /\ FirstOpenFollows'
<1> USE DEF IInv
<1> DEFINE h == Len(Head(opens).entries)
           name == [first |-> LastClosed + 1, end |-> LastClosed + h]
<1>1. /\ opens \in Seq(OpenFile) /\ opens' \in Seq(OpenFile) /\ closed \in Seq(Name)
      /\ DOMAIN opens = 1..Len(opens) /\ Len(opens) \in Nat \ {0}
      /\ Len(opens') = Len(opens) - 1 /\ DOMAIN opens' = 1..(Len(opens) - 1)
      /\ \A s \in DOMAIN opens' : s + 1 \in DOMAIN opens /\ opens'[s] = opens[s + 1]
      /\ Head(opens) = opens[1] /\ 1 \in DOMAIN opens /\ Head(opens) \in OpenFile
  BY DEF TypeOK
<1>2. /\ Head(opens).entries \in Seq(1..MaxIndex)
      /\ h \in Nat /\ (h = 0 <=> Head(opens).entries = <<>>)
  BY <1>1, EntriesAreSequences
<1>3. /\ NumEntries(opens) = h + NumEntries(opens')
      /\ NumEntries(opens) \in Nat /\ NumEntries(opens') \in Nat
  BY <1>1, HeadEntries, PlacesAreFinite, EntriesAreSequences
<1>4. LastClosed \in Nat /\ LastClosed + NumEntries(opens) <= MaxIndex /\ MaxIndex \in Nat
      /\ LastIndex = LastClosed + NumEntries(opens)
  BY LogFacts, LiveOpenAssumption DEF LogIsContiguous, Written
<1>5. h > 0 => name \in Name
  <2> HIDE DEF h
  <2>1. SUFFICES ASSUME h > 0 PROVE name \in Name
    OBVIOUS
  <2> DEFINE from == LastClosed + 1
             to == LastClosed + h
  <2>2. from \in 1..MaxIndex /\ to \in 1..MaxIndex
    BY <1>2, <1>3, <1>4, <2>1
  <2> HIDE DEF from, to
  <2>3. [first |-> from, end |-> to] \in Name
    BY <2>2 DEF Name
  <2> QED BY <2>3 DEF from, to
<1>6. /\ h = 0 => closed' = closed
      /\ h > 0 => closed' = Append(closed, name)
  BY <1>2
<1> HIDE DEF h, name
<1>7. closed' \in Seq(Name)
  <2>1. CASE h = 0
    BY <1>1, <1>6, <2>1
  <2>2. CASE h > 0
    <3>1. closed \in Seq(Name) /\ name \in Name /\ closed' = Append(closed, name)
      BY <1>1, <1>5, <1>6, <2>2
    <3> QED BY <3>1, AppendFacts
  <2> QED BY <1>2, <2>1, <2>2
<1>8. LastClosed' = LastClosed + h
  <2>1. CASE h = 0
    BY <1>4, <1>6, <2>1 DEF LastClosed
  <2>2. CASE h > 0
    <3>1. closed' # <<>> /\ closed'[Len(closed')] = name
      BY <1>1, <1>5, <1>6, <2>2, AppendFacts
    <3> QED BY <3>1 DEF LastClosed, name
  <2> QED BY <1>2, <2>1, <2>2
<1>9. LastIndex' = LastIndex
  BY <1>2, <1>3, <1>4, <1>8 DEF LastIndex, Written
<1>10. /\ \A s \in DOMAIN closed' :
            /\ closed'[s].first <= closed'[s].end
            /\ s > 1 => closed'[s].first = closed'[s - 1].end + 1
       /\ \A s, t \in DOMAIN closed' : s < t => closed'[s].end < closed'[t].first
  <2>1. CASE h = 0
    BY <1>6, <2>1 DEF LogIsContiguous
  <2>2. CASE h > 0
    <3>0. /\ DOMAIN closed = 1..Len(closed) /\ Len(closed) \in Nat
          /\ DOMAIN closed' = 1..(Len(closed) + 1)
          /\ \A s \in 1..Len(closed) : closed'[s] = closed[s]
          /\ closed'[Len(closed) + 1] = name
          /\ Len(closed) > 0 => closed # <<>>
          /\ \A s \in 1..Len(closed) : closed[s] \in Name
      <4>1. closed' = Append(closed, name)
        BY <1>6, <2>2
      <4>2. name \in Name
        BY <1>5, <2>2
      <4>3. \A s \in 1..Len(closed) : closed[s] \in Name
        BY <1>1
      <4> QED BY <1>1, <4>1, <4>2, <4>3, AppendFacts
    <3> DEFINE n == Len(closed)
    <3>1. /\ DOMAIN closed = 1..n /\ n \in Nat /\ DOMAIN closed' = 1..(n + 1)
          /\ \A s \in 1..n : closed'[s] = closed[s]
          /\ closed'[n + 1] = name
      BY <3>0
    <3>2. name.first = LastClosed + 1 /\ name.end = LastClosed + h
      BY DEF name
    <3>3. \A s \in 1..n : closed[s].first \in Nat /\ closed[s].end \in Nat
                          /\ closed[s].first <= closed[s].end
      BY <3>0 DEF Name, LogIsContiguous
    <3>4. n > 0 => LastClosed = closed[n].end
      BY <3>0 DEF LastClosed
    <3> HIDE DEF n
    <3>5. ASSUME NEW s \in 1..n PROVE closed[s].end <= LastClosed
      <4>1. CASE s = n
        <5>1. closed[n].end \in Nat /\ n > 0
          BY <3>1, <3>3, <4>1
        <5>2. LastClosed = closed[n].end
          BY <3>4, <5>1
        <5> QED BY <4>1, <5>1, <5>2
      <4>2. CASE s < n
        <5>1. n \in 1..n /\ n > 0
          BY <3>1, <4>2
        <5>2. closed[s].end < closed[n].first
          BY <3>1, <4>2, <5>1 DEF LogIsContiguous
        <5>3. /\ closed[s].end \in Nat /\ closed[n].first \in Nat /\ closed[n].end \in Nat
              /\ closed[n].first <= closed[n].end
          BY <3>3, <5>1
        <5>4. LastClosed = closed[n].end
          BY <3>4, <5>1
        <5> QED BY <5>2, <5>3, <5>4
      <4>3. s = n \/ s < n
        BY <3>1
      <4> QED BY <4>1, <4>2, <4>3
    <3>6. ASSUME NEW s \in DOMAIN closed'
          PROVE  /\ closed'[s].first <= closed'[s].end
                 /\ s > 1 => closed'[s].first = closed'[s - 1].end + 1
      <4>1. CASE s = n + 1
        <5>1. name.first <= name.end
          BY <1>2, <1>4, <2>2, <3>2
        <5>2. s > 1 => closed'[s - 1] = closed[n] /\ n > 0
          BY <3>1, <4>1
        <5> QED BY <3>1, <3>2, <3>4, <4>1, <5>1, <5>2
      <4>2. CASE s \in 1..n
        <5>1. s > 1 => closed'[s - 1] = closed[s - 1]
          BY <3>1, <4>2
        <5> QED BY <3>1, <4>2, <5>1 DEF LogIsContiguous
      <4> QED BY <3>1, <4>1, <4>2
    <3>7. ASSUME NEW s \in DOMAIN closed', NEW t \in DOMAIN closed', s < t
          PROVE  closed'[s].end < closed'[t].first
      <4>1. s \in 1..n
        BY <3>1, <3>7
      <4>2. CASE t = n + 1
        BY <1>4, <3>1, <3>2, <3>3, <3>5, <4>1, <4>2
      <4>3. CASE t \in 1..n
        BY <3>1, <3>7, <4>1, <4>3 DEF LogIsContiguous
      <4> QED BY <3>1, <4>2, <4>3
    <3> QED BY <3>6, <3>7
  <2> QED BY <1>2, <2>1, <2>2
<1>11. ASSUME NEW s \in DOMAIN opens', NEW e \in DOMAIN opens'[s].entries
       PROVE  opens'[s].entries[e] = LastClosed' + NumEntries(SubSeq(opens', 1, s - 1)) + e
  <2> DEFINE p == SubSeq(opens, 1, s)
             q == SubSeq(opens', 1, s - 1)
  <2>1. s \in 1..(Len(opens) - 1) /\ s + 1 \in DOMAIN opens /\ opens'[s] = opens[s + 1]
        /\ (s + 1) - 1 = s
    BY <1>1
  <2>2. opens[s + 1].entries[e] = LastClosed + NumEntries(p) + e
    BY <2>1 DEF LogIsContiguous
  <2>3. p \in Seq(OpenFile) /\ p # <<>> /\ Head(p) = Head(opens) /\ Tail(p) = q
        /\ q \in Seq(OpenFile)
    BY <1>1, <2>1
  <2>4. e \in Nat
    <3>1. opens'[s].entries \in Seq(1..MaxIndex)
      BY <1>1, EntriesAreSequences
    <3> QED BY <3>1
  <2> HIDE DEF p, q
  <2>5. NumEntries(p) = h + NumEntries(q) /\ NumEntries(q) \in Nat
    BY <2>3, HeadEntries, PlacesAreFinite, EntriesAreSequences DEF h
  <2>6. LastClosed + NumEntries(p) + e = LastClosed' + NumEntries(q) + e
    BY <1>2, <1>4, <1>8, <2>4, <2>5
  <2> QED BY <2>1, <2>2, <2>6 DEF q
<1>12. ASSUME appending' => active' <= Len(opens') /\ LastIndex < MaxIndex
       PROVE  LogIsContiguous'
  <2>1. LastIndex' <= MaxIndex
    BY <1>4, <1>9
  <2>2. appending' => active' <= Len(opens') /\ LastIndex' < MaxIndex
    BY <1>9, <1>12
  <2> QED BY <1>10, <1>11, <2>1, <2>2 DEF LogIsContiguous
<1>13. LogReachesSnapshot'
  <2>1. \A n \in DOMAIN taken : taken[n] <= LastClosed'
    <3>1. \A n \in DOMAIN taken : taken[n] \in 1..MaxIndex
      <4>1. taken \in Seq(1..MaxIndex)
        BY DEF TypeOK
      <4> QED BY <4>1, SeqFacts
    <3>2. \A n \in DOMAIN taken : taken[n] <= LastClosed
      BY DEF LogReachesSnapshot
    <3> QED BY <1>2, <1>4, <1>8, <3>1, <3>2
  <2>2. closed # <<>> => closed' # <<>> /\ closed'[1] = closed[1]
    <3>1. CASE h = 0
      BY <1>6, <3>1
    <3>2. CASE h > 0
      <4>1. closed \in Seq(Name) /\ name \in Name /\ closed' = Append(closed, name)
        BY <1>1, <1>5, <1>6, <3>2
      <4>2. closed # <<>> => 1 \in 1..Len(closed)
        BY <4>1, SeqFacts
      <4> QED BY <4>1, <4>2, AppendFacts
    <3> QED BY <1>2, <3>1, <3>2
  <2> QED BY <2>1, <2>2 DEF LogReachesSnapshot
<1>14. \A s, t \in DOMAIN opens' : s < t => opens'[s].counter < opens'[t].counter
  <2> TAKE s, t \in DOMAIN opens'
  <2> HAVE s < t
  <2>1. s + 1 < t + 1 /\ s + 1 \in DOMAIN opens /\ t + 1 \in DOMAIN opens
    BY <1>1
  <2> QED BY <1>1, <2>1 DEF OpensInOrder
<1>15. \A s \in DOMAIN opens' : opens'[s].counter <= counter
  BY <1>1 DEF OpensInOrder
<1>16. FirstOpenFollows'
  <2> SUFFICES ASSUME NEW f \in DOMAIN listed.segments,
                      IsFirstOpen(f), OnDisk(listed.segments[f])'
               PROVE  FALSE
    BY DEF FirstOpenFollows, IsFirstOpen, ListedClosed
  <2>1. listed.segments[f].kind = "open"
    BY DEF IsFirstOpen, ListedClosed, TypeOK, Listed
  <2>2. PICK s \in DOMAIN opens' : opens'[s].counter = listed.segments[f].name
    BY <2>1 DEF OnDisk
  <2>3. s + 1 \in DOMAIN opens /\ opens[s + 1].counter = listed.segments[f].name /\ 1 < s + 1
    BY <1>1, <2>2
  <2>4. OnDisk(listed.segments[f])
    BY <2>1, <2>3 DEF OnDisk
  <2>5. opens[1].counter = opens[s + 1].counter
    BY <1>1, <2>3, <2>4 DEF FirstOpenFollows
  <2>6. opens[1].counter < opens[s + 1].counter
    BY <1>1, <2>3 DEF OpensInOrder
  <2>7. opens[1].counter \in Nat
    BY <1>1 DEF OpenFile
  <2> QED BY <2>5, <2>6, <2>7
<1> QED BY <1>1, <1>7, <1>9, <1>12, <1>13, <1>14, <1>15, <1>16

LEMMA FinalizeInv ==
  ASSUME IInv, Finalize
  PROVE  IInv'
<1> USE DEF IInv
<1>1. /\ active > 1 /\ active' = active - 1 /\ opens' = Tail(opens)
      /\ closed' = Append(closed, [first |-> LastClosed + 1,
                                   end |-> LastClosed + Len(Head(opens).entries)])
      /\ UNCHANGED <<counter, appending, taken, up, phase, attempt, listed, dir, handles>>
  BY DEF Finalize, NodeStep, reader
<1>2. /\ active \in Nat /\ active <= Len(opens) + 1 /\ Len(opens) \in Nat \ {0}
      /\ opens # <<>> /\ 1 \in DOMAIN opens /\ Head(opens) = opens[1]
      /\ opens \in Seq(OpenFile)
  BY <1>1 DEF TypeOK
<1>3. Head(opens).entries # <<>>
  BY <1>1, <1>2 DEF OpensInOrder
<1>4. /\ DOMAIN opens = 1..Len(opens) /\ DOMAIN opens' = 1..(Len(opens) - 1)
      /\ Len(opens') = Len(opens) - 1
      /\ \A s \in DOMAIN opens' : s + 1 \in DOMAIN opens /\ opens'[s] = opens[s + 1]
  BY <1>1, <1>2
<1>5. appending' => active' <= Len(opens') /\ LastIndex < MaxIndex
  BY <1>1, <1>2, <1>4 DEF LogIsContiguous
<1>6. /\ closed' \in Seq(Name) /\ opens' \in Seq(OpenFile)
      /\ LogIsContiguous' /\ LogReachesSnapshot' /\ FirstOpenFollows'
      /\ \A s, t \in DOMAIN opens' : s < t => opens'[s].counter < opens'[t].counter
      /\ \A s \in DOMAIN opens' : opens'[s].counter <= counter
  <2>1. UNCHANGED <<taken, counter, listed>>
    BY <1>1
  <2>2. opens # <<>> /\ opens' = Tail(opens)
    BY <1>1, <1>2
  <2>3. /\ Head(opens).entries # <<>>
        /\ closed' = Append(closed, [first |-> LastClosed + 1,
                                     end |-> LastClosed + Len(Head(opens).entries)])
    BY <1>1, <1>3
  <2> QED BY <1>5, <2>1, <2>2, <2>3, OldestCloses
<1>7. TypeOK'
  <2>1. active' \in 1..(Len(opens') + 1)
    BY <1>1, <1>2, <1>4
  <2> QED BY <1>1, <1>6, <2>1 DEF TypeOK
<1>8. OpensInOrder'
  <2>1. ASSUME NEW s \in DOMAIN opens'
        PROVE  /\ s < active' => opens'[s].entries # <<>>
               /\ s > active' => opens'[s].entries = <<>>
    <3>1. /\ s + 1 \in DOMAIN opens /\ opens'[s] = opens[s + 1]
          /\ s < active' => s + 1 < active
          /\ s > active' => s + 1 > active
      BY <1>1, <1>2, <1>4
    <3> QED BY <3>1 DEF OpensInOrder
  <2> QED BY <1>1, <1>6, <2>1 DEF OpensInOrder
<1>9. Listing' /\ DirFollowsList' /\ PrefixIsNumbered' /\ Attempts'
  BY <1>1, ReaderIsApart DEF reader
<1> QED BY <1>6, <1>7, <1>8, <1>9

LEMMA RecoverInv ==
  ASSUME IInv, Recover
  PROVE  IInv'
<1> USE DEF IInv
<1>1. /\ opens # <<>> /\ opens' = Tail(opens)
      /\ active' = IF active > 1 THEN active - 1 ELSE 1
      /\ appending' = (appending /\ active > 1)
      /\ closed' = IF Head(opens).entries = <<>> THEN closed
                   ELSE Append(closed, [first |-> LastClosed + 1,
                                        end |-> LastClosed + Len(Head(opens).entries)])
      /\ UNCHANGED <<counter, taken, up, phase, attempt, listed, dir, handles>>
  BY DEF Recover, NodeStep, reader
<1>2. /\ active \in Nat \ {0} /\ active <= Len(opens) + 1 /\ Len(opens) \in Nat \ {0}
      /\ opens \in Seq(OpenFile)
  BY <1>1 DEF TypeOK
<1>4. /\ DOMAIN opens = 1..Len(opens) /\ DOMAIN opens' = 1..(Len(opens) - 1)
      /\ Len(opens') = Len(opens) - 1
      /\ \A s \in DOMAIN opens' : s + 1 \in DOMAIN opens /\ opens'[s] = opens[s + 1]
  BY <1>1, <1>2
<1>5. ASSUME appending' PROVE active' <= Len(opens') /\ LastIndex < MaxIndex
  <2>1. appending /\ active > 1
    BY <1>1, <1>5
  <2>2. active <= Len(opens) /\ LastIndex < MaxIndex
    BY <2>1 DEF LogIsContiguous
  <2>3. active' = active - 1
    BY <1>1, <2>1
  <2> QED BY <1>2, <1>4, <2>2, <2>3
<1>6. /\ closed' \in Seq(Name) /\ opens' \in Seq(OpenFile)
      /\ LogIsContiguous' /\ LogReachesSnapshot' /\ FirstOpenFollows'
      /\ \A s, t \in DOMAIN opens' : s < t => opens'[s].counter < opens'[t].counter
      /\ \A s \in DOMAIN opens' : opens'[s].counter <= counter
  <2>1. UNCHANGED <<taken, counter, listed>>
    BY <1>1
  <2>2. opens # <<>> /\ opens' = Tail(opens)
    BY <1>1
  <2>3. CASE Head(opens).entries = <<>>
    <3>1. closed' = closed
      BY <1>1, <2>3
    <3> QED BY <1>5, <2>1, <2>2, <2>3, <3>1, OldestCloses
  <2>4. CASE Head(opens).entries # <<>>
    <3>1. closed' = Append(closed, [first |-> LastClosed + 1,
                                    end |-> LastClosed + Len(Head(opens).entries)])
      BY <1>1, <2>4
    <3> QED BY <1>5, <2>1, <2>2, <2>4, <3>1, OldestCloses
  <2> QED BY <2>3, <2>4
<1>7. TypeOK'
  <2>1. active' \in 1..(Len(opens') + 1)
    BY <1>1, <1>2, <1>4
  <2>2. appending' \in BOOLEAN
    BY <1>1
  <2> QED BY <1>1, <1>6, <2>1, <2>2 DEF TypeOK
<1>8. OpensInOrder'
  <2>1. ASSUME NEW s \in DOMAIN opens'
        PROVE  /\ s < active' => opens'[s].entries # <<>>
               /\ s > active' => opens'[s].entries = <<>>
    <3>1. /\ s + 1 \in DOMAIN opens /\ opens'[s] = opens[s + 1]
          /\ s < active' => s + 1 < active
          /\ s > active' => s + 1 > active
      BY <1>1, <1>2, <1>4
    <3> QED BY <3>1 DEF OpensInOrder
  <2> QED BY <1>1, <1>6, <2>1 DEF OpensInOrder
<1>9. Listing' /\ DirFollowsList' /\ PrefixIsNumbered' /\ Attempts'
  BY <1>1, ReaderIsApart DEF reader
<1> QED BY <1>6, <1>7, <1>8, <1>9

-----------------------------------------------------------------------------
LEMMA SnapshotInv ==
  ASSUME IInv, TakeSnapshot
  PROVE  IInv'
<1> USE DEF IInv
<1>1. /\ closed # <<>> /\ \A n \in DOMAIN taken : taken[n] < LastClosed
      /\ taken' = IF Len(taken) < 2 THEN Append(taken, LastClosed)
                  ELSE <<taken[2], LastClosed>>
      /\ UNCHANGED <<closed, opens, active, counter, appending, up>> /\ UNCHANGED reader
  BY DEF TakeSnapshot, NodeStep
<1>2. LastClosed' = LastClosed /\ LastIndex' = LastIndex
  BY <1>1 DEF LastClosed, LastIndex, Written
<1>3. /\ LastClosed \in 1..MaxIndex
      /\ closed[1] \in Name /\ closed[1].first <= LastClosed
  <2>1. closed \in Seq(Name) /\ Len(closed) \in Nat \ {0} /\ DOMAIN closed = 1..Len(closed)
    BY <1>1 DEF TypeOK
  <2>2. LastClosed = closed[Len(closed)].end /\ closed[Len(closed)] \in Name
        /\ closed[1] \in Name
    BY <1>1, <2>1 DEF LastClosed
  <2>3. closed[1].first <= closed[1].end
        /\ (Len(closed) > 1 => closed[1].end < closed[Len(closed)].first)
        /\ closed[Len(closed)].first <= closed[Len(closed)].end
    BY <2>1 DEF LogIsContiguous
  <2> QED BY <2>1, <2>2, <2>3, LiveOpenAssumption DEF Name
<1>4. taken' \in Seq(1..MaxIndex) /\ taken' # <<>> /\ Len(taken') <= 2
      /\ (\A n \in DOMAIN taken' : taken'[1] <= taken'[n] /\ taken'[n] <= LastClosed)
      /\ (taken # <<>> => taken[1] <= taken'[1])
      /\ (taken = <<>> => taken'[1] = LastClosed)
  <2>1. /\ taken \in Seq(1..MaxIndex) /\ Len(taken) \in 0..2 /\ DOMAIN taken = 1..Len(taken)
        /\ \A n \in DOMAIN taken : taken[n] \in 1..MaxIndex /\ taken[1] <= taken[n]
    <3>1. taken \in Seq(1..MaxIndex)
      BY DEF TypeOK
    <3>2. Len(taken) <= 2 /\ \A n \in DOMAIN taken : taken[1] <= taken[n]
      BY DEF LogReachesSnapshot
    <3>3. /\ DOMAIN taken = 1..Len(taken) /\ Len(taken) \in Nat
          /\ \A n \in DOMAIN taken : taken[n] \in 1..MaxIndex
      BY <3>1, SeqFacts
    <3> QED BY <3>1, <3>2, <3>3
  <2>2. CASE Len(taken) = 0
    <3>1. taken = <<>> /\ taken' = <<LastClosed>>
      BY <1>1, <2>1, <2>2
    <3> QED BY <1>3, <3>1
  <2>3. CASE Len(taken) = 1
    <3>0. taken' = Append(taken, LastClosed)
      BY <1>1, <2>3
    <3>1. /\ taken' \in Seq(1..MaxIndex) /\ DOMAIN taken' = 1..2 /\ Len(taken') = 2
          /\ taken'[1] = taken[1] /\ taken'[2] = LastClosed
      <4>1. /\ taken' \in Seq(1..MaxIndex)
            /\ DOMAIN taken' = 1..(Len(taken) + 1) /\ Len(taken') = Len(taken) + 1
            /\ \A n \in 1..Len(taken) : taken'[n] = taken[n]
            /\ taken'[Len(taken) + 1] = LastClosed
        BY <1>3, <2>1, <3>0, AppendFacts
      <4> QED BY <2>3, <4>1
    <3>2. taken[1] < LastClosed /\ taken[1] \in 1..MaxIndex /\ taken # <<>>
      BY <1>1, <2>1, <2>3
    <3>3. taken[1] \in Nat /\ LastClosed \in Nat
      BY <1>3, <3>2, LiveOpenAssumption
    <3>4. \A n \in 1..2 : taken[1] <= taken'[n] /\ taken'[n] <= LastClosed
      BY <3>1, <3>2, <3>3
    <3>5. taken' # <<>>
      BY <3>1
    <3> QED BY <3>1, <3>2, <3>3, <3>4, <3>5
  <2>4. CASE Len(taken) = 2
    <3>1. /\ taken[2] \in 1..MaxIndex /\ taken[2] < LastClosed /\ taken[1] <= taken[2]
          /\ taken # <<>>
      BY <1>1, <2>1, <2>4
    <3>2. taken' = <<taken[2], LastClosed>>
      BY <1>1, <2>4
    <3> QED BY <1>3, <3>1, <3>2
  <2> QED BY <2>1, <2>2, <2>3, <2>4
<1>5. LogReachesSnapshot'
  <2>1. closed[1].first <= taken'[1] + 1
    <3>1. CASE taken = <<>>
      BY <1>3, <1>4, <3>1 DEF Name
    <3>2. CASE taken # <<>>
      <4>1. closed[1].first <= taken[1] + 1 /\ taken[1] \in Nat /\ taken'[1] \in Nat
        <5>1. closed[1].first <= taken[1] + 1
          BY <3>2 DEF LogReachesSnapshot
        <5>2. taken \in Seq(1..MaxIndex)
          BY DEF TypeOK
        <5>3. taken[1] \in 1..MaxIndex
          BY <3>2, <5>2, SeqFacts
        <5>4. taken'[1] \in 1..MaxIndex
          BY <1>4, SeqFacts
        <5> QED BY <5>1, <5>3, <5>4, LiveOpenAssumption
      <4> QED BY <1>3, <1>4, <3>2, <4>1 DEF Name
    <3> QED BY <3>1, <3>2
  <2> QED BY <1>1, <1>2, <1>4, <2>1 DEF LogReachesSnapshot
<1>6. TypeOK'
  BY <1>1, <1>4 DEF TypeOK, reader
<1>7. LogIsContiguous' /\ OpensInOrder'
  BY <1>1, <1>2 DEF LogIsContiguous, OpensInOrder
<1>8. FirstOpenFollows'
  BY <1>1, <1>2, FirstOpenStays DEF reader
<1>9. Listing' /\ DirFollowsList' /\ PrefixIsNumbered' /\ Attempts'
  BY <1>1, ReaderIsApart
<1> QED BY <1>5, <1>6, <1>7, <1>8, <1>9

LEMMA RemoveInv ==
  ASSUME IInv, RemoveSegment
  PROVE  IInv'
<1> USE DEF IInv
<1>1. /\ taken # <<>> /\ Len(closed) > 1 /\ closed[1].end <= taken[1]
      /\ closed' = Tail(closed)
      /\ UNCHANGED <<opens, active, counter, appending, taken, up>> /\ UNCHANGED reader
  BY DEF RemoveSegment, NodeStep
<1>2. /\ closed \in Seq(Name) /\ closed' \in Seq(Name)
      /\ Len(closed) \in Nat /\ DOMAIN closed = 1..Len(closed)
      /\ Len(closed') = Len(closed) - 1 /\ DOMAIN closed' = 1..(Len(closed) - 1)
      /\ \A s \in DOMAIN closed' : s + 1 \in DOMAIN closed /\ closed'[s] = closed[s + 1]
      /\ closed # <<>> /\ closed' # <<>> /\ closed[1] \in Name
  <2>1. closed \in Seq(Name)
    BY DEF TypeOK
  <2>2. closed # <<>>
    BY <1>1, <2>1
  <2>3. /\ Tail(closed) \in Seq(Name) /\ DOMAIN closed = 1..Len(closed)
        /\ Len(closed) \in Nat /\ DOMAIN Tail(closed) = 1..(Len(closed) - 1)
        /\ Len(Tail(closed)) = Len(closed) - 1
        /\ \A n \in DOMAIN Tail(closed) : n + 1 \in DOMAIN closed /\ Tail(closed)[n] = closed[n + 1]
    BY <2>1, <2>2, TailFacts
  <2>4. closed[1] \in Name
    BY <2>1, <2>2, SeqFacts
  <2>5. Tail(closed) # <<>>
    <3>1. Len(Tail(closed)) > 0
      BY <1>1, <2>3
    <3> QED BY <2>3, <3>1, SeqFacts
  <2> QED BY <1>1, <2>1, <2>2, <2>3, <2>4, <2>5
<1>3. LastClosed' = LastClosed
  BY <1>1, <1>2 DEF LastClosed
<1>4. LastIndex' = LastIndex
  BY <1>1, <1>3 DEF LastIndex, Written
<1>5. LogIsContiguous'
  <2>1. ASSUME NEW s \in DOMAIN closed'
        PROVE  /\ closed'[s].first <= closed'[s].end
               /\ s > 1 => closed'[s].first = closed'[s - 1].end + 1
    <3>1. s + 1 \in DOMAIN closed /\ closed'[s] = closed[s + 1] /\ s + 1 > 1
          /\ (s + 1) - 1 = s
      BY <1>2
    <3>2. s > 1 => closed'[s - 1] = closed[s]
      BY <1>2
    <3> QED BY <3>1, <3>2 DEF LogIsContiguous
  <2>2. ASSUME NEW s \in DOMAIN closed', NEW t \in DOMAIN closed', s < t
        PROVE  closed'[s].end < closed'[t].first
    <3>1. s + 1 \in DOMAIN closed /\ t + 1 \in DOMAIN closed /\ s + 1 < t + 1
      BY <1>2, <2>2
    <3> QED BY <1>2, <3>1 DEF LogIsContiguous
  <2>3. \A s \in DOMAIN opens' : \A e \in DOMAIN opens'[s].entries :
          opens'[s].entries[e] = LastClosed' + NumEntries(SubSeq(opens', 1, s - 1)) + e
    BY <1>1, <1>3 DEF LogIsContiguous
  <2>4. LastIndex' <= MaxIndex
        /\ (appending' => active' <= Len(opens') /\ LastIndex' < MaxIndex)
    BY <1>1, <1>4 DEF LogIsContiguous
  <2> QED BY <2>1, <2>2, <2>3, <2>4 DEF LogIsContiguous
<1>6. LogReachesSnapshot'
  <2>1. closed'[1] = closed[2] /\ 2 \in DOMAIN closed /\ 1 \in DOMAIN closed
    BY <1>1, <1>2
  <2>2. closed[2].first = closed[1].end + 1
    <3>1. closed[2].first = closed[2 - 1].end + 1
      BY <2>1 DEF LogIsContiguous
    <3> QED BY <3>1
  <2>3. closed[1].end \in Nat /\ taken[1] \in Nat
    <3>1. taken \in Seq(1..MaxIndex)
      BY DEF TypeOK
    <3>2. taken[1] \in 1..MaxIndex
      BY <1>1, <3>1, SeqFacts
    <3>3. closed[1].end \in 1..MaxIndex
      BY <1>2 DEF Name
    <3> QED BY <3>2, <3>3, LiveOpenAssumption
  <2>4. closed'[1].first <= taken[1] + 1
    BY <1>1, <2>1, <2>2, <2>3
  <2> QED BY <1>1, <1>2, <1>3, <2>4 DEF LogReachesSnapshot
<1>7. TypeOK' /\ OpensInOrder'
  BY <1>1, <1>2 DEF TypeOK, OpensInOrder, reader
<1>8. FirstOpenFollows'
  BY <1>1, <1>3, FirstOpenStays DEF reader
<1>9. Listing' /\ DirFollowsList' /\ PrefixIsNumbered' /\ Attempts'
  BY <1>1, ReaderIsApart
<1> QED BY <1>5, <1>6, <1>7, <1>8, <1>9

-----------------------------------------------------------------------------
(* The reader changes nothing that the node has. *)
LEMMA NodeIsApart ==
  ASSUME IInv, UNCHANGED node
  PROVE  /\ LogIsContiguous' /\ OpensInOrder' /\ LogReachesSnapshot'
         /\ LastClosed' = LastClosed
         /\ UNCHANGED listed => Listing' /\ FirstOpenFollows'
<1> USE DEF IInv, node
<1>1. LastClosed' = LastClosed /\ LastIndex' = LastIndex
  BY DEF LastClosed, LastIndex, Written
<1>2. LogIsContiguous' /\ OpensInOrder' /\ LogReachesSnapshot'
  BY <1>1 DEF LogIsContiguous, OpensInOrder, LogReachesSnapshot
<1>3. UNCHANGED listed => Listing' /\ FirstOpenFollows'
  BY <1>1 DEF Listing, FirstOpenFollows, IsFirstOpen, ListedClosed, OnDisk
<1> QED BY <1>1, <1>2, <1>3

LEMMA ListFolderInv ==
  ASSUME IInv, ListFolder
  PROVE  IInv'
<1> USE DEF IInv
<1> DEFINE n == Len(closed)
           m == Len(opens)
           A == [s \in DOMAIN closed |-> [kind |-> "closed", name |-> closed[s]]]
           B == [s \in DOMAIN opens |-> [kind |-> "open", name |-> opens[s].counter]]
           L == listed'.segments
<1>1. /\ phase = "start" /\ attempt' = attempt + 1 /\ phase' = "open"
      /\ listed' = [snapshots |-> taken, segments |-> A \o B]
      /\ dir' = Nothing /\ handles' = {} /\ UNCHANGED node
  BY DEF ListFolder
<1>2. /\ closed \in Seq(Name) /\ opens \in Seq(OpenFile) /\ taken \in Seq(1..MaxIndex)
      /\ n \in Nat /\ DOMAIN closed = 1..n /\ m \in Nat /\ DOMAIN opens = 1..m
  BY DEF TypeOK
<1>3. /\ L \in Seq(Listed) /\ Len(L) = n + m /\ DOMAIN L = 1..(n + m)
      /\ \A s \in 1..n : L[s].kind = "closed" /\ L[s].name = closed[s]
      /\ \A s \in 1..m : L[n + s].kind = "open" /\ L[n + s].name = opens[s].counter
  <2>1. A \in Seq(Listed) /\ Len(A) = n
    <3>1. \A s \in 1..n : [kind |-> "closed", name |-> closed[s]] \in Listed
      BY <1>2, SeqFacts DEF Listed
    <3> QED BY <1>2, <3>1
  <2>2. B \in Seq(Listed) /\ Len(B) = m
    <3>1. \A s \in 1..m : [kind |-> "open", name |-> opens[s].counter] \in Listed
      <4>1. \A s \in 1..m : opens[s] \in OpenFile
        BY <1>2, SeqFacts
      <4> QED BY <4>1 DEF Listed, OpenFile
    <3> QED BY <1>2, <3>1
  <2>3. /\ \A s \in 1..n : A[s].kind = "closed" /\ A[s].name = closed[s]
        /\ \A s \in 1..m : B[s].kind = "open" /\ B[s].name = opens[s].counter
    BY <1>2
  <2>4. L = A \o B
    BY <1>1
  <2> HIDE DEF A, B, L, n, m
  <2>5. /\ L \in Seq(Listed) /\ Len(L) = n + m
        /\ \A s \in 1..n : L[s] = A[s]
        /\ \A s \in 1..m : L[n + s] = B[s]
    <3>1. /\ A \o B \in Seq(Listed) /\ Len(A \o B) = Len(A) + Len(B)
          /\ \A s \in 1..Len(A) : (A \o B)[s] = A[s]
          /\ \A s \in 1..Len(B) : (A \o B)[Len(A) + s] = B[s]
      <4>1. A \in Seq(Listed) /\ B \in Seq(Listed)
        BY <2>1, <2>2
      <4>2. A \o B \in Seq(Listed) /\ Len(A \o B) = Len(A) + Len(B)
        BY <4>1, ConcatFacts
      <4>3. \A s \in 1..Len(A) : (A \o B)[s] = A[s]
        BY <4>1, ConcatFacts
      <4>4. \A s \in 1..Len(B) : (A \o B)[Len(A) + s] = B[s]
        BY <4>1, ConcatFacts
      <4> QED BY <4>2, <4>3, <4>4
    <3> QED BY <2>1, <2>2, <2>4, <3>1
  <2>6. DOMAIN L = 1..(n + m)
    BY <2>5, SeqFacts
  <2> QED BY <2>3, <2>5, <2>6
<1>5. listed'.segments = L /\ listed'.snapshots = taken
  BY <1>1
<1> HIDE DEF n, m, A, B, L
<1>4. \A s \in 1..(n + m) : s \in 1..n \/ \E r \in 1..m : s = n + r
  <2> TAKE s \in 1..(n + m)
  <2>1. s > n => s - n \in 1..m /\ s = n + (s - n)
    BY <1>2
  <2> QED BY <1>2, <2>1
<1>6. \A s \in 1..(n + m) : L[s].kind = "closed" <=> s <= n
  <2> TAKE s \in 1..(n + m)
  <2>1. CASE s \in 1..n
    BY <1>2, <1>3, <2>1
  <2>2. CASE \E r \in 1..m : s = n + r
    <3>1. PICK r \in 1..m : s = n + r
      BY <2>2
    <3>2. L[s].kind = "open"
      BY <1>3, <3>1
    <3> QED BY <1>2, <3>1, <3>2
  <2> QED BY <1>4, <2>1, <2>2
<1>7. \A s \in 1..(n + m) : ListedClosed(s)' <=> s <= n
  BY <1>5, <1>6 DEF ListedClosed
<1>8. Listing'
  <2>1. \A s, t \in DOMAIN L : s < t /\ ListedClosed(t)' => ListedClosed(s)'
    BY <1>2, <1>3, <1>7
  <2>2. ASSUME NEW s \in DOMAIN L, s <= n
        PROVE  /\ L[s].name.first <= L[s].name.end
               /\ s > 1 => L[s].name.first = L[s - 1].name.end + 1
    <3>1. s \in 1..n /\ L[s].name = closed[s]
      BY <1>2, <1>3, <2>2
    <3>2. s > 1 => L[s - 1].name = closed[s - 1]
      BY <1>2, <1>3, <3>1
    <3> QED BY <1>2, <3>1, <3>2 DEF LogIsContiguous
  <2>3. ASSUME NEW s \in DOMAIN L, s > n
        PROVE  L[s].name <= counter'
    <3>1. PICK r \in 1..m : s = n + r
      <4>1. s \in 1..(n + m) /\ s \notin 1..n
        BY <1>2, <1>3, <2>3
      <4> QED BY <1>4, <4>1
    <3>2. L[s].name = opens[r].counter
      BY <1>3, <3>1
    <3> QED BY <1>1, <1>2, <3>1, <3>2 DEF OpensInOrder, node
  <2>4. taken # <<>> => L # <<>> /\ ListedClosed(1)' /\ L[1].name.first <= taken[1] + 1
    <3> HAVE taken # <<>>
    <3>1. closed # <<>> /\ closed[1].first <= taken[1] + 1
      BY DEF LogReachesSnapshot
    <3>2. n > 0
      BY <1>2, <3>1 DEF n
    <3>3. 1 \in 1..n /\ 1 \in DOMAIN L
      BY <1>2, <1>3, <3>2
    <3>4. L[1].name = closed[1]
      BY <1>3, <3>3
    <3>5. L # <<>>
      BY <3>3
    <3>6. ListedClosed(1)'
      BY <1>2, <1>3, <1>7, <3>3
    <3> QED BY <3>1, <3>4, <3>5, <3>6
  <2>5. ASSUME NEW s \in DOMAIN L
        PROVE  IF ListedClosed(s)'
               THEN /\ L[s].name.first <= L[s].name.end
                    /\ s > 1 => L[s].name.first = L[s - 1].name.end + 1
               ELSE L[s].name <= counter'
    <3>1. s \in 1..(n + m) /\ (s <= n \/ s > n)
      BY <1>2, <1>3
    <3>2. CASE s <= n
      BY <1>7, <2>2, <3>1, <3>2
    <3>3. CASE s > n
      <4>1. ~ListedClosed(s)'
        BY <1>2, <1>7, <3>1, <3>3
      <4> QED BY <2>3, <3>3, <4>1
    <3> QED BY <3>1, <3>2, <3>3
  <2> QED BY <1>5, <2>1, <2>4, <2>5 DEF Listing
<1>9. LastClosed' = LastClosed /\ LogIsContiguous' /\ OpensInOrder' /\ LogReachesSnapshot'
  BY <1>1, NodeIsApart
<1>10. FirstOpenFollows'
  <2> SUFFICES ASSUME NEW f \in DOMAIN L, IsFirstOpen(f)'
               PROVE  /\ opens # <<>> /\ Head(opens).counter = L[f].name
                      /\ LastClosed = IF f = 1 THEN 0 ELSE L[f - 1].name.end
    BY <1>1, <1>5, <1>9 DEF FirstOpenFollows, node
  <2>1. f \in 1..(n + m) /\ f > n
    BY <1>2, <1>3, <1>7 DEF IsFirstOpen
  <2>2. f = n + 1
    <3>1. CASE f = 1
      BY <1>2, <2>1, <3>1
    <3>2. CASE f # 1
      <4>1. f - 1 \in 1..(n + m) /\ ListedClosed(f - 1)'
        BY <1>2, <2>1, <3>2 DEF IsFirstOpen
      <4>2. f - 1 <= n
        BY <1>7, <4>1
      <4> QED BY <1>2, <2>1, <4>2
    <3> QED BY <3>1, <3>2
  <2>3. 1 \in 1..m
    BY <1>2, <2>1, <2>2
  <2>4. opens # <<>> /\ Head(opens) = opens[1]
    BY <1>2, <2>3
  <2>5. L[f].name = opens[1].counter
    BY <1>3, <2>2, <2>3
  <2>6. LastClosed = IF f = 1 THEN 0 ELSE L[f - 1].name.end
    <3>1. CASE n = 0
      <4>1. closed = <<>>
        BY <1>2, <3>1 DEF n
      <4> QED BY <2>2, <3>1, <4>1 DEF LastClosed
    <3>2. CASE n > 0
      <4>1. f # 1 /\ f - 1 = n /\ n \in 1..n
        BY <1>2, <2>2, <3>2
      <4>2. LastClosed = closed[n].end
        BY <1>2, <3>2 DEF LastClosed, n
      <4>3. L[n].name = closed[n]
        BY <1>3, <4>1
      <4> QED BY <4>1, <4>2, <4>3
    <3> QED BY <1>2, <3>1, <3>2
  <2> QED BY <2>4, <2>5, <2>6
<1>11. TypeOK'
  <2>1. attempt' \in 0..MaxRetries \cup {1}
    BY <1>1, LiveOpenAssumption DEF TypeOK, Attempts
  <2>2. listed' \in [snapshots : Seq(1..MaxIndex), segments : Seq(Listed)]
    BY <1>1, <1>2, <1>3 DEF L
  <2>3. dir' \in [snapshots : Seq([index : 1..MaxIndex]), segments : Seq(Segment)]
    BY <1>1 DEF Nothing
  <2>4. /\ closed' \in Seq(Name) /\ opens' \in Seq(OpenFile)
        /\ active' \in 1..(Len(opens') + 1) /\ counter' \in 0..MaxCounter
        /\ appending' \in BOOLEAN /\ up' \in BOOLEAN
        /\ taken' \in Seq(1..MaxIndex)
    BY <1>1 DEF TypeOK, node
  <2>5. phase' \in {"start", "open", "opened", "read", "unreadable", "failed"}
        /\ handles' \subseteq Name
    BY <1>1
  <2> QED BY <2>1, <2>2, <2>3, <2>4, <2>5 DEF TypeOK
<1>12. DirFollowsList' /\ PrefixIsNumbered' /\ Attempts'
  <2>1. dir'.snapshots = <<>> /\ dir'.segments = <<>> /\ ~Done' /\ phase' = "open"
    BY <1>1 DEF Nothing, Done
  <2>2. Len(listed'.snapshots) \in Nat /\ Len(listed'.segments) \in Nat
    BY <1>2, <1>3, <1>5
  <2>3. attempt' > 0
    BY <1>1, LiveOpenAssumption DEF TypeOK
  <2> QED BY <2>1, <2>2, <2>3 DEF DirFollowsList, PrefixIsNumbered, Attempts, OpenedStaysReadable
<1> QED BY <1>8, <1>9, <1>10, <1>11, <1>12

LEMMA OpenSnapshotInv ==
  ASSUME IInv, OpenSnapshot
  PROVE  IInv'
<1> USE DEF IInv
<1> DEFINE k == Len(dir.snapshots) + 1
           x == [index |-> NextSnapshot]
<1>1. /\ phase = "open" /\ SnapshotsLeft
      /\ dir' = [dir EXCEPT !.snapshots = Append(dir.snapshots, x)]
      /\ UNCHANGED <<node, phase, attempt, listed, handles>>
  BY DEF OpenSnapshot
<1>2. /\ dir.snapshots \in Seq([index : 1..MaxIndex]) /\ dir.segments \in Seq(Segment)
      /\ listed.snapshots \in Seq(1..MaxIndex)
      /\ dir'.snapshots = Append(dir.snapshots, x) /\ dir'.segments = dir.segments
      /\ dir' \in [snapshots : {dir'.snapshots}, segments : {dir'.segments}]
  BY <1>1 DEF TypeOK
<1>3. dir.segments = <<>> /\ ~Done
  BY <1>1 DEF DirFollowsList, Done
<1>4. /\ k \in DOMAIN listed.snapshots /\ k <= Len(listed.snapshots)
      /\ k \in Nat /\ x.index = listed.snapshots[k]
  <2>1. Len(dir.snapshots) \in Nat /\ DOMAIN listed.snapshots = 1..Len(listed.snapshots)
        /\ Len(listed.snapshots) \in Nat
    BY <1>2, SeqFacts
  <2> QED BY <1>1, <2>1 DEF SnapshotsLeft, NextSnapshot
<1>5. x \in [index : 1..MaxIndex]
  <2>1. listed.snapshots[k] \in 1..MaxIndex
    BY <1>2, <1>4, SeqFacts
  <2> QED BY <1>4, <2>1
<1> HIDE DEF x
<1>6. /\ dir'.snapshots \in Seq([index : 1..MaxIndex])
      /\ Len(dir'.snapshots) = k /\ DOMAIN dir'.snapshots = 1..k
      /\ \A n \in 1..(k - 1) : n \in DOMAIN dir.snapshots /\ dir'.snapshots[n] = dir.snapshots[n]
      /\ dir'.snapshots[k] = x
  <2>1. /\ Append(dir.snapshots, x) \in Seq([index : 1..MaxIndex])
        /\ DOMAIN dir.snapshots = 1..Len(dir.snapshots) /\ Len(dir.snapshots) \in Nat
        /\ Len(Append(dir.snapshots, x)) = k
        /\ DOMAIN Append(dir.snapshots, x) = 1..k
        /\ \A n \in 1..Len(dir.snapshots) : Append(dir.snapshots, x)[n] = dir.snapshots[n]
        /\ Append(dir.snapshots, x)[k] = x
    BY <1>2, <1>5, AppendFacts
  <2> QED BY <1>2, <2>1
<1> HIDE DEF k
<1>7. TypeOK'
  <2>1. dir' \in [snapshots : Seq([index : 1..MaxIndex]), segments : Seq(Segment)]
    BY <1>2, <1>6
  <2> QED BY <1>1, <2>1 DEF TypeOK, node
<1>8. LogIsContiguous' /\ OpensInOrder' /\ LogReachesSnapshot' /\ Listing' /\ FirstOpenFollows'
  BY <1>1, NodeIsApart
<1>9. DirFollowsList'
  <2>1. ASSUME NEW n \in DOMAIN dir'.snapshots PROVE dir'.snapshots[n].index = listed.snapshots[n]
    <3>1. CASE n = k
      BY <1>4, <1>6, <3>1
    <3>2. CASE n # k
      <4>1. n \in 1..(k - 1)
        BY <1>4, <1>6, <3>2
      <4> QED BY <1>6, <4>1 DEF DirFollowsList
    <3> QED BY <3>1, <3>2
  <2>2. ~Done' /\ dir'.segments = <<>> /\ Len(dir'.segments) <= Len(listed.segments)
    BY <1>1, <1>2, <1>3 DEF Done, DirFollowsList
  <2> QED BY <1>1, <1>4, <1>6, <2>1, <2>2 DEF DirFollowsList
<1>10. PrefixIsNumbered' /\ Attempts'
  BY <1>1, <1>2, <1>3 DEF PrefixIsNumbered, Attempts, OpenedStaysReadable
<1> QED BY <1>7, <1>8, <1>9, <1>10

(* A closed segment holds the entries its name says. *)
LEMMA ClosedIsTyped ==
  ASSUME NEW name \in Name, name.first <= name.end
  PROVE  /\ ClosedSegment(name) \in Segment /\ IsClosed(ClosedSegment(name))
         /\ ClosedSegment(name).first = name.first /\ ClosedSegment(name).end = name.end
         /\ DOMAIN ClosedSegment(name).entries = 1..(name.end - name.first + 1)
         /\ Len(ClosedSegment(name).entries) = name.end - name.first + 1
         /\ \A e \in DOMAIN ClosedSegment(name).entries :
              ClosedSegment(name).entries[e] = name.first + e - 1
<1> DEFINE a == name.first
           b == name.end
           I == Indexes(a, b)
<1>1. a \in 1..MaxIndex /\ b \in 1..MaxIndex /\ a <= b /\ MaxIndex \in Nat
  BY LiveOpenAssumption DEF Name
<1>2. /\ ClosedSegment(name).kind = "closed" /\ ClosedSegment(name).first = a
      /\ ClosedSegment(name).end = b /\ ClosedSegment(name).entries = I
      /\ I \in Seq(1..MaxIndex) => ClosedSegment(name) \in Segment
  BY <1>1 DEF ClosedSegment, Segment
<1> HIDE DEF a, b
<1>3. b - a + 1 \in Nat /\ \A n \in 1..(b - a + 1) : a + n - 1 \in 1..MaxIndex
  BY <1>1
<1>4. /\ I \in Seq(1..MaxIndex) /\ DOMAIN I = 1..(b - a + 1) /\ Len(I) = b - a + 1
      /\ \A e \in 1..(b - a + 1) : I[e] = a + e - 1
  <2> DEFINE J == [n \in 1..(b - a + 1) |-> a + n - 1]
  <2>1. J \in [1..(b - a + 1) -> 1..MaxIndex]
    BY <1>3
  <2>2. J \in Seq(1..MaxIndex) /\ DOMAIN J = 1..(b - a + 1) /\ Len(J) = b - a + 1
    <3> DEFINE n == b - a + 1
    <3>1. n \in Nat /\ J \in [1..n -> 1..MaxIndex]
      BY <1>3, <2>1
    <3> HIDE DEF J, n
    <3>2. J \in Seq(1..MaxIndex) /\ DOMAIN J = 1..n /\ Len(J) = n
      BY <3>1, FunctionFacts
    <3> QED BY <3>2 DEF n
  <2>4. I = J
    BY DEF Indexes
  <2>5. \A e \in 1..(b - a + 1) : J[e] = a + e - 1
    OBVIOUS
  <2> QED BY <2>2, <2>4, <2>5
<1> HIDE DEF I
<1>5. IsClosed(ClosedSegment(name))
  BY <1>2 DEF IsClosed
<1> QED BY <1>2, <1>4, <1>5 DEF a, b

LEMMA DirIsTyped ==
  ASSUME TypeOK
  PROVE  /\ FirstIndex(dir) \in Nat
         /\ \A s \in DOMAIN dir.segments :
              /\ NumEntries(SubSeq(dir.segments, 1, s - 1)) \in Nat
              /\ Start(s) \in Nat
<1>1. /\ dir.segments \in Seq(Segment) /\ dir.snapshots \in Seq([index : 1..MaxIndex])
  BY DEF TypeOK
<1>2. \A s \in DOMAIN dir.segments :
         IsClosed(dir.segments[s]) => dir.segments[s].first \in 1..MaxIndex
  BY <1>1, SeqFacts DEF Segment, IsClosed
<1>3. dir.segments # <<>> => 1 \in DOMAIN dir.segments
  BY <1>1, SeqFacts
<1>4. dir.snapshots # <<>> => dir.snapshots[1].index \in 1..MaxIndex
  <2>1. dir.snapshots # <<>> => dir.snapshots[1] \in [index : 1..MaxIndex]
    BY <1>1, SeqFacts
  <2> QED BY <2>1
<1>5. FirstIndex(dir) \in Nat
  <2>1. CASE dir.segments = <<>>
    BY <1>4, <2>1, LiveOpenAssumption DEF FirstIndex
  <2>2. CASE dir.segments # <<>>
    BY <1>2, <1>3, <1>4, <2>2, LiveOpenAssumption DEF FirstIndex
  <2> QED BY <2>1, <2>2
<1>6. \A s \in DOMAIN dir.segments : NumEntries(SubSeq(dir.segments, 1, s - 1)) \in Nat
  BY <1>1, EntriesBefore, EntriesAreSequences
<1> QED BY <1>5, <1>6 DEF Start

(* Where the entries of the segment that is opened next start. *)
LEMMA NextStart ==
  ASSUME IInv, ToOpen, NEW x \in Segment, x.kind = NextSegment.kind,
         IsClosed(x) => x = ClosedSegment(NextSegment.name),
         dir' = [dir EXCEPT !.segments = Append(dir.segments, x)],
         NEW k, k = Len(dir.segments) + 1
  PROVE  \/ ListedClosed(k) /\ Start(k)' = x.first
         \/ IsFirstOpen(k)
            /\ Start(k)' = (IF k = 1 THEN 0 ELSE listed.segments[k - 1].name.end) + 1
         \/ ~ListedClosed(k) /\ ~IsFirstOpen(k)
<1> USE DEF IInv
<1> DEFINE d == dir.segments
           before == NumEntries(SubSeq(d, 1, k - 2))
<1>1. /\ d \in Seq(Segment) /\ Len(d) \in Nat /\ DOMAIN d = 1..Len(d)
      /\ listed.segments \in Seq(Listed) /\ Len(listed.segments) \in Nat
      /\ DOMAIN listed.segments = 1..Len(listed.segments)
      /\ dir.snapshots \in Seq([index : 1..MaxIndex])
      /\ dir'.segments = Append(d, x) /\ dir'.snapshots = dir.snapshots
  BY SeqFacts DEF TypeOK
<1>2. k \in DOMAIN listed.segments /\ k \in Nat /\ k > 0 /\ NextSegment = listed.segments[k]
  BY <1>1 DEF ToOpen, SegmentsLeft, NextSegment
<1>3. /\ Append(d, x) \in Seq(Segment) /\ Append(d, x) # <<>>
      /\ \A s \in 1..Len(d) : Append(d, x)[s] = d[s]
      /\ Append(d, x)[k] = x
  BY <1>1, AppendFacts
<1>4. SubSeq(Append(d, x), 1, k - 1) = d
  <2>1. SubSeq(Append(d, x), 1, k - 1) = SubSeq(d, 1, k - 1)
    BY <1>1, PrefixOfAppend
  <2> QED BY <1>1, <2>1, AllEntries
<1>5. Start(k)' = FirstIndex(dir') + NumEntries(d)
  BY <1>1, <1>4 DEF Start
<1>6. CASE d = <<>>
  <2>1. k = 1 /\ NumEntries(d) = 0 /\ Append(d, x)[1] = x
    BY <1>3, <1>6, NoEntries
  <2>2. CASE ListedClosed(1)
    <3>1. IsClosed(x)
      BY <1>2, <2>1, <2>2 DEF ListedClosed, IsClosed
    <3>2. FirstIndex(dir') = x.first
      BY <1>1, <1>3, <2>1, <3>1 DEF FirstIndex
    <3>3. x.first \in Nat
      <4>1. x.first \in 1..MaxIndex
        BY <3>1 DEF Segment, IsClosed
      <4> QED BY <4>1, LiveOpenAssumption
    <3> QED BY <1>5, <2>1, <2>2, <3>2, <3>3
  <2>3. CASE ~ListedClosed(1)
    <3>1. ~IsClosed(x)
      BY <1>2, <2>1, <2>3 DEF ListedClosed, IsClosed
    <3>2. listed.snapshots = <<>>
      BY <2>3 DEF Listing
    <3>3. dir.snapshots = <<>>
      <4>1. Len(dir.snapshots) <= 0 /\ Len(dir.snapshots) \in Nat
        BY <1>1, <3>2, SeqFacts DEF DirFollowsList
      <4> QED BY <1>1, <4>1
    <3>4. FirstIndex(dir') = 1
      BY <1>1, <1>3, <2>1, <3>1, <3>3 DEF FirstIndex
    <3>5. IsFirstOpen(k)
      BY <2>1, <2>3 DEF IsFirstOpen
    <3> QED BY <1>5, <2>1, <3>4, <3>5
  <2> QED BY <2>2, <2>3
<1>7. CASE d # <<>>
  <2>1. /\ 1 \in DOMAIN d /\ Len(d) > 0 /\ k - 1 = Len(d) /\ k - 1 \in DOMAIN d /\ k # 1
        /\ k - 1 \in DOMAIN listed.segments /\ d[k - 1] \in Segment
    BY <1>1, <1>2, <1>7
  <2>2. FirstIndex(dir') = FirstIndex(dir)
    <3>1. dir'.segments # <<>> /\ dir'.segments[1] = dir.segments[1] /\ dir.segments # <<>>
      BY <1>1, <1>3, <1>7, <2>1
    <3> QED BY <1>1, <3>1 DEF FirstIndex
  <2>3. CASE ListedClosed(k - 1)
    <3> DEFINE name == listed.segments[k - 1].name
    <3>1. IsClosed(d[k - 1])
      BY <2>1, <2>3 DEF DirFollowsList, ListedClosed, IsClosed
    <3>2. d[k - 1] = ClosedSegment(name) /\ d[k - 1].first = Start(k - 1)
      BY <2>1, <3>1 DEF DirFollowsList, PrefixIsNumbered
    <3>3. /\ name \in Name /\ name.first \in Nat /\ name.end \in Nat
          /\ name.first <= name.end
      <4>1. name \in Name
        BY <1>1, <2>1, <2>3 DEF Listed, ListedClosed
      <4>2. name.first <= name.end
        BY <2>1, <2>3 DEF Listing
      <4> QED BY <4>1, <4>2, LiveOpenAssumption DEF Name
    <3>4. d[k - 1].first = name.first /\ Len(d[k - 1].entries) = name.end - name.first + 1
      BY <3>2, <3>3, ClosedIsTyped
    <3>5. NumEntries(d) = before + (name.end - name.first + 1) /\ before \in Nat
      <4>1. NumEntries(SubSeq(d, 1, (k - 1) - 1)) \in Nat
            /\ NumEntries(SubSeq(d, 1, k - 1))
                 = NumEntries(SubSeq(d, 1, (k - 1) - 1)) + Len(d[k - 1].entries)
        BY <1>1, <2>1, EntriesBefore, EntriesAreSequences
      <4>2. SubSeq(d, 1, k - 1) = d /\ (k - 1) - 1 = k - 2
        BY <1>1, <1>2, <2>1, AllEntries
      <4> QED BY <3>4, <4>1, <4>2
    <3>6. Start(k - 1) = FirstIndex(dir) + before
      <4>1. (k - 1) - 1 = k - 2
        BY <1>2
      <4> QED BY <4>1 DEF Start
    <3>7. FirstIndex(dir) \in Int
      BY DirIsTyped
    <3> HIDE DEF d, name, before
    <3>8. Start(k)' = name.end + 1
      BY <1>5, <2>2, <3>2, <3>3, <3>4, <3>5, <3>6, <3>7
    <3>9. CASE ListedClosed(k)
      <4>1. listed.segments[k].name.first = name.end + 1
        BY <1>2, <2>1, <3>9 DEF Listing, name
      <4>2. IsClosed(x)
        BY <1>2, <3>9 DEF ListedClosed, IsClosed
      <4>3. x.first = listed.segments[k].name.first
        BY <1>2, <4>2 DEF ClosedSegment
      <4> QED BY <3>8, <3>9, <4>1, <4>3
    <3>10. CASE ~ListedClosed(k)
      <4>1. IsFirstOpen(k)
        BY <2>3, <3>10 DEF IsFirstOpen
      <4> QED BY <2>1, <3>8, <4>1 DEF name
    <3> QED BY <3>9, <3>10
  <2>4. CASE ~ListedClosed(k - 1)
    <3>1. ~ListedClosed(k)
      <4>1. k - 1 < k
        BY <1>2
      <4> QED BY <1>2, <2>1, <2>4, <4>1 DEF Listing
    <3>2. ~IsFirstOpen(k)
      BY <2>1, <2>4 DEF IsFirstOpen
    <3> QED BY <3>1, <3>2
  <2> QED BY <2>3, <2>4
<1> QED BY <1>6, <1>7

(* A segment of the list is opened: a closed one, or an open one with what it
   holds now. *)
LEMMA SegmentIsOpened ==
  ASSUME IInv, ToOpen, NEW x \in Segment, x.kind = NextSegment.kind,
         IsClosed(x) => NextSegment.name \in handles' /\ x = ClosedSegment(NextSegment.name),
         ~IsClosed(x) => x.counter = NextSegment.name,
         IsFirstOpen(Len(dir.segments) + 1) =>
           \A e \in DOMAIN x.entries :
             x.entries[e] = e + IF dir.segments = <<>> THEN 0
                                ELSE listed.segments[Len(dir.segments)].name.end,
         dir' = [dir EXCEPT !.segments = Append(dir.segments, x)],
         handles \subseteq handles', handles' \subseteq Name,
         UNCHANGED <<node, phase, attempt, listed>>
  PROVE  IInv'
<1> USE DEF IInv
<1> DEFINE d == dir.segments
           c == dir'.segments
<1>0. PICK k : k = Len(dir.segments) + 1
  OBVIOUS
<1>1. /\ d \in Seq(Segment) /\ Len(d) \in Nat /\ DOMAIN d = 1..Len(d)
      /\ listed.segments \in Seq(Listed) /\ Len(listed.segments) \in Nat
      /\ DOMAIN listed.segments = 1..Len(listed.segments)
      /\ dir.snapshots \in Seq([index : 1..MaxIndex])
      /\ c = Append(d, x) /\ dir'.snapshots = dir.snapshots
      /\ dir' \in [snapshots : {dir.snapshots}, segments : {c}]
  BY SeqFacts DEF TypeOK
<1>2. /\ k \in DOMAIN listed.segments /\ k \in Nat /\ k > 0 /\ k <= Len(listed.segments)
      /\ NextSegment = listed.segments[k] /\ phase = "open" /\ ~SnapshotsLeft
  BY <1>0, <1>1 DEF ToOpen, SegmentsLeft, NextSegment
<1>3. /\ c \in Seq(Segment) /\ DOMAIN c = 1..k /\ Len(c) = k /\ c # <<>>
      /\ \A s \in 1..(k - 1) : s \in DOMAIN d /\ c[s] = d[s]
      /\ c[k] = x
  <2>1. /\ Append(d, x) \in Seq(Segment) /\ DOMAIN Append(d, x) = 1..(Len(d) + 1)
        /\ Len(Append(d, x)) = Len(d) + 1 /\ Append(d, x) # <<>>
        /\ \A s \in 1..Len(d) : Append(d, x)[s] = d[s]
        /\ Append(d, x)[Len(d) + 1] = x
    <3>1. d \in Seq(Segment)
      BY <1>1
    <3> HIDE DEF d
    <3> QED BY <3>1, AppendFacts
  <2>2. Len(d) = k - 1 /\ (k - 1) + 1 = k /\ k > 0 /\ DOMAIN d = 1..(k - 1)
    BY <1>0, <1>1, <1>2
  <2>3. c = Append(d, x)
    BY <1>1
  <2> HIDE DEF c, d
  <2> QED BY <2>1, <2>2, <2>3
<1>4. \A s \in 1..k : s = k \/ s \in 1..(k - 1)
  BY <1>2
<1>5. /\ LogIsContiguous' /\ OpensInOrder' /\ LogReachesSnapshot'
      /\ Listing' /\ FirstOpenFollows'
  BY NodeIsApart
<1>6. TypeOK'
  <2>1. dir' \in [snapshots : Seq([index : 1..MaxIndex]), segments : Seq(Segment)]
    BY <1>1, <1>3
  <2> QED BY <2>1 DEF TypeOK, node
<1>7. DirFollowsList'
  <2>1. ASSUME NEW s \in DOMAIN c
        PROVE  /\ c[s].kind = listed.segments[s].kind
               /\ IsClosed(c[s]) => /\ listed.segments[s].name \in handles'
                                    /\ c[s] = ClosedSegment(listed.segments[s].name)
               /\ ~IsClosed(c[s]) => c[s].counter = listed.segments[s].name
    <3>1. CASE s = k
      BY <1>2, <1>3, <3>1
    <3>2. CASE s \in 1..(k - 1)
      <4>1. s \in DOMAIN d /\ c[s] = d[s]
        BY <1>3, <3>2
      <4> QED BY <4>1 DEF DirFollowsList
    <3> QED BY <1>3, <1>4, <3>1, <3>2
  <2>2. ~Done' /\ ~SnapshotsLeft'
    BY <1>1, <1>2 DEF Done, SnapshotsLeft
  <2>3. /\ Len(dir'.snapshots) <= Len(listed.snapshots)
        /\ \A n \in DOMAIN dir'.snapshots : dir'.snapshots[n].index = listed.snapshots[n]
    BY <1>1 DEF DirFollowsList
  <2> QED BY <1>2, <1>3, <2>1, <2>2, <2>3 DEF DirFollowsList
<1>8. PrefixIsNumbered'
  <2>1. ASSUME NEW s \in 1..(k - 1)
        PROVE  Start(s)' = Start(s)
    <3>1. s \in 1..(Len(d) + 1) /\ 1 \in DOMAIN d /\ d # <<>> /\ 1 \in 1..(k - 1)
      BY <1>0, <1>1
    <3>2. SubSeq(c, 1, s - 1) = SubSeq(d, 1, s - 1)
      BY <1>1, <3>1, PrefixOfAppend
    <3>3. c[1] = d[1]
      BY <1>3, <3>1
    <3>4. FirstIndex(dir') = FirstIndex(dir)
      BY <1>1, <1>3, <3>1, <3>3 DEF FirstIndex
    <3> QED BY <3>2, <3>4 DEF Start
  <2>2. ASSUME NEW s \in 1..(k - 1)
        PROVE  /\ IsClosed(c[s]) => c[s].first = Start(s)'
               /\ IsFirstOpen(s) => \A e \in DOMAIN c[s].entries : c[s].entries[e] = Start(s)' + e - 1
    <3>1. s \in DOMAIN d /\ c[s] = d[s] /\ Start(s)' = Start(s)
      BY <1>3, <2>1
    <3> QED BY <3>1 DEF PrefixIsNumbered
  <2>3. /\ IsClosed(c[k]) => c[k].first = Start(k)'
        /\ IsFirstOpen(k) => \A e \in DOMAIN c[k].entries : c[k].entries[e] = Start(k)' + e - 1
    <3>1. IsClosed(x) <=> ListedClosed(k)
      BY <1>2 DEF IsClosed, ListedClosed
    <3>2. \/ ListedClosed(k) /\ Start(k)' = x.first
          \/ IsFirstOpen(k)
             /\ Start(k)' = (IF k = 1 THEN 0 ELSE listed.segments[k - 1].name.end) + 1
          \/ ~ListedClosed(k) /\ ~IsFirstOpen(k)
      BY <1>0, NextStart
    <3>3. IsFirstOpen(k) => ~ListedClosed(k)
      BY DEF IsFirstOpen
    <3>4. ASSUME IsFirstOpen(k), NEW e \in DOMAIN x.entries
          PROVE  x.entries[e] = Start(k)' + e - 1
      <4> DEFINE z == IF k = 1 THEN 0 ELSE listed.segments[k - 1].name.end
      <4>1. Start(k)' = z + 1
        BY <3>2, <3>3, <3>4
      <4>2. d = <<>> <=> k = 1
        BY <1>0, <1>1
      <4>3. k - 1 = Len(d)
        BY <1>0, <1>1
      <4>4. x.entries[e] = e + z
        BY <1>0, <3>4, <4>2, <4>3
      <4>5. z \in Nat
        <5>1. CASE k = 1
          BY <5>1
        <5>2. CASE k # 1
          <6>1. k - 1 \in DOMAIN listed.segments /\ ListedClosed(k - 1)
            BY <1>1, <1>2, <3>4, <5>2 DEF IsFirstOpen
          <6>2. listed.segments[k - 1].name \in Name
            BY <1>1, <6>1 DEF Listed, ListedClosed
          <6> QED BY <5>2, <6>2, LiveOpenAssumption DEF Name
        <5> QED BY <5>1, <5>2
      <4>6. e \in Nat
        <5>1. x.entries \in Seq(1..MaxIndex)
          BY EntriesAreSequences
        <5> QED BY <5>1, SeqFacts
      <4> HIDE DEF z
      <4> QED BY <4>1, <4>4, <4>5, <4>6
    <3> QED BY <1>3, <3>1, <3>2, <3>3, <3>4
  <2>4. \A s \in 1..k : IsFirstOpen(s)' <=> IsFirstOpen(s)
    BY DEF IsFirstOpen, ListedClosed
  <2>5. \A s \in 1..k :
          /\ IsClosed(c[s]) => c[s].first = Start(s)'
          /\ IsFirstOpen(s)' => \A e \in DOMAIN c[s].entries : c[s].entries[e] = Start(s)' + e - 1
    BY <1>4, <2>2, <2>3, <2>4
  <2> QED BY <1>3, <2>5 DEF PrefixIsNumbered
<1>9. Attempts'
  BY DEF Attempts, OpenedStaysReadable
<1> QED BY <1>5, <1>6, <1>7, <1>8, <1>9

LEMMA OpenClosedInv ==
  ASSUME IInv, OpenClosed
  PROVE  IInv'
<1> USE DEF IInv
<1> DEFINE k == Len(dir.segments) + 1
<1>1. /\ ToOpen /\ NextSegment.kind = "closed"
      /\ dir' = [dir EXCEPT !.segments = Append(dir.segments, ClosedSegment(NextSegment.name))]
      /\ handles' = handles \cup {NextSegment.name}
      /\ UNCHANGED <<node, phase, attempt, listed>>
  BY DEF OpenClosed
<1>2. k \in DOMAIN listed.segments /\ NextSegment = listed.segments[k]
  <2>1. Len(dir.segments) \in Nat /\ DOMAIN listed.segments = 1..Len(listed.segments)
        /\ Len(listed.segments) \in Nat
    BY SeqFacts DEF TypeOK
  <2> QED BY <1>1, <2>1 DEF ToOpen, SegmentsLeft, NextSegment
<1>3. ListedClosed(k) /\ ~IsFirstOpen(k)
  BY <1>1, <1>2 DEF ListedClosed, IsFirstOpen
<1>4. NextSegment.name \in Name /\ NextSegment.name.first <= NextSegment.name.end
  <2>1. listed.segments[k] \in Listed
    BY <1>2, SeqFacts DEF TypeOK
  <2>2. listed.segments[k].name \in Name
    BY <1>3, <2>1 DEF Listed, ListedClosed
  <2>3. listed.segments[k].name.first <= listed.segments[k].name.end
    BY <1>2, <1>3 DEF Listing
  <2> QED BY <1>2, <2>2, <2>3
<1>5. /\ ClosedSegment(NextSegment.name) \in Segment
      /\ ClosedSegment(NextSegment.name).kind = "closed"
  BY <1>4, ClosedIsTyped DEF IsClosed
<1>6. handles \subseteq handles' /\ handles' \subseteq Name /\ NextSegment.name \in handles'
  BY <1>1, <1>4 DEF TypeOK
<1>7. IsClosed(ClosedSegment(NextSegment.name))
  BY <1>5 DEF IsClosed
<1> QED BY <1>1, <1>3, <1>5, <1>6, <1>7, SegmentIsOpened

LEMMA ReadOpenInv ==
  ASSUME IInv, ReadOpen
  PROVE  IInv'
<1> USE DEF IInv
<1> DEFINE k == Len(dir.segments) + 1
<1>1. /\ ToOpen /\ NextSegment.kind = "open"
      /\ UNCHANGED <<node, phase, attempt, listed, handles>>
  BY DEF ReadOpen
<1>2. PICK s \in DOMAIN opens :
        /\ opens[s].counter = NextSegment.name
        /\ dir' = [dir EXCEPT !.segments = Append(dir.segments,
                     [kind |-> "open", counter |-> opens[s].counter, entries |-> opens[s].entries])]
  BY DEF ReadOpen
<1> DEFINE x == [kind |-> "open", counter |-> opens[s].counter, entries |-> opens[s].entries]
<1>3. x \in Segment /\ x.kind = "open" /\ x.entries = opens[s].entries
  <2>1. opens[s] \in OpenFile
    BY LogFacts
  <2> QED BY <2>1 DEF OpenFile, Segment
<1>4. k \in DOMAIN listed.segments /\ NextSegment = listed.segments[k]
  <2>1. Len(dir.segments) \in Nat /\ DOMAIN listed.segments = 1..Len(listed.segments)
        /\ Len(listed.segments) \in Nat
    BY SeqFacts DEF TypeOK
  <2> QED BY <1>1, <2>1 DEF ToOpen, SegmentsLeft, NextSegment
<1>5. ASSUME IsFirstOpen(k), NEW e \in DOMAIN x.entries
      PROVE  x.entries[e] = e + IF dir.segments = <<>> THEN 0
                                ELSE listed.segments[Len(dir.segments)].name.end
  <2>1. OnDisk(listed.segments[k])
    BY <1>1, <1>2, <1>4 DEF OnDisk
  <2>2. /\ opens # <<>> /\ Head(opens).counter = listed.segments[k].name
        /\ LastClosed = IF k = 1 THEN 0 ELSE listed.segments[k - 1].name.end
    BY <1>4, <1>5, <2>1 DEF FirstOpenFollows
  <2>3. opens \in Seq(OpenFile)
    BY DEF TypeOK
  <2>4. Head(opens) = opens[1] /\ 1 \in DOMAIN opens /\ s \in Nat \ {0}
    BY <2>2, <2>3, LogFacts, TailFacts
  <2>5. s = 1
    <3>1. opens[1].counter = opens[s].counter
      BY <1>2, <1>4, <2>2, <2>4
    <3>2. 1 < s => opens[1].counter < opens[s].counter
      BY <2>4 DEF OpensInOrder
    <3>3. opens[1].counter \in Nat
      BY <2>4, LogFacts DEF OpenFile
    <3> QED BY <2>4, <3>1, <3>2, <3>3
  <2>6. opens[1].entries[e] = LastClosed + NumEntries(SubSeq(opens, 1, 1 - 1)) + e
    BY <1>3, <1>5, <2>4, <2>5 DEF LogIsContiguous
  <2>7. NumEntries(SubSeq(opens, 1, 1 - 1)) = 0
    <3>1. NumEntries(SubSeq(opens, 1, 0)) = 0
      <4>1. SubSeq(opens, 1, 0) = <<>>
        BY <2>3
      <4> QED BY <4>1, NoEntries
    <3>2. 1 - 1 = 0
      OBVIOUS
    <3> QED BY <3>1, <3>2
  <2>8. e \in Nat /\ LastClosed \in Nat
    <3>1. x.entries \in Seq(1..MaxIndex)
      BY <1>3, EntriesAreSequences
    <3> QED BY <3>1, SeqFacts, LogFacts
  <2>9. x.entries[e] = e + LastClosed
    BY <1>3, <2>5, <2>6, <2>7, <2>8
  <2>10. k = 1 <=> dir.segments = <<>>
    BY SeqFacts DEF TypeOK
  <2>11. k - 1 = Len(dir.segments)
    BY SeqFacts DEF TypeOK
  <2> QED BY <2>2, <2>9, <2>10, <2>11
<1>6. ~IsClosed(x) /\ x.counter = NextSegment.name
  BY <1>2, <1>3 DEF IsClosed
<1>7. handles \subseteq handles' /\ handles' \subseteq Name
  BY <1>1 DEF TypeOK
<1>8. dir' = [dir EXCEPT !.segments = Append(dir.segments, x)]
  BY <1>2
<1> HIDE DEF x
<1> QED BY <1>1, <1>3, <1>5, <1>6, <1>7, <1>8, SegmentIsOpened

-----------------------------------------------------------------------------
(* Steps of the reader that open nothing. *)
LEMMA ReaderEndsInv ==
  ASSUME IInv, OpenFails \/ Opened \/ ReadEntries \/ Ended
  PROVE  IInv'
<1> USE DEF IInv
<1>1. /\ UNCHANGED <<node, attempt, listed, dir, handles>>
      /\ phase' = "start" => attempt = 0 \/ attempt < MaxRetries
      /\ phase' # "unreadable"
      /\ phase' # "start" => attempt > 0
      /\ phase' = "failed" => attempt = AttemptsAllowed
      /\ phase' \in {"start", "open", "opened", "read", "unreadable", "failed"}
      /\ Done' => ~SnapshotsLeft /\ ~SegmentsLeft
  <2>1. CASE OpenFails
    <3>1. /\ UNCHANGED <<node, attempt, listed, dir, handles>>
          /\ phase' = IF attempt >= MaxRetries THEN "failed" ELSE "start"
      BY <2>1 DEF OpenFails
    <3>2. attempt \in Nat /\ MaxRetries \in Nat
      BY LiveOpenAssumption DEF TypeOK
    <3>3. phase' = "start" => attempt < MaxRetries
      BY <3>1, <3>2
    <3>4. phase' \in {"failed", "start"} /\ (phase' = "failed" => attempt >= MaxRetries)
      BY <3>1
    <3>5. attempt > 0 /\ (attempt <= MaxRetries \/ attempt = 1)
      BY <2>1, LiveOpenAssumption DEF OpenFails, Attempts, TypeOK
    <3>6. phase' = "failed" => attempt = AttemptsAllowed
      BY <3>2, <3>4, <3>5 DEF AttemptsAllowed
    <3> QED BY <3>1, <3>3, <3>4, <3>5, <3>6 DEF Done
  <2>2. CASE Opened
    BY <2>2 DEF Opened, Attempts
  <2>3. CASE ReadEntries
    <3>1. phase = "opened" /\ UNCHANGED <<node, attempt, listed, dir, handles>>
          /\ phase' = IF \A s \in DOMAIN dir.segments : Readable(dir.segments[s])
                      THEN "read" ELSE "unreadable"
      BY <2>3 DEF ReadEntries
    <3>2. ASSUME NEW s \in DOMAIN dir.segments PROVE Readable(dir.segments[s])
      <4> SUFFICES ASSUME IsClosed(dir.segments[s])
                   PROVE  [first |-> dir.segments[s].first, end |-> dir.segments[s].end] \in handles
        BY DEF Readable
      <4> DEFINE name == listed.segments[s].name
      <4>1. name \in handles /\ dir.segments[s] = ClosedSegment(name)
        BY DEF DirFollowsList
      <4>2. name \in Name
        BY <4>1 DEF TypeOK
      <4>3. name = [first |-> name.first, end |-> name.end]
        BY <4>2 DEF Name
      <4>4. dir.segments[s].first = name.first /\ dir.segments[s].end = name.end
        BY <4>1 DEF ClosedSegment
      <4> QED BY <4>1, <4>3, <4>4
    <3>3. phase' = "read"
      BY <3>1, <3>2
    <3>4. ~SnapshotsLeft /\ ~SegmentsLeft
      BY <3>1 DEF DirFollowsList, Done
    <3>5. attempt > 0
      BY <3>1 DEF Attempts
    <3> QED BY <3>1, <3>3, <3>4, <3>5
  <2>4. CASE Ended
    BY <2>4 DEF Ended, vars, reader, TypeOK, Attempts, OpenedStaysReadable, DirFollowsList, Done
  <2> QED BY <2>1, <2>2, <2>3, <2>4
<1>2. /\ LogIsContiguous' /\ OpensInOrder' /\ LogReachesSnapshot'
      /\ Listing' /\ FirstOpenFollows'
  BY <1>1, NodeIsApart
<1>3. TypeOK'
  BY <1>1 DEF TypeOK, node
<1>4. DirFollowsList'
  BY <1>1 DEF DirFollowsList, SnapshotsLeft, SegmentsLeft
<1>5. PrefixIsNumbered'
  BY <1>1 DEF PrefixIsNumbered, Start, IsFirstOpen, ListedClosed
<1>6. Attempts'
  BY <1>1 DEF Attempts, OpenedStaysReadable
<1> QED BY <1>2, <1>3, <1>4, <1>5, <1>6

LEMMA NextInv ==
  ASSUME IInv, [Next]_vars
  PROVE  IInv'
<1>1. CASE ReaderStep
  BY <1>1, ListFolderInv, OpenSnapshotInv, OpenClosedInv, ReadOpenInv, ReaderEndsInv
     DEF ReaderStep
<1>2. CASE Prepare
  BY <1>2, PrepareInv
<1>3. CASE EndAppend
  BY <1>3, EndAppendInv
<1>4. CASE BeginAppend \/ Advance \/ Crash \/ Restart
  BY <1>4, QuietInv
<1>5. CASE Finalize \/ Recover
  BY <1>5, FinalizeInv, RecoverInv
<1>6. CASE TakeSnapshot \/ RemoveSegment
  BY <1>6, SnapshotInv, RemoveInv
<1>7. CASE Ended
  BY <1>7, ReaderEndsInv
<1>8. CASE UNCHANGED vars
  BY <1>8 DEF vars, node, reader, IInv, TypeOK, LogIsContiguous, OpensInOrder,
     LogReachesSnapshot, Listing, FirstOpenFollows, DirFollowsList, PrefixIsNumbered, Attempts,
     LastClosed, LastIndex, Written, ListedClosed, IsFirstOpen, OnDisk, Start, Done,
     SnapshotsLeft, SegmentsLeft, OpenedStaysReadable
<1> QED BY <1>1, <1>2, <1>3, <1>4, <1>5, <1>6, <1>7, <1>8 DEF Next

(* In every reachable state the log on disk is whole, a list is of one moment,
   and what was opened of it has the numbers of the log: Next keeps it. *)
THEOREM Invariance == Spec => []IInv
<1>1. Init => IInv
  BY InitInv
<1>2. IInv /\ [Next]_vars => IInv'
  BY NextInv
<1> QED BY <1>1, <1>2, PTL DEF Spec

(* Every variable keeps to its type, and Context::open makes one attempt or as
   many as --max-retries allows. *)
THEOREM TypeCorrect == Spec => []TypeOK
BY Invariance, PTL DEF IInv

(* A segment that DqliteDir::open has opened can be read for good, though the
   node removes its file: read_content has the file open. *)
THEOREM HandlesOutliveFiles == Spec => []OpenedStaysReadable
<1>1. IInv => OpenedStaysReadable
  BY DEF IInv, Attempts
<1> QED BY <1>1, Invariance, PTL

(* Of an attempt that failed nothing is left in a folder that was opened, which
   is what its last listing names, file by file; Context::open gives up only
   after all attempts. *)
THEOREM RetriesAlwaysStartOver == Spec => []RetriesStartOver
<1>1. ASSUME IInv PROVE RetriesStartOver
  <2> USE DEF IInv
  <2>1. phase = "failed" => attempt = AttemptsAllowed
    BY <1>1 DEF Attempts
  <2>2. /\ Len(dir.snapshots) \in Nat /\ Len(listed.snapshots) \in Nat
        /\ Len(dir.segments) \in Nat /\ Len(listed.segments) \in Nat
    BY <1>1, SeqFacts DEF TypeOK
  <2>3. ASSUME Done
        PROVE  /\ Len(dir.snapshots) = Len(listed.snapshots)
               /\ Len(dir.segments) = Len(listed.segments)
    BY <1>1, <2>2, <2>3 DEF DirFollowsList, SnapshotsLeft, SegmentsLeft
  <2>4. \A n \in DOMAIN dir.snapshots : dir.snapshots[n].index = listed.snapshots[n]
    BY <1>1 DEF DirFollowsList
  <2>5. ASSUME NEW s \in DOMAIN dir.segments
        PROVE  /\ dir.segments[s].kind = listed.segments[s].kind
               /\ IsNamed(dir.segments[s], listed.segments[s].name)
    <3> DEFINE name == listed.segments[s].name
    <3>1. dir.segments[s].kind = listed.segments[s].kind
      BY <1>1 DEF DirFollowsList
    <3>2. CASE IsClosed(dir.segments[s])
      <4>1. name \in Name /\ dir.segments[s] = ClosedSegment(name)
        BY <1>1, <3>2 DEF DirFollowsList, TypeOK
      <4>2. name = [first |-> name.first, end |-> name.end]
        BY <4>1 DEF Name
      <4>3. dir.segments[s].first = name.first /\ dir.segments[s].end = name.end
        BY <4>1 DEF ClosedSegment
      <4> QED BY <3>1, <3>2, <4>2, <4>3 DEF IsNamed
    <3>3. CASE ~IsClosed(dir.segments[s])
      BY <1>1, <3>1, <3>3 DEF DirFollowsList, IsNamed
    <3> QED BY <3>2, <3>3
  <2> QED BY <2>1, <2>3, <2>4, <2>5 DEF RetriesStartOver
<1> QED BY <1>1, Invariance, PTL

-----------------------------------------------------------------------------
LEMMA ClosedComeFirst ==
  ASSUME IInv
  PROVE  LET N == NumClosedSegments(dir)
         IN  /\ N \in Nat /\ (N = 0 \/ N \in DOMAIN dir.segments)
             /\ \A s \in DOMAIN dir.segments :
                  /\ IsClosed(dir.segments[s]) <=> s <= N
                  /\ IsClosed(dir.segments[s]) <=> ListedClosed(s)
                  /\ s \in DOMAIN listed.segments
<1> USE DEF IInv
<1> DEFINE N == NumClosedSegments(dir)
           C == {s \in DOMAIN dir.segments : IsClosed(dir.segments[s])}
<1>1. /\ DOMAIN dir.segments = 1..Len(dir.segments) /\ Len(dir.segments) \in Nat
      /\ DOMAIN listed.segments = 1..Len(listed.segments) /\ Len(listed.segments) \in Nat
  BY SeqFacts DEF TypeOK
<1>2. Len(dir.segments) <= Len(listed.segments)
  BY DEF DirFollowsList
<1>3. \A s \in DOMAIN dir.segments :
        /\ s \in DOMAIN listed.segments
        /\ IsClosed(dir.segments[s]) <=> ListedClosed(s)
  BY <1>1, <1>2 DEF DirFollowsList, IsClosed, ListedClosed
<1>4. /\ N \in {0} \cup C
      /\ \A s \in {0} \cup C : s <= N
  <2>1. {0} \cup C \subseteq Nat /\ {0} \cup C # {}
    BY <1>1
  <2>2. \A s \in {0} \cup C : s <= Len(dir.segments)
    BY <1>1
  <2> HIDE DEF C
  <2>3. Max({0} \cup C) \in {0} \cup C /\ \A s \in {0} \cup C : s <= Max({0} \cup C)
    BY <1>1, <2>1, <2>2, MaxExists
  <2> QED BY <2>3 DEF NumClosedSegments, C
<1> HIDE DEF N
<1>5. ASSUME NEW s \in DOMAIN dir.segments, s <= N PROVE ListedClosed(s)
  <2>1. N \in C
    BY <1>1, <1>4, <1>5
  <2>2. N \in DOMAIN listed.segments /\ ListedClosed(N)
    BY <1>3, <2>1
  <2>3. s = N \/ s < N
    BY <1>1, <1>5, <2>1
  <2> QED BY <1>3, <2>2, <2>3 DEF Listing
<1>6. N \in Nat /\ (N = 0 \/ N \in DOMAIN dir.segments)
  BY <1>1, <1>4
<1> QED BY <1>3, <1>4, <1>5, <1>6 DEF N

(* Whatever the node renames and removes meanwhile, the entries of the closed
   segments of an opened folder and of its first open one have the indexes that
   load_segments_from gives them. *)
THEOREM PrefixIsAlwaysRight == Spec => []PrefixIsRight
<1>1. ASSUME IInv PROVE PrefixIsRight
  <2> USE DEF IInv
  <2> DEFINE N == NumClosedSegments(dir)
  <2>1. /\ N \in Nat /\ (N = 0 \/ N \in DOMAIN dir.segments)
        /\ \A s \in DOMAIN dir.segments :
             /\ IsClosed(dir.segments[s]) <=> s <= N
             /\ IsClosed(dir.segments[s]) <=> ListedClosed(s)
             /\ s \in DOMAIN listed.segments
    BY <1>1, ClosedComeFirst
  <2>2. DOMAIN dir.segments = 1..Len(dir.segments) /\ Len(dir.segments) \in Nat
    BY <1>1, SeqFacts DEF TypeOK
  <2>3. \A s \in DOMAIN dir.segments : Start(s) \in Nat
    BY <1>1, DirIsTyped
  <2> HIDE DEF N
  <2>4. ASSUME NEW s \in DOMAIN dir.segments, s <= N + 1, NEW e \in DOMAIN dir.segments[s].entries
        PROVE  dir.segments[s].entries[e] = Start(s) + e - 1
    <3>1. CASE IsClosed(dir.segments[s])
      <4> DEFINE name == listed.segments[s].name
      <4>1. /\ dir.segments[s] = ClosedSegment(name) /\ dir.segments[s].first = Start(s)
            /\ name \in Name /\ name.first <= name.end
        <5>1. name \in handles /\ dir.segments[s] = ClosedSegment(name)
          BY <1>1, <3>1 DEF DirFollowsList
        <5>2. name.first <= name.end
          BY <1>1, <2>1, <3>1 DEF Listing
        <5> QED BY <1>1, <3>1, <5>1, <5>2 DEF TypeOK, PrefixIsNumbered
      <4> HIDE DEF name
      <4> QED BY <4>1, ClosedIsTyped
    <3>2. CASE ~IsClosed(dir.segments[s])
      <4>1. s = N + 1 /\ ~ListedClosed(s)
        BY <2>1, <2>2, <2>4, <3>2
      <4>2. IsFirstOpen(s)
        <5>1. CASE N = 0
          BY <4>1, <5>1 DEF IsFirstOpen
        <5>2. CASE N # 0
          <6>1. s - 1 = N /\ N \in DOMAIN dir.segments /\ N <= N
            BY <2>1, <4>1, <5>2
          <6>2. ListedClosed(s - 1)
            BY <2>1, <6>1
          <6> QED BY <4>1, <6>2 DEF IsFirstOpen
        <5> QED BY <5>1, <5>2
      <4> QED BY <1>1, <4>2 DEF PrefixIsNumbered
    <3> QED BY <3>1, <3>2
  <2>5. \A s \in DOMAIN dir.segments : \A e : Numbered(s, e) = Start(s) + e - 1
    BY DEF Numbered, Start
  <2> QED BY <2>4, <2>5 DEF PrefixIsRight, NumberedRight, N
<1> QED BY <1>1, Invariance, PTL

(* An opened folder lacks no entry from its oldest snapshot to the end of its
   closed segments. *)
THEOREM LogAlwaysMeetsSnapshot == Spec => []LogMeetsSnapshot
<1>1. ASSUME IInv PROVE LogMeetsSnapshot
  <2> USE DEF IInv
  <2> DEFINE N == NumClosedSegments(dir)
  <2> SUFFICES ASSUME Done
               PROVE  /\ dir.snapshots # <<>> => FirstIndex(dir) <= dir.snapshots[1].index + 1
                      /\ \A s \in 1..(N - 1) : dir.segments[s + 1].first = dir.segments[s].end + 1
    BY DEF LogMeetsSnapshot
  <2>1. /\ N \in Nat /\ (N = 0 \/ N \in DOMAIN dir.segments)
        /\ \A s \in DOMAIN dir.segments :
             /\ IsClosed(dir.segments[s]) <=> s <= N
             /\ IsClosed(dir.segments[s]) <=> ListedClosed(s)
             /\ s \in DOMAIN listed.segments
    BY <1>1, ClosedComeFirst
  <2> HIDE DEF N
  <2>2. /\ DOMAIN dir.segments = 1..Len(dir.segments) /\ Len(dir.segments) \in Nat
        /\ Len(listed.segments) \in Nat
        /\ listed.segments # <<>> => Len(listed.segments) > 0
    BY <1>1, SeqFacts DEF TypeOK
  <2>3. \A s \in DOMAIN dir.segments : ListedClosed(s) =>
          dir.segments[s] = ClosedSegment(listed.segments[s].name)
    BY <1>1, <2>1 DEF DirFollowsList
  <2>4. \A s \in DOMAIN dir.segments : ListedClosed(s) =>
          /\ dir.segments[s].first = listed.segments[s].name.first
          /\ dir.segments[s].end = listed.segments[s].name.end
    <3> TAKE s \in DOMAIN dir.segments
    <3> HAVE ListedClosed(s)
    <3> DEFINE name == listed.segments[s].name
    <3>1. dir.segments[s] = ClosedSegment(name)
      BY <2>3
    <3> HIDE DEF name
    <3>2. dir.segments[s].first = name.first /\ dir.segments[s].end = name.end
      BY <3>1 DEF ClosedSegment
    <3> QED BY <3>2 DEF name
  <2>5. ASSUME dir.snapshots # <<>> PROVE FirstIndex(dir) <= dir.snapshots[1].index + 1
    <3>1. 1 \in DOMAIN dir.snapshots /\ Len(dir.snapshots) > 0
      BY <1>1, <2>5, SeqFacts DEF TypeOK
    <3>2. dir.snapshots[1].index = listed.snapshots[1]
      BY <1>1, <3>1 DEF DirFollowsList
    <3>3. listed.snapshots # <<>>
      <4>1. Len(dir.snapshots) <= Len(listed.snapshots)
        BY <1>1 DEF DirFollowsList
      <4>2. Len(dir.snapshots) \in Nat /\ Len(listed.snapshots) \in Nat
        BY <1>1, SeqFacts DEF TypeOK
      <4>3. Len(listed.snapshots) > 0
        BY <3>1, <4>1, <4>2
      <4> QED BY <1>1, <4>3, SeqFacts DEF TypeOK
    <3>4. /\ listed.segments # <<>> /\ ListedClosed(1)
          /\ listed.segments[1].name.first <= listed.snapshots[1] + 1
      BY <1>1, <3>3 DEF Listing
    <3>5. 1 \in DOMAIN dir.segments
      <4>1. ~SegmentsLeft
        BY <1>1 DEF DirFollowsList
      <4> QED BY <2>2, <3>4, <4>1 DEF SegmentsLeft
    <3>6. FirstIndex(dir) = dir.segments[1].first
      <4>1. dir.segments # <<>> /\ IsClosed(dir.segments[1])
        BY <2>1, <3>4, <3>5
      <4> QED BY <4>1 DEF FirstIndex
    <3> QED BY <2>4, <3>2, <3>4, <3>5, <3>6
  <2>6. ASSUME NEW s \in 1..(N - 1)
        PROVE  dir.segments[s + 1].first = dir.segments[s].end + 1
    <3>1. s \in DOMAIN dir.segments /\ s + 1 \in DOMAIN dir.segments /\ s <= N /\ s + 1 <= N
          /\ s + 1 > 1 /\ (s + 1) - 1 = s
      BY <2>1, <2>2
    <3>2. ListedClosed(s) /\ ListedClosed(s + 1) /\ s + 1 \in DOMAIN listed.segments
      BY <2>1, <3>1
    <3>3. listed.segments[s + 1].name.first = listed.segments[s].name.end + 1
      BY <1>1, <3>1, <3>2 DEF Listing
    <3> QED BY <2>4, <3>1, <3>2, <3>3
  <2> QED BY <2>5, <2>6
<1> QED BY <1>1, Invariance, PTL
=============================================================================
