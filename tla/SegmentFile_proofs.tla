------------------------- MODULE SegmentFile_proofs -------------------------
(***************************************************************************)
(* Proofs about SegmentFile.  Flattened sequences are first described      *)
(* place by place, without folds: where each batch of a segment lies and   *)
(* what is at its places (BatchIs, SegmentIs), and what                    *)
(* uvLoadEntriesBatch makes of a buffer that holds all of it (BatchIsRead, *)
(* RawEntriesAre).  A file fits its segment when each of its words is the  *)
(* segment's or Zero (Fits); Most is how many leading batches it holds,    *)
(* and every step of a writer is Onward: words are added or zeros cut.     *)
(* The buffer of a read is then a mixture of moments, but it fits the same *)
(* segment and lies between the file at the start and the file now (Seen), *)
(* and what was made of it is what its whole batches say (Made).  IInv     *)
(* puts these together for a node or a creator and the reader.             *)
(***************************************************************************)
EXTENDS SegmentFile, DqliteFolder_proofs

-----------------------------------------------------------------------------
(* Flattened sequences: where the elements of the k-th sequence end. *)
FlatEnd(seqs, k) == Len(FlattenSeq(SubSeq(seqs, 1, k)))

(* The places follow each other, *)
LEMMA FlatEnds ==
  ASSUME NEW S, NEW seqs \in Seq(Seq(S))
  PROVE  /\ FlattenSeq(seqs) \in Seq(S)
         /\ FlatEnd(seqs, 0) = 0
         /\ FlatEnd(seqs, Len(seqs)) = Len(FlattenSeq(seqs))
         /\ \A k \in 0..Len(seqs) : FlatEnd(seqs, k) \in Nat
         /\ \A k \in 1..Len(seqs) : /\ Len(seqs[k]) \in Nat
                                    /\ FlatEnd(seqs, k) = FlatEnd(seqs, k - 1) + Len(seqs[k])
<1>1. SubSeq(seqs, 1, 0) = <<>> /\ SubSeq(seqs, 1, Len(seqs)) = seqs /\ Len(seqs) \in Nat
  BY AllEntries
<1>2. FlatEnd(seqs, 0) = 0
  <2>1. FlatEnd(seqs, 0) = Len(<<>>)
    BY <1>1, FlattenEmpty DEF FlatEnd
  <2> QED BY <2>1
<1>3. ASSUME NEW k \in 1..Len(seqs)
      PROVE  /\ FlattenSeq(SubSeq(seqs, 1, k)) \in Seq(S)
             /\ Len(seqs[k]) \in Nat
             /\ FlatEnd(seqs, k - 1) \in Nat
             /\ FlatEnd(seqs, k) = FlatEnd(seqs, k - 1) + Len(seqs[k])
  <2>1. PICK j \in 0..(Len(seqs) - 1) : k = j + 1
    <3>1. k - 1 \in 0..(Len(seqs) - 1) /\ k = (k - 1) + 1
      BY <1>1
    <3> QED BY <3>1
  <2> DEFINE a == FlattenSeq(SubSeq(seqs, 1, j))
             b == seqs[j + 1]
  <2>2. a \in Seq(S) /\ FlattenSeq(SubSeq(seqs, 1, j + 1)) = a \o b
    BY FlattenPrefix
  <2>3. b \in Seq(S) /\ k - 1 = j
    BY <1>1, <2>1
  <2> HIDE DEF a, b
  <2>4. a \o b \in Seq(S) /\ Len(a \o b) = Len(a) + Len(b) /\ Len(a) \in Nat /\ Len(b) \in Nat
    BY <2>2, <2>3
  <2> QED BY <2>1, <2>2, <2>3, <2>4 DEF FlatEnd, a, b
<1>4. FlattenSeq(SubSeq(seqs, 1, Len(seqs))) \in Seq(S)
  <2>1. CASE Len(seqs) = 0
    <3>1. SubSeq(seqs, 1, Len(seqs)) = <<>>
      BY <1>1, <2>1
    <3>2. FlattenSeq(SubSeq(seqs, 1, Len(seqs))) = <<>>
      BY <3>1, FlattenEmpty
    <3>3. <<>> \in Seq(S)
      OBVIOUS
    <3> QED BY <3>2, <3>3
  <2>2. CASE Len(seqs) # 0
    <3>1. Len(seqs) \in 1..Len(seqs)
      BY <1>1, <2>2
    <3> QED BY <1>3, <3>1
  <2> QED BY <2>1, <2>2
<1>5. ASSUME NEW k \in 0..Len(seqs) PROVE FlatEnd(seqs, k) \in Nat
  <2>1. CASE k = 0
    BY <1>2, <2>1
  <2>2. CASE k # 0
    <3>1. k \in 1..Len(seqs)
      BY <1>1, <2>2
    <3>2. PICK a \in Nat, l \in Nat : FlatEnd(seqs, k) = a + l
      BY <1>3, <3>1
    <3> QED BY <3>2
  <2> QED BY <2>1, <2>2
<1> QED BY <1>1, <1>2, <1>3, <1>4, <1>5 DEF FlatEnd

(* each at or behind the ones before it, *)
LEMMA FlatEndsGrow ==
  ASSUME NEW S, NEW seqs \in Seq(Seq(S)), NEW k \in 0..Len(seqs), NEW m \in k..Len(seqs)
  PROVE  FlatEnd(seqs, k) <= FlatEnd(seqs, m)
<1> DEFINE Bad == {d \in 0..Len(seqs) : k <= d /\ ~(FlatEnd(seqs, k) <= FlatEnd(seqs, d))}
<1>0. Len(seqs) \in Nat
  OBVIOUS
<1>1. SUFFICES ASSUME Bad # {} PROVE FALSE
  <2>1. m \in 0..Len(seqs) /\ k <= m
    BY <1>0
  <2> HIDE DEF FlatEnd
  <2> QED BY <2>1
<1>2. PICK d \in Bad : \A j \in Bad : d <= j
  <2>1. Bad \subseteq Nat
    BY <1>0
  <2> HIDE DEF Bad
  <2> QED BY <1>1, <2>1, LeastNumber
<1>3. d \in 0..Len(seqs) /\ k <= d /\ ~(FlatEnd(seqs, k) <= FlatEnd(seqs, d))
  OBVIOUS
<1>4. FlatEnd(seqs, k) \in Nat
  BY FlatEnds
<1>5. d # k
  BY <1>3, <1>4
<1>6. d \in 1..Len(seqs) /\ d - 1 \in 0..Len(seqs) /\ k <= d - 1 /\ ~(d <= d - 1)
  BY <1>0, <1>3, <1>5
<1>7. d - 1 \notin Bad
  <2> HIDE DEF Bad
  <2> QED BY <1>2, <1>6
<1>8. FlatEnd(seqs, k) <= FlatEnd(seqs, d - 1)
  BY <1>6, <1>7
<1>9. FlatEnd(seqs, d - 1) \in Nat /\ Len(seqs[d]) \in Nat
      /\ FlatEnd(seqs, d) = FlatEnd(seqs, d - 1) + Len(seqs[d])
  BY <1>6, FlatEnds
<1> QED BY <1>3, <1>4, <1>8, <1>9

(* and what is there are the elements of the k-th sequence. *)
LEMMA FlattenPlaces ==
  ASSUME NEW S, NEW seqs \in Seq(Seq(S)), NEW k \in 1..Len(seqs), NEW i \in 1..Len(seqs[k])
  PROVE  /\ FlatEnd(seqs, k - 1) + i \in 1..Len(FlattenSeq(seqs))
         /\ FlattenSeq(seqs)[FlatEnd(seqs, k - 1) + i] = seqs[k][i]
<1> DEFINE flat(d) == FlattenSeq(SubSeq(seqs, 1, d))
           Bad == {d \in 1..Len(seqs) :
                     k <= d /\ ~(flat(d)[FlatEnd(seqs, k - 1) + i] = seqs[k][i])}
<1>0. Len(seqs) \in Nat /\ k - 1 \in 0..Len(seqs) /\ k \in 0..Len(seqs)
  OBVIOUS
<1>1. PICK a \in Nat : a = FlatEnd(seqs, k - 1)
  BY <1>0, FlatEnds
<1>2. PICK l \in Nat : l = Len(seqs[k])
  BY FlatEnds
<1>3. FlatEnd(seqs, k) = a + l
  BY <1>1, <1>2, FlatEnds
<1>4. ASSUME NEW d \in 1..Len(seqs)
      PROVE  /\ flat(d) \in Seq(S) /\ flat(d - 1) \in Seq(S)
             /\ flat(d) = flat(d - 1) \o seqs[d] /\ seqs[d] \in Seq(S)
  <2>1. PICK j \in 0..(Len(seqs) - 1) : d = j + 1
    <3>1. d - 1 \in 0..(Len(seqs) - 1) /\ d = (d - 1) + 1
      BY <1>0
    <3> QED BY <3>1
  <2>2. flat(j) \in Seq(S) /\ flat(j + 1) = flat(j) \o seqs[j + 1]
    BY FlattenPrefix
  <2>3. seqs[j + 1] \in Seq(S) /\ d - 1 = j
    BY <1>0, <2>1
  <2>4. flat(d) \in Seq(S)
    <3>1. flat(j) \o seqs[j + 1] \in Seq(S)
      BY <2>2, <2>3
    <3> QED BY <2>1, <2>2, <3>1
  <2> HIDE DEF flat
  <2> QED BY <2>1, <2>2, <2>3, <2>4
<1>5. Bad = {}
  <2>1. SUFFICES ASSUME Bad # {} PROVE FALSE
    OBVIOUS
  <2>2. PICK d \in Bad : \A j \in Bad : d <= j
    <3>1. Bad \subseteq Nat
      BY <1>0
    <3> HIDE DEF Bad
    <3> QED BY <2>1, <3>1, LeastNumber
  <2>3. d \in 1..Len(seqs) /\ k <= d /\ ~(flat(d)[a + i] = seqs[k][i])
    BY <1>1
  <2> DEFINE x == flat(d - 1)
             y == seqs[d]
  <2>4. x \in Seq(S) /\ y \in Seq(S) /\ flat(d) = x \o y
    BY <1>4, <2>3
  <2>5. Len(x) = FlatEnd(seqs, d - 1)
    BY DEF FlatEnd
  <2>6. CASE d = k
    <3>1. Len(x) = a /\ Len(y) = l /\ i \in 1..l
      BY <1>1, <1>2, <2>5, <2>6
    <3> HIDE DEF x, y, flat, Bad
    <3>2. (x \o y)[a + i] = y[i]
      <4>1. a + i \in 1..(a + l) /\ ~(a + i <= a) /\ (a + i) - a = i
        BY <3>1
      <4>2. \A e \in 1..(a + l) : (x \o y)[e] = IF e <= a THEN x[e] ELSE y[e - a]
        BY <2>4, <3>1, ConcatProperties
      <4> QED BY <4>1, <4>2
    <3> QED BY <2>3, <2>4, <2>6, <3>2 DEF y
  <2>7. CASE d # k
    <3>1. d - 1 \in 1..Len(seqs) /\ d - 1 \in k..Len(seqs) /\ k <= d - 1 /\ ~(d <= d - 1)
      BY <1>0, <2>3, <2>7
    <3>2. a + l <= Len(x)
      <4>1. FlatEnd(seqs, k) <= FlatEnd(seqs, d - 1)
        BY <1>0, <3>1, FlatEndsGrow
      <4> QED BY <1>3, <2>5, <4>1
    <3>3. d - 1 \notin Bad
      <4> HIDE DEF Bad
      <4> QED BY <2>2, <3>1
    <3>4. x[a + i] = seqs[k][i]
      <4>1. flat(d - 1)[FlatEnd(seqs, k - 1) + i] = seqs[k][i]
        BY <3>1, <3>3
      <4> QED BY <1>1, <4>1
    <3> HIDE DEF x, y, flat, Bad
    <3>5. i \in 1..l
      BY <1>2
    <3>6. (x \o y)[a + i] = x[a + i]
      BY <2>4, <3>2, <3>5
    <3> QED BY <2>3, <2>4, <3>4, <3>6
  <2> QED BY <2>6, <2>7
<1>6. flat(Len(seqs)) = FlattenSeq(seqs) /\ FlatEnd(seqs, Len(seqs)) = Len(FlattenSeq(seqs))
  BY AllEntries DEF FlatEnd
<1>7. Len(seqs) \in 1..Len(seqs) /\ k <= Len(seqs)
  BY <1>0
<1>8. FlattenSeq(seqs)[a + i] = seqs[k][i]
  BY <1>1, <1>5, <1>6, <1>7
<1>9. a + l <= Len(FlattenSeq(seqs)) /\ Len(FlattenSeq(seqs)) \in Nat
  <2>1. Len(seqs) \in k..Len(seqs) /\ Len(seqs) \in 0..Len(seqs)
    BY <1>0
  <2>2. FlatEnd(seqs, k) <= FlatEnd(seqs, Len(seqs)) /\ FlatEnd(seqs, Len(seqs)) \in Nat
    BY <1>0, <2>1, FlatEndsGrow, FlatEnds
  <2> QED BY <1>3, <1>6, <2>2
<1>10. i \in 1..l
  BY <1>2
<1>11. a + i \in 1..Len(FlattenSeq(seqs))
  BY <1>9, <1>10
<1> QED BY <1>1, <1>8, <1>11

-----------------------------------------------------------------------------
(* The words of a batch. *)
EntryTypes == {"barrier", "change", "command"}

PlainWord ==
  {Zero} \cup [kind : {"count"}, n : Nat]
    \cup [kind : {"header"}, term : Terms, type : EntryTypes, length : Nat]
    \cup [kind : EntryTypes, type : {content.type : content \in RaftContent},
           value : {content.value : content \in RaftContent}]

Word == PlainWord \cup {Format} \cup [kind : {"checksum"}, of : Seq(PlainWord)]

Data(entries) == [e \in 1..Len(entries) |-> Encode(entries[e].content)]

HeaderOf(entry) == [kind |-> "header", term |-> entry.term, type |-> entry_type(entry.content),
                    length |-> Len(Encode(entry.content))]

(* An entry takes at least one word. *)
LEMMA EncodeIs ==
  ASSUME NEW content \in RaftContent
  PROVE  /\ Encode(content) \in Seq(PlainWord)
         /\ Len(Encode(content)) \in Nat \ {0}
         /\ entry_type(content) \in EntryTypes
<1> DEFINE word == [kind |-> entry_type(content), type |-> content.type, value |-> content.value]
<1>2. entry_type(content) \in EntryTypes
  BY DEF entry_type, EntryTypes
<1>3. word \in PlainWord /\ Zero \in PlainWord
  <2>1. content.type \in {c.type : c \in RaftContent} /\ content.value \in {c.value : c \in RaftContent}
    OBVIOUS
  <2> QED BY <1>2, <2>1 DEF PlainWord
<1> HIDE DEF word
<1>4. /\ <<Zero>> \in Seq(PlainWord) /\ Len(<<Zero>>) = 1
      /\ <<word, Zero>> \in Seq(PlainWord) /\ Len(<<word, Zero>>) = 2
      /\ <<word>> \in Seq(PlainWord) /\ Len(<<word>>) = 1
  BY <1>3
<1>5. Encode(content) \in {<<Zero>>, <<word, Zero>>, <<word>>}
  BY DEF Encode, word
<1>6. CASE Encode(content) = <<Zero>>
  BY <1>2, <1>4, <1>6
<1>7. CASE Encode(content) = <<word, Zero>>
  BY <1>2, <1>4, <1>7
<1>8. CASE Encode(content) = <<word>>
  BY <1>2, <1>4, <1>8
<1> QED BY <1>5, <1>6, <1>7, <1>8

(* The data of the entries of a batch. *)
LEMMA DataIs ==
  ASSUME NEW entries \in RaftBatch
  PROVE  /\ Data(entries) \in Seq(Seq(PlainWord)) /\ Len(Data(entries)) = Len(entries)
         /\ Len(entries) \in Nat \ {0} /\ DOMAIN entries = 1..Len(entries)
         /\ \A e \in 1..Len(entries) :
              /\ entries[e] \in RaftEntry /\ entries[e].content \in RaftContent
              /\ entries[e].term \in Terms
              /\ Data(entries)[e] = Encode(entries[e].content)
              /\ HeaderOf(entries[e]) \in PlainWord
<1>1. /\ entries \in Seq(RaftEntry) /\ Len(entries) \in Nat \ {0}
      /\ DOMAIN entries = 1..Len(entries)
  <2>1. entries \in Seq(RaftEntry) /\ entries # <<>>
    BY DEF RaftBatch
  <2> QED BY <2>1, EmptySeq
<1>2. ASSUME NEW e \in 1..Len(entries)
      PROVE  entries[e] \in RaftEntry /\ entries[e].content \in RaftContent /\ entries[e].term \in Terms
  <2>1. entries[e] \in RaftEntry
    BY <1>1
  <2> QED BY <2>1 DEF RaftEntry
<1>3. ASSUME NEW e \in 1..Len(entries) PROVE HeaderOf(entries[e]) \in PlainWord
  BY <1>2, EncodeIs DEF HeaderOf, PlainWord
<1>4. Data(entries) \in [1..Len(entries) -> Seq(PlainWord)]
  BY <1>2, EncodeIs DEF Data
<1>5. Data(entries) \in Seq(Seq(PlainWord)) /\ Len(Data(entries)) = Len(entries)
  BY <1>1, <1>4
<1> QED BY <1>1, <1>2, <1>3, <1>5 DEF Data

Rest(entries) ==
  <<[kind |-> "count", n |-> Len(entries)]>>
    \o [e \in 1..Len(entries) |-> HeaderOf(entries[e])] \o FlattenSeq(Data(entries))

(* A batch is a checksum and the rest, *)
LEMMA BatchWordsAre ==
  ASSUME NEW entries \in RaftBatch
  PROVE  BatchWords(entries) = <<[kind |-> "checksum", of |-> Rest(entries)]>> \o Rest(entries)
<1> DEFINE batch == [e \in DOMAIN entries |-> Raw(entries[e])]
<1>1. DOMAIN batch = 1..Len(entries) /\ Len(entries) \in Nat
  BY DataIs
<1>2. Len(batch) = Len(entries)
  BY <1>1
<1>3. ASSUME NEW e \in 1..Len(entries)
      PROVE  /\ [kind |-> "header", term |-> batch[e].term, type |-> batch[e].type,
                 length |-> Len(batch[e].data)] = HeaderOf(entries[e])
             /\ batch[e].data = Encode(entries[e].content)
  BY <1>1 DEF HeaderOf, Raw
<1>4. [e \in DOMAIN batch |-> [kind |-> "header", term |-> batch[e].term, type |-> batch[e].type,
                               length |-> Len(batch[e].data)]]
        = [e \in 1..Len(entries) |-> HeaderOf(entries[e])]
  <2> HIDE DEF batch
  <2> QED BY <1>1, <1>3
<1>5. [e \in DOMAIN batch |-> batch[e].data] = Data(entries)
  <2> HIDE DEF batch
  <2> QED BY <1>1, <1>3 DEF Data
<1>6. BatchWords(entries) =
        LET header(raw) == [kind |-> "header", term |-> raw.term, type |-> raw.type,
                            length |-> Len(raw.data)]
            rest == <<[kind |-> "count", n |-> Len(batch)]>>
                      \o [e \in DOMAIN batch |-> header(batch[e])]
                      \o FlattenSeq([e \in DOMAIN batch |-> batch[e].data])
        IN <<[kind |-> "checksum", of |-> rest]>> \o rest
  BY DEF BatchWords
<1> HIDE DEF batch
<1> QED BY <1>2, <1>4, <1>5, <1>6 DEF Rest

(* which are the number of entries, their headers and their data. *)
RestLaid(entries, n, l) ==
  /\ n = Len(entries) /\ l = Len(FlattenSeq(Data(entries)))
  /\ Rest(entries) \in Seq(PlainWord)
  /\ Len(Rest(entries)) = 1 + n + l
  /\ Rest(entries)[1] = [kind |-> "count", n |-> n]
  /\ \A e \in 1..n : Rest(entries)[1 + e] = HeaderOf(entries[e])
  /\ \A i \in 1..l : Rest(entries)[1 + n + i] = FlattenSeq(Data(entries))[i]

LEMMA RestIs ==
  ASSUME NEW entries \in RaftBatch
  PROVE  \E n \in Nat, l \in Nat : RestLaid(entries, n, l)
<1>0. PICK n \in Nat, l \in Nat : n = Len(entries) /\ l = Len(FlattenSeq(Data(entries)))
  <2>1. Len(entries) \in Nat /\ Len(FlattenSeq(Data(entries))) \in Nat
    BY DataIs, FlatEnds
  <2> QED BY <2>1
<1> DEFINE count == [kind |-> "count", n |-> n]
           a == <<count>>
           b == [e \in 1..n |-> HeaderOf(entries[e])]
           c == FlattenSeq(Data(entries))
<1>1. a \in Seq(PlainWord) /\ Len(a) = 1 /\ a[1] = count
  <2>1. count \in PlainWord
    BY DEF PlainWord
  <2> HIDE DEF count
  <2> QED BY <2>1
<1>2. b \in Seq(PlainWord) /\ Len(b) = n /\ \A e \in 1..n : b[e] = HeaderOf(entries[e])
  <2>1. \A e \in 1..n : HeaderOf(entries[e]) \in PlainWord
    BY <1>0, DataIs
  <2>2. b \in [1..n -> PlainWord]
    BY <2>1
  <2> HIDE DEF b
  <2>3. b \in Seq(PlainWord) /\ Len(b) = n
    BY <2>2
  <2> QED BY <2>3 DEF b
<1>3. c \in Seq(PlainWord) /\ Len(c) = l
  BY <1>0, DataIs, FlatEnds
<1>4. Rest(entries) = a \o b \o c
  BY <1>0 DEF Rest
<1> HIDE DEF a, b, c, count
<1>5. /\ a \o b \in Seq(PlainWord) /\ Len(a \o b) = 1 + n /\ (a \o b)[1] = count
      /\ \A e \in 1..n : (a \o b)[1 + e] = b[e]
  <2>1. /\ a \o b \in Seq(PlainWord) /\ Len(a \o b) = Len(a) + Len(b)
        /\ \A e \in 1..Len(a) : (a \o b)[e] = a[e]
        /\ \A e \in 1..Len(b) : (a \o b)[Len(a) + e] = b[e]
    <3>1. a \in Seq(PlainWord) /\ b \in Seq(PlainWord)
      BY <1>1, <1>2
    <3> QED BY <3>1, ConcatIs
  <2> QED BY <1>1, <1>2, <2>1
<1> DEFINE ab == a \o b
<1> HIDE DEF ab
<1>6. /\ ab \o c \in Seq(PlainWord) /\ Len(ab \o c) = 1 + n + l
      /\ \A e \in 1..(1 + n) : (ab \o c)[e] = ab[e]
      /\ \A i \in 1..l : (ab \o c)[1 + n + i] = c[i]
  <2>1. ab \in Seq(PlainWord) /\ Len(ab) = 1 + n
    BY <1>5 DEF ab
  <2>2. /\ ab \o c \in Seq(PlainWord) /\ Len(ab \o c) = Len(ab) + Len(c)
        /\ \A e \in 1..Len(ab) : (ab \o c)[e] = ab[e]
        /\ \A e \in 1..Len(c) : (ab \o c)[Len(ab) + e] = c[e]
    <3>1. ab \in Seq(PlainWord) /\ c \in Seq(PlainWord)
      BY <1>3, <2>1
    <3> QED BY <3>1, ConcatIs
  <2> QED BY <1>3, <2>1, <2>2
<1>7. ASSUME NEW e \in 1..n PROVE 1 + e \in 1..(1 + n)
  OBVIOUS
<1>9. 1 \in 1..(1 + n)
  OBVIOUS
<1>10. Rest(entries) = ab \o c
  BY <1>4 DEF ab
<1>11. ab[1] = count /\ \A e \in 1..n : ab[1 + e] = HeaderOf(entries[e])
  BY <1>2, <1>5 DEF ab
<1>12. Rest(entries)[1] = count
  BY <1>6, <1>9, <1>10, <1>11
<1>13. ASSUME NEW e \in 1..n PROVE Rest(entries)[1 + e] = HeaderOf(entries[e])
  BY <1>6, <1>7, <1>10, <1>11
<1>14. ASSUME NEW i \in 1..l PROVE Rest(entries)[1 + n + i] = FlattenSeq(Data(entries))[i]
  BY <1>6, <1>10 DEF c
<1>15. RestLaid(entries, n, l)
  BY <1>0, <1>6, <1>10, <1>12, <1>13, <1>14 DEF count, RestLaid
<1> QED BY <1>15

(* What a batch is made of, place by place, with n entries of l words. *)
BatchLaid(entries, n, l) ==
  /\ n = Len(entries) /\ l = Len(FlattenSeq(Data(entries)))
  /\ BatchWords(entries) \in Seq(Word)
  /\ n >= 1 /\ Len(BatchWords(entries)) = 2 + n + l
  /\ BatchWords(entries)[1] = [kind |-> "checksum", of |-> Rest(entries)]
  /\ Rest(entries) \in Seq(PlainWord) /\ Len(Rest(entries)) = 1 + n + l
  /\ \A i \in 1..(1 + n + l) : BatchWords(entries)[1 + i] = Rest(entries)[i]
  /\ BatchWords(entries)[2] = [kind |-> "count", n |-> n]
  /\ \A e \in 1..n : BatchWords(entries)[2 + e] = HeaderOf(entries[e])
  /\ \A i \in 1..l : BatchWords(entries)[2 + n + i] = FlattenSeq(Data(entries))[i]

LEMMA BatchIs ==
  ASSUME NEW entries \in RaftBatch
  PROVE  \E n \in Nat, l \in Nat : BatchLaid(entries, n, l)
<1>0. PICK n \in Nat, l \in Nat : RestLaid(entries, n, l)
  BY RestIs
<1> DEFINE a == <<[kind |-> "checksum", of |-> Rest(entries)]>>
           b == Rest(entries)
           w == BatchWords(entries)
<1>1. /\ b \in Seq(PlainWord) /\ Len(b) = 1 + n + l
      /\ b[1] = [kind |-> "count", n |-> n]
      /\ \A e \in 1..n : b[1 + e] = HeaderOf(entries[e])
      /\ \A i \in 1..l : b[1 + n + i] = FlattenSeq(Data(entries))[i]
  BY <1>0 DEF RestLaid
<1>2. n >= 1
  BY <1>0, DataIs DEF RestLaid
<1>3. w = a \o b
  BY BatchWordsAre
<1>4. a \in Seq(Word) /\ Len(a) = 1 /\ a[1] = [kind |-> "checksum", of |-> b]
  <2>1. [kind |-> "checksum", of |-> b] \in Word
    <3> HIDE DEF b
    <3> QED BY <1>1 DEF Word
  <2> DEFINE c == [kind |-> "checksum", of |-> b]
  <2> HIDE DEF c
  <2>2. c \in Word /\ a = <<c>>
    BY <2>1 DEF c
  <2>3. a \in Seq(Word) /\ Len(a) = 1 /\ a[1] = c
    BY <2>2
  <2> QED BY <2>3 DEF c
<1>5. b \in Seq(Word)
  <2>1. PlainWord \subseteq Word
    BY DEF Word
  <2>2. \A S, T : S \subseteq T => Seq(S) \subseteq Seq(T)
    OBVIOUS
  <2> QED BY <1>1, <2>1, <2>2
<1> HIDE DEF a, b, w
<1>6. /\ a \o b \in Seq(Word) /\ Len(a \o b) = Len(a) + Len(b)
      /\ \A i \in 1..Len(a) : (a \o b)[i] = a[i]
      /\ \A i \in 1..Len(b) : (a \o b)[Len(a) + i] = b[i]
  <2>1. a \in Seq(Word) /\ b \in Seq(Word)
    BY <1>4, <1>5
  <2> QED BY <2>1, ConcatIs
<1>7. w \in Seq(Word) /\ Len(w) = 2 + n + l /\ w[1] = [kind |-> "checksum", of |-> b]
  <2>1. Len(w) = 1 + (1 + n + l)
    BY <1>1, <1>3, <1>4, <1>6
  <2>2. w[1] = a[1]
    BY <1>3, <1>4, <1>6
  <2> QED BY <1>3, <1>4, <1>6, <2>1, <2>2
<1>8. \A i \in 1..(1 + n + l) : w[1 + i] = b[i]
  BY <1>1, <1>3, <1>4, <1>6
<1>9. w[2] = [kind |-> "count", n |-> n]
  <2>1. 1 \in 1..(1 + n + l) /\ 1 + 1 = 2
    OBVIOUS
  <2> QED BY <1>1, <1>8, <2>1
<1>10. ASSUME NEW e \in 1..n PROVE w[2 + e] = HeaderOf(entries[e])
  <2>1. 1 + e \in 1..(1 + n + l) /\ 1 + (1 + e) = 2 + e
    OBVIOUS
  <2> QED BY <1>1, <1>8, <2>1
<1>11. ASSUME NEW i \in 1..l PROVE w[2 + n + i] = FlattenSeq(Data(entries))[i]
  <2>1. 1 + n + i \in 1..(1 + n + l) /\ 1 + (1 + n + i) = 2 + n + i
    OBVIOUS
  <2> QED BY <1>1, <1>8, <2>1
<1>12. BatchLaid(entries, n, l)
  BY <1>0, <1>1, <1>2, <1>7, <1>8, <1>9, <1>10, <1>11 DEF b, w, BatchLaid, RestLaid
<1> QED BY <1>12

(* The batch at the offset, when all of its words are in the buffer: it is read
   as what was written. *)
At(entries) ==
  /\ entries \in RaftBatch
  /\ buf \in Seq(Word) /\ offset \in Nat
  /\ offset + Len(BatchWords(entries)) <= Len(buf)
  /\ \A i \in 1..Len(BatchWords(entries)) : buf[offset + i] = BatchWords(entries)[i]

LEMMA BatchIsRead ==
  ASSUME NEW entries, At(entries)
  PROVE  /\ ~Short /\ ~Corrupt
         /\ AfterBatch = offset + Len(BatchWords(entries))
<1>0. /\ entries \in RaftBatch /\ buf \in Seq(Word) /\ offset \in Nat /\ Len(buf) \in Nat
      /\ offset + Len(BatchWords(entries)) <= Len(buf)
      /\ \A i \in 1..Len(BatchWords(entries)) : buf[offset + i] = BatchWords(entries)[i]
  BY DEF At
<1>1. PICK n \in Nat, l \in Nat : BatchLaid(entries, n, l)
  <2>1. entries \in RaftBatch
    BY <1>0
  <2> QED BY <2>1, BatchIs
<1> DEFINE w == BatchWords(entries)
           b == Rest(entries)
           rest == SubSeq(buf, offset + 2, Len(buf))
<1>2. /\ n >= 1 /\ Len(w) = 2 + n + l
      /\ w[1] = [kind |-> "checksum", of |-> b]
      /\ b \in Seq(PlainWord) /\ Len(b) = 1 + n + l
      /\ \A i \in 1..(1 + n + l) : w[1 + i] = b[i]
  BY <1>1 DEF BatchLaid
<1> HIDE DEF w, b
<1>3. \A i \in 1..(2 + n + l) : buf[offset + i] = w[i]
  BY <1>0, <1>2 DEF w
<1>4. offset + 2 + n + l <= Len(buf)
  BY <1>0, <1>2 DEF w
<1>5. ~Short
  BY <1>0, <1>2, <1>4 DEF Short
<1>6. buf[offset + 1] = [kind |-> "checksum", of |-> b]
  BY <1>2, <1>3
<1>7. /\ rest \in Seq(Word) /\ Len(rest) = Len(buf) - offset - 1
      /\ \A i \in 1..(Len(buf) - offset - 1) : rest[i] = buf[offset + 1 + i]
  BY <1>0, <1>2, <1>4
<1> HIDE DEF rest
<1>8. SubSeq(rest, 1, 1 + n + l) = b
  <2> DEFINE s == SubSeq(rest, 1, 1 + n + l)
  <2>1. s \in Seq(Word) /\ Len(s) = 1 + n + l /\ \A i \in 1..(1 + n + l) : s[i] = rest[i]
    <3>1. PICK m \in Nat : m = 1 + n + l
      OBVIOUS
    <3>2. m <= Len(rest) /\ rest \in Seq(Word)
      BY <1>0, <1>4, <1>7, <3>1
    <3>3. LET r == SubSeq(rest, 1, m)
          IN r \in Seq(Word) /\ Len(r) = m /\ \A i \in 1..m : r[i] = rest[i]
      BY <3>2
    <3> QED BY <3>1, <3>3
  <2> HIDE DEF s
  <2>2. ASSUME NEW i \in 1..(1 + n + l) PROVE s[i] = b[i]
    <3>1. /\ i \in 1..(Len(buf) - offset - 1) /\ 1 + i \in 1..(2 + n + l)
          /\ offset + (1 + i) = offset + 1 + i
      BY <1>0, <1>4
    <3> QED BY <1>2, <1>3, <1>7, <2>1, <3>1
  <2>3. DOMAIN s = 1..(1 + n + l) /\ DOMAIN b = 1..(1 + n + l)
    BY <1>2, <2>1
  <2>4. s = b
    BY <1>2, <2>1, <2>2, <2>3
  <2> QED BY <2>4 DEF s
<1> DEFINE checksum == buf[offset + 1]
<1>9. checksum # Zero /\ checksum.kind = "checksum" /\ checksum.of = b
  BY <1>6 DEF Zero
<1>10. Len(checksum.of) <= Len(rest) /\ SubSeq(rest, 1, Len(checksum.of)) = checksum.of
  BY <1>0, <1>2, <1>4, <1>7, <1>8, <1>9
<1>11. ~Corrupt
  <2> HIDE DEF checksum
  <2> QED BY <1>9, <1>10 DEF Corrupt, checksum, rest
<1>12. AfterBatch = offset + Len(w)
  <2>1. AfterBatch = offset + 1 + Len(b)
    BY <1>9 DEF AfterBatch
  <2>2. AfterBatch = offset + 1 + (1 + n + l)
    BY <1>2, <2>1
  <2>3. offset + 1 + (1 + n + l) = offset + (2 + n + l)
    <3>1. offset \in Nat
      BY <1>0
    <3> QED BY ONLY <3>1, n \in Nat, l \in Nat
  <2> QED BY <1>2, <2>2, <2>3
<1> QED BY <1>5, <1>11, <1>12 DEF w

(* The cursor of uvLoadEntriesBatch goes over the data of one entry at a time. *)
LEMMA DataEndIs ==
  ASSUME NEW entries, At(entries), NEW n \in Nat, n = Len(entries)
  PROVE  /\ buf[offset + 2].n = n
         /\ \A e \in 1..n : buf[offset + 2 + e] = HeaderOf(entries[e])
         /\ \A e \in 0..n : DataEnd[e] = offset + 2 + n + FlatEnd(Data(entries), e)
<1>0. /\ entries \in RaftBatch /\ offset \in Nat
      /\ \A i \in 1..Len(BatchWords(entries)) : buf[offset + i] = BatchWords(entries)[i]
  BY DEF At
<1>1. PICK l \in Nat : BatchLaid(entries, n, l)
  <2>1. entries \in RaftBatch
    BY <1>0
  <2>2. PICK m \in Nat, l \in Nat : BatchLaid(entries, m, l)
    BY <2>1, BatchIs
  <2>3. m = n
    BY <2>2 DEF BatchLaid
  <2> QED BY <2>2, <2>3
<1> DEFINE w == BatchWords(entries)
           d == Data(entries)
<1>2. /\ n >= 1 /\ Len(w) = 2 + n + l
      /\ w[2] = [kind |-> "count", n |-> n] /\ \A e \in 1..n : w[2 + e] = HeaderOf(entries[e])
  BY <1>1 DEF BatchLaid
<1> HIDE DEF w, d
<1>3. \A i \in 1..(2 + n + l) : buf[offset + i] = w[i]
  BY <1>0, <1>2 DEF w
<1>4. buf[offset + 2].n = n
  <2>1. 2 \in 1..(2 + n + l)
    OBVIOUS
  <2> QED BY <1>2, <1>3, <2>1
<1>5. ASSUME NEW e \in 1..n PROVE buf[offset + 2 + e] = HeaderOf(entries[e])
  <2>1. 2 + e \in 1..(2 + n + l) /\ offset + (2 + e) = offset + 2 + e
    BY <1>0
  <2> QED BY <1>2, <1>3, <2>1
<1>6. /\ d \in Seq(Seq(PlainWord)) /\ Len(d) = n
      /\ \A e \in 1..n : d[e] = Encode(entries[e].content)
  BY <1>0, DataIs DEF d
<1>7. /\ FlatEnd(d, 0) = 0
      /\ \A e \in 0..n : FlatEnd(d, e) \in Nat
      /\ \A e \in 1..n : Len(d[e]) \in Nat /\ FlatEnd(d, e) = FlatEnd(d, e - 1) + Len(d[e])
  BY <1>6, FlatEnds
<1>8. ASSUME NEW e \in 1..n PROVE buf[offset + 2 + e].length = Len(d[e])
  <2>1. buf[offset + 2 + e] = HeaderOf(entries[e])
    BY <1>5
  <2>2. HeaderOf(entries[e]).length = Len(Encode(entries[e].content))
    BY DEF HeaderOf
  <2>3. d[e] = Encode(entries[e].content)
    BY <1>6
  <2> QED BY <2>1, <2>2, <2>3
<1> DEFINE first == offset + 2 + n
           Cursors(f) ==
             f = [e \in 0..n |-> IF e = 0 THEN first ELSE f[e - 1] + buf[offset + 2 + e].length]
           g == [e \in 0..n |-> first + FlatEnd(d, e)]
<1>9. Cursors(g)
  <2>1. ASSUME NEW e \in 0..n
        PROVE  g[e] = IF e = 0 THEN first ELSE g[e - 1] + buf[offset + 2 + e].length
    <3>1. CASE e = 0
      BY <1>0, <1>7, <3>1
    <3>2. CASE e # 0
      <4>1. e \in 1..n /\ e - 1 \in 0..n
        BY <3>2
      <4>2. PICK a \in Nat, b \in Nat : a = FlatEnd(d, e - 1) /\ b = Len(d[e])
        BY <1>7, <4>1
      <4>3. FlatEnd(d, e) = a + b /\ buf[offset + 2 + e].length = b
        BY <1>7, <1>8, <4>1, <4>2
      <4>4. first + (a + b) = (first + a) + b
        BY <1>0
      <4>5. g[e] = first + (a + b) /\ g[e - 1] = first + a
        BY <4>1, <4>2, <4>3
      <4> HIDE DEF g, first
      <4> QED BY <3>2, <4>3, <4>4, <4>5
    <3> QED BY <3>1, <3>2
  <2> DEFINE h == [e \in 0..n |-> IF e = 0 THEN first ELSE g[e - 1] + buf[offset + 2 + e].length]
  <2>2. g = h
    <3>1. DOMAIN g = 0..n /\ DOMAIN h = 0..n /\ \A e \in 0..n : g[e] = h[e]
      BY <2>1
    <3>2. g = [e \in DOMAIN g |-> g[e]] /\ h = [e \in DOMAIN h |-> h[e]]
      OBVIOUS
    <3> HIDE DEF g, h
    <3> QED BY <3>1, <3>2
  <2> QED BY <2>2
<1>10. Cursors(DataEnd)
  <2>1. DataEnd = CHOOSE f : Cursors(f)
    <3>1. DataEnd =
            CHOOSE f : f = [e \in 0..buf[offset + 2].n |->
                              IF e = 0 THEN offset + 2 + buf[offset + 2].n
                              ELSE f[e - 1] + buf[offset + 2 + e].length]
      BY DEF DataEnd, n_entries
    <3> QED BY <1>4, <3>1
  <2>2. \E f : Cursors(f)
    BY <1>9
  <2> HIDE DEF Cursors
  <2> QED BY <2>1, <2>2
<1>11. \A e \in 0..n : DataEnd[e] = IF e = 0 THEN first ELSE DataEnd[e - 1] + buf[offset + 2 + e].length
  BY <1>10
<1> HIDE DEF Cursors, g
<1>12. ASSUME NEW e \in 0..n PROVE DataEnd[e] = first + FlatEnd(d, e)
  <2> DEFINE Bad == {k \in 0..n : DataEnd[k] # first + FlatEnd(d, k)}
  <2>1. SUFFICES ASSUME Bad # {} PROVE FALSE
    OBVIOUS
  <2>2. PICK k \in Bad : \A j \in Bad : k <= j
    <3>1. Bad \subseteq Nat
      OBVIOUS
    <3> HIDE DEF Bad
    <3> QED BY <2>1, <3>1, LeastNumber
  <2>3. k \in 0..n /\ DataEnd[k] # first + FlatEnd(d, k)
    OBVIOUS
  <2>4. k # 0
    BY <1>0, <1>7, <1>11, <2>3
  <2>5. k \in 1..n /\ k - 1 \in 0..n /\ ~(k <= k - 1)
    BY <2>3, <2>4
  <2>6. k - 1 \notin Bad
    <3> HIDE DEF Bad
    <3> QED BY <2>2, <2>5
  <2>7. DataEnd[k - 1] = first + FlatEnd(d, k - 1)
    BY <2>5, <2>6
  <2>8. PICK a \in Nat, b \in Nat : a = FlatEnd(d, k - 1) /\ b = Len(d[k])
    BY <1>7, <2>5
  <2>9. FlatEnd(d, k) = a + b /\ buf[offset + 2 + k].length = b /\ DataEnd[k - 1] = first + a
    BY <1>7, <1>8, <2>5, <2>7, <2>8
  <2>10. DataEnd[k] = (first + a) + b
    BY <1>11, <2>4, <2>5, <2>9
  <2>11. (first + a) + b = first + (a + b)
    BY <1>0
  <2> QED BY <2>3, <2>9, <2>10, <2>11
<1> QED BY <1>4, <1>5, <1>12 DEF first, d

LEMMA RawEntriesAre ==
  ASSUME NEW entries, At(entries), NEW n \in Nat, n = Len(entries)
  PROVE  RawEntries = [e \in 1..n |-> Raw(entries[e])]
<1>0. /\ entries \in RaftBatch /\ buf \in Seq(Word) /\ offset \in Nat /\ Len(buf) \in Nat
      /\ offset + Len(BatchWords(entries)) <= Len(buf)
      /\ \A i \in 1..Len(BatchWords(entries)) : buf[offset + i] = BatchWords(entries)[i]
  BY DEF At
<1>1. PICK l \in Nat : BatchLaid(entries, n, l)
  <2>1. entries \in RaftBatch
    BY <1>0
  <2>2. PICK m \in Nat, l \in Nat : BatchLaid(entries, m, l)
    BY <2>1, BatchIs
  <2>3. m = n
    BY <2>2 DEF BatchLaid
  <2> QED BY <2>2, <2>3
<1> DEFINE w == BatchWords(entries)
           d == Data(entries)
           flat == FlattenSeq(d)
<1>2. /\ Len(w) = 2 + n + l /\ l = Len(flat)
      /\ \A i \in 1..l : w[2 + n + i] = flat[i]
  BY <1>1 DEF BatchLaid
<1> HIDE DEF w, d, flat
<1>3. \A i \in 1..(2 + n + l) : buf[offset + i] = w[i]
  BY <1>0, <1>2 DEF w
<1>4. /\ buf[offset + 2].n = n
      /\ \A e \in 1..n : buf[offset + 2 + e] = HeaderOf(entries[e])
      /\ \A e \in 0..n : DataEnd[e] = offset + 2 + n + FlatEnd(d, e)
  BY DataEndIs DEF d
<1>5. /\ d \in Seq(Seq(PlainWord)) /\ Len(d) = n
      /\ \A e \in 1..n : d[e] = Encode(entries[e].content)
  BY <1>0, DataIs DEF d
<1>6. ASSUME NEW e \in 1..n
      PROVE  SubSeq(buf, DataEnd[e - 1] + 1, DataEnd[e]) = Encode(entries[e].content)
  <2>1. e - 1 \in 0..n /\ e \in 0..n /\ e \in 1..Len(d)
    BY <1>5
  <2>2. PICK a \in Nat, k \in Nat : a = FlatEnd(d, e - 1) /\ k = Len(d[e]) /\ FlatEnd(d, e) = a + k
    BY <1>5, <2>1, FlatEnds
  <2>3. d[e] \in Seq(PlainWord) /\ DOMAIN d[e] = 1..k
    BY <1>5, <2>1, <2>2
  <2>4. ASSUME NEW i \in 1..k PROVE a + i \in 1..l /\ flat[a + i] = d[e][i]
    BY <1>2, <1>5, <2>1, <2>2, FlattenPlaces DEF flat
  <2>5. PICK s \in Nat : s = offset + 2 + n + a
    BY <1>0
  <2>6. DataEnd[e - 1] = s /\ DataEnd[e] = s + k
    <3>1. DataEnd[e - 1] = offset + 2 + n + a /\ DataEnd[e] = offset + 2 + n + (a + k)
      BY <1>4, <2>1, <2>2
    <3>2. offset + 2 + n + (a + k) = (offset + 2 + n + a) + k
      BY <1>0
    <3> QED BY <2>5, <3>1, <3>2
  <2>7. s + k <= Len(buf)
    <3>1. CASE k = 0
      <4>1. a <= l
        <5>1. FlatEnd(d, e - 1) <= FlatEnd(d, n) /\ FlatEnd(d, n) = l
          <6>1. e - 1 \in 0..Len(d) /\ n \in (e - 1)..Len(d)
            BY <1>5, <2>1
          <6>2. FlatEnd(d, Len(d)) = Len(FlattenSeq(d))
            BY <1>5, FlatEnds
          <6> QED BY <1>2, <1>5, <6>1, <6>2, FlatEndsGrow DEF flat
        <5> QED BY <2>2, <5>1
      <4> QED BY <1>0, <1>2, <2>5, <3>1, <4>1 DEF w
    <3>2. CASE k # 0
      <4>1. k \in 1..k
        BY <3>2
      <4>2. a + k <= l
        BY <2>4, <4>1
      <4> QED BY <1>0, <1>2, <2>5, <4>2 DEF w
    <3> QED BY <3>1, <3>2
  <2> DEFINE r == SubSeq(buf, s + 1, s + k)
  <2>8. Len(r) = k /\ DOMAIN r = 1..k /\ r \in Seq(Word) /\ \A i \in 1..k : r[i] = buf[s + i]
    BY <1>0, <2>7
  <2> HIDE DEF r
  <2>9. ASSUME NEW i \in 1..k PROVE r[i] = d[e][i]
    <3>1. a + i \in 1..l
      BY <2>4
    <3>2. 2 + n + (a + i) \in 1..(2 + n + l) /\ s + i = offset + (2 + n + (a + i))
      BY <1>0, <2>5, <3>1
    <3>3. buf[s + i] = w[2 + n + (a + i)]
      BY <1>3, <3>2
    <3> QED BY <1>2, <2>4, <2>8, <3>1, <3>3
  <2>10. r = d[e]
    <3> DEFINE t == d[e]
    <3>1. t \in Seq(PlainWord) /\ DOMAIN t = 1..k /\ \A i \in 1..k : r[i] = t[i]
      BY <2>3, <2>9
    <3> HIDE DEF t
    <3>2. r = t
      <4>1. t \in Seq(PlainWord) /\ Len(t) = k
        BY <3>1
      <4> QED BY <2>8, <3>1, <4>1
    <3> QED BY <3>2 DEF t
  <2> QED BY <1>5, <2>6, <2>10 DEF r
<1>7. ASSUME NEW e \in 1..n
      PROVE  /\ buf[offset + 2 + e].term = entries[e].term
             /\ buf[offset + 2 + e].type = entry_type(entries[e].content)
  <2>1. buf[offset + 2 + e] = HeaderOf(entries[e])
    BY <1>4
  <2>2. /\ HeaderOf(entries[e]).term = entries[e].term
        /\ HeaderOf(entries[e]).type = entry_type(entries[e].content)
    BY DEF HeaderOf
  <2> QED BY <2>1, <2>2
<1> DEFINE raw(e) == [term |-> buf[offset + 2 + e].term, type |-> buf[offset + 2 + e].type,
                      data |-> SubSeq(buf, DataEnd[e - 1] + 1, DataEnd[e])]
<1>8. ASSUME NEW e \in 1..n PROVE raw(e) = Raw(entries[e])
  BY <1>6, <1>7 DEF Raw
<1>9. RawEntries = [e \in 1..n |-> raw(e)]
  BY <1>4 DEF RawEntries, n_entries
<1> HIDE DEF raw
<1> QED BY <1>8, <1>9

-----------------------------------------------------------------------------
(* The words of a segment: the format, and then its batches one behind the other. *)
Laid(s) ==
  /\ s.batches \in Seq(RaftBatch) /\ DOMAIN s.ends = 1..Len(s.batches)
  /\ s.words \in Seq(Word) /\ s.words[1] = Format
  /\ Used(s, 0) = 1 /\ Used(s, Len(s.batches)) = Len(s.words)
  /\ \A k \in 0..Len(s.batches) : Used(s, k) \in Nat
  /\ \A k \in 1..Len(s.batches) :
       /\ Used(s, k) = Used(s, k - 1) + Len(BatchWords(s.batches[k]))
       /\ \A i \in 1..Len(BatchWords(s.batches[k])) :
            s.words[Used(s, k - 1) + i] = BatchWords(s.batches[k])[i]

LEMMA SegmentIs ==
  ASSUME NEW batches \in Seq(RaftBatch)
  PROVE  Laid(Segment(batches)) /\ Segment(batches).batches = batches
<1> DEFINE s == Segment(batches)
           seqs == [b \in DOMAIN batches |-> BatchWords(batches[b])]
           n == Len(batches)
<1>1. n \in Nat /\ DOMAIN batches = 1..n /\ \A b \in 1..n : batches[b] \in RaftBatch
  OBVIOUS
<1>2. \A b \in 1..n : BatchWords(batches[b]) \in Seq(Word)
  BY <1>1, BatchIs DEF BatchLaid
<1>3. seqs \in Seq(Seq(Word)) /\ Len(seqs) = n /\ \A b \in 1..n : seqs[b] = BatchWords(batches[b])
  <2>1. seqs \in [1..n -> Seq(Word)]
    BY <1>1, <1>2
  <2> HIDE DEF seqs
  <2>2. seqs \in Seq(Seq(Word)) /\ Len(seqs) = n
    BY <1>1, <2>1
  <2> QED BY <1>1, <2>2 DEF seqs
<1>4. /\ s.batches = batches /\ s.words = SegmentWords(batches)
      /\ s.ends = [b \in DOMAIN batches |-> Len(SegmentWords(SubSeq(batches, 1, b)))]
  BY DEF Segment
<1> HIDE DEF s
<1>5. ASSUME NEW k \in 0..n
      PROVE  SegmentWords(SubSeq(batches, 1, k)) = <<Format>> \o FlattenSeq(SubSeq(seqs, 1, k))
  <2> DEFINE a == SubSeq(batches, 1, k)
             b == SubSeq(seqs, 1, k)
             c == [e \in DOMAIN a |-> BatchWords(a[e])]
  <2>1. DOMAIN a = 1..k /\ \A e \in 1..k : a[e] = batches[e]
    BY <1>1
  <2>2. Len(b) = k /\ b \in Seq(Seq(Word)) /\ \A e \in 1..k : b[e] = seqs[e]
    <3> HIDE DEF seqs
    <3> QED BY <1>1, <1>3
  <2>3. c \in Seq(Seq(Word)) /\ Len(c) = k /\ \A e \in 1..k : c[e] = seqs[e]
    <3> HIDE DEF a, seqs
    <3>1. \A e \in 1..k : c[e] = BatchWords(batches[e]) /\ e \in 1..n
      BY <1>1, <2>1
    <3>2. c \in [1..k -> Seq(Word)]
      BY <1>2, <2>1, <3>1
    <3> HIDE DEF c
    <3>3. c \in Seq(Seq(Word)) /\ Len(c) = k
      BY <3>2
    <3> QED BY <1>3, <3>1, <3>3
  <2> HIDE DEF b, c
  <2>4. c = b
    <3>1. \A e \in 1..k : c[e] = b[e]
      BY <2>2, <2>3
    <3>2. b \in Seq(Seq(Word)) /\ c \in Seq(Seq(Word)) /\ Len(b) = k /\ Len(c) = k
      BY <2>2, <2>3
    <3> QED BY ONLY <3>1, <3>2
  <2> QED BY <2>4 DEF SegmentWords, b, c
<1>6. ASSUME NEW t \in Seq(Word)
      PROVE  /\ <<Format>> \o t \in Seq(Word) /\ Len(<<Format>> \o t) = 1 + Len(t)
             /\ (<<Format>> \o t)[1] = Format
             /\ \A i \in 1..Len(t) : (<<Format>> \o t)[1 + i] = t[i]
  <2> DEFINE f == <<Format>>
  <2>1. f \in Seq(Word) /\ Len(f) = 1 /\ f[1] = Format
    <3>1. Format \in Word
      BY DEF Word
    <3> QED BY <3>1
  <2> HIDE DEF f
  <2>2. /\ f \o t \in Seq(Word) /\ Len(f \o t) = Len(f) + Len(t)
        /\ \A i \in 1..Len(f) : (f \o t)[i] = f[i]
        /\ \A i \in 1..Len(t) : (f \o t)[Len(f) + i] = t[i]
    <3>1. f \in Seq(Word) /\ t \in Seq(Word)
      BY <2>1
    <3> QED BY <3>1, ConcatIs
  <2>3. 1 \in 1..Len(f)
    BY <2>1
  <2> QED BY <2>1, <2>2, <2>3 DEF f
<1> HIDE DEF seqs
<1>7. /\ FlattenSeq(seqs) \in Seq(Word)
      /\ FlatEnd(seqs, 0) = 0 /\ FlatEnd(seqs, n) = Len(FlattenSeq(seqs))
      /\ \A k \in 0..n : FlatEnd(seqs, k) \in Nat
      /\ \A k \in 1..n : /\ Len(seqs[k]) \in Nat
                         /\ FlatEnd(seqs, k) = FlatEnd(seqs, k - 1) + Len(seqs[k])
  BY <1>3, FlatEnds
<1>8. s.words = <<Format>> \o FlattenSeq(seqs)
  <2>1. SubSeq(batches, 1, n) = batches /\ SubSeq(seqs, 1, n) = seqs /\ n \in 0..n
    BY <1>1, <1>3, AllEntries
  <2> QED BY <1>4, <1>5, <2>1
<1>9. ASSUME NEW k \in 0..n PROVE Used(s, k) = 1 + FlatEnd(seqs, k)
  <2>1. CASE k = 0
    BY <1>7, <2>1 DEF Used
  <2>2. CASE k # 0
    <3>1. k \in DOMAIN batches
      BY <1>1, <2>2
    <3>2. Used(s, k) = Len(SegmentWords(SubSeq(batches, 1, k)))
      BY <1>4, <2>2, <3>1 DEF Used
    <3>3. FlattenSeq(SubSeq(seqs, 1, k)) \in Seq(Word)
      <4>1. SubSeq(seqs, 1, k) \in Seq(Seq(Word))
        BY <1>1, <1>3
      <4> QED BY <4>1, FlatEnds
    <3>4. Used(s, k) = 1 + Len(FlattenSeq(SubSeq(seqs, 1, k)))
      BY <1>5, <1>6, <3>2, <3>3
    <3> QED BY <3>4 DEF FlatEnd
  <2> QED BY <2>1, <2>2
<1>10. /\ s.words \in Seq(Word) /\ s.words[1] = Format
       /\ Len(s.words) = 1 + FlatEnd(seqs, n)
       /\ \A i \in 1..FlatEnd(seqs, n) : s.words[1 + i] = FlattenSeq(seqs)[i]
  BY <1>6, <1>7, <1>8
<1>11. ASSUME NEW k \in 1..n
       PROVE  /\ Used(s, k) = Used(s, k - 1) + Len(BatchWords(batches[k]))
              /\ \A i \in 1..Len(BatchWords(batches[k])) :
                   s.words[Used(s, k - 1) + i] = BatchWords(batches[k])[i]
  <2>1. k - 1 \in 0..n /\ k \in 0..n /\ k \in 1..Len(seqs)
    BY <1>1, <1>3
  <2>2. PICK a \in Nat, l \in Nat : a = FlatEnd(seqs, k - 1) /\ l = Len(seqs[k])
    BY <1>7, <2>1
  <2>3. /\ Used(s, k - 1) = 1 + a /\ Used(s, k) = 1 + (a + l)
        /\ seqs[k] = BatchWords(batches[k])
    BY <1>3, <1>7, <1>9, <2>1, <2>2
  <2>4. ASSUME NEW i \in 1..l PROVE s.words[(1 + a) + i] = seqs[k][i]
    <3>1. a + i \in 1..Len(FlattenSeq(seqs)) /\ FlattenSeq(seqs)[a + i] = seqs[k][i]
      BY <1>3, <2>1, <2>2, FlattenPlaces
    <3>2. (1 + a) + i = 1 + (a + i)
      OBVIOUS
    <3> QED BY <1>7, <1>10, <3>1, <3>2
  <2>5. 1 + (a + l) = (1 + a) + l
    OBVIOUS
  <2> QED BY <2>2, <2>3, <2>4, <2>5
<1>12. \A k \in 0..n : Used(s, k) \in Nat
  BY <1>7, <1>9
<1>13. Used(s, 0) = 1 /\ Used(s, n) = Len(s.words)
  <2>1. 0 \in 0..n /\ n \in 0..n
    BY <1>1
  <2>2. Used(s, 0) = 1 + FlatEnd(seqs, 0) /\ Used(s, n) = 1 + FlatEnd(seqs, n)
    BY <1>9, <2>1
  <2> HIDE DEF n
  <2>3. Used(s, 0) = 1
    <3>1. FlatEnd(seqs, 0) = 0
      BY <1>7
    <3> QED BY <2>2, <3>1
  <2> QED BY <1>10, <2>2, <2>3
<1>14. DOMAIN s.ends = 1..n
  BY <1>1, <1>4
<1>15. Laid(s)
  <2> HIDE DEF n
  <2>1. n = Len(s.batches) /\ s.batches = batches
    BY <1>4 DEF n
  <2> QED BY <1>10, <1>11, <1>12, <1>13, <1>14, <2>1 DEF Laid
<1> QED BY <1>4, <1>15 DEF s

(* Each batch has a checksum and a count, so at least two words. *)
LEMMA UsedGrows ==
  ASSUME NEW s, Laid(s), NEW j \in 0..Len(s.batches), NEW k \in 0..Len(s.batches)
  PROVE  /\ Used(s, j) \in Nat /\ Used(s, k) \in Nat
         /\ j < k => Used(s, j) + 2 <= Used(s, k)
         /\ j <= k => Used(s, j) <= Used(s, k)
         /\ 1 <= Used(s, k) /\ Used(s, k) <= Len(s.words) /\ Len(s.words) \in Nat
<1> DEFINE n == Len(s.batches)
<1>1. /\ n \in Nat /\ Len(s.words) \in Nat /\ Used(s, 0) = 1 /\ Used(s, n) = Len(s.words)
      /\ \A i \in 0..n : Used(s, i) \in Nat
  BY DEF Laid
<1>2. ASSUME NEW i \in 1..n PROVE Used(s, i - 1) \in Nat /\ Used(s, i - 1) + 2 <= Used(s, i)
  <2>1. s.batches[i] \in RaftBatch /\ Used(s, i) = Used(s, i - 1) + Len(BatchWords(s.batches[i]))
    BY DEF Laid
  <2>2. PICK m \in Nat, l \in Nat : Len(BatchWords(s.batches[i])) = 2 + m + l
    BY <2>1, BatchIs DEF BatchLaid
  <2>3. i - 1 \in 0..n
    BY <1>1
  <2>4. PICK u \in Nat : u = Used(s, i - 1)
    BY <1>1, <2>3
  <2>5. Used(s, i) = u + (2 + m + l)
    BY <2>1, <2>2, <2>4
  <2> QED BY <2>4, <2>5
<1>3. ASSUME NEW a \in 0..n, NEW b \in 0..n, a < b PROVE Used(s, a) + 2 <= Used(s, b)
  <2> DEFINE Bad == {i \in 0..n : a < i /\ ~(Used(s, a) + 2 <= Used(s, i))}
  <2>1. SUFFICES ASSUME Bad # {} PROVE FALSE
    BY <1>3
  <2>2. PICK i \in Bad : \A e \in Bad : i <= e
    <3>1. Bad \subseteq Nat
      OBVIOUS
    <3> HIDE DEF Bad
    <3> QED BY <2>1, <3>1, LeastNumber
  <2>3. i \in 0..n /\ a < i /\ ~(Used(s, a) + 2 <= Used(s, i))
    OBVIOUS
  <2>4. i \in 1..n /\ i - 1 \in 0..n /\ ~(i <= i - 1)
    BY <1>1, <2>3
  <2>5. i - 1 \notin Bad
    <3> HIDE DEF Bad
    <3> QED BY <2>2, <2>4
  <2>6. PICK u \in Nat, v \in Nat, w \in Nat : u = Used(s, a) /\ v = Used(s, i - 1) /\ w = Used(s, i)
    BY <1>1, <2>4
  <2>7. v + 2 <= w
    BY <1>2, <2>4, <2>6
  <2>8. CASE i - 1 = a
    BY <2>3, <2>6, <2>7, <2>8
  <2>9. CASE i - 1 # a
    <3>1. a < i - 1
      BY <1>1, <2>3, <2>9
    <3>2. u + 2 <= v
      BY <2>4, <2>5, <2>6, <3>1
    <3> QED BY <2>3, <2>6, <2>7, <3>2
  <2> QED BY <2>8, <2>9
<1>4. Used(s, j) \in Nat /\ Used(s, k) \in Nat
  BY <1>1
<1>5. j < k => Used(s, j) + 2 <= Used(s, k)
  BY <1>3
<1>6. j <= k => Used(s, j) <= Used(s, k)
  <2>1. CASE j < k
    BY <1>4, <1>5, <2>1
  <2>2. CASE j = k
    BY <1>4, <2>2
  <2> QED BY <1>1, <2>1, <2>2
<1>7. 1 <= Used(s, k)
  <2>1. CASE k = 0
    BY <1>1, <2>1
  <2>2. CASE k # 0
    <3>1. 0 \in 0..n /\ 0 < k
      BY <1>1, <2>2
    <3>2. Used(s, 0) + 2 <= Used(s, k)
      BY <1>3, <3>1
    <3> QED BY <1>1, <1>4, <3>2
  <2> QED BY <2>1, <2>2
<1>8. Used(s, k) <= Len(s.words)
  <2>1. CASE k = n
    BY <1>1, <2>1
  <2>2. CASE k # n
    <3>1. n \in 0..n /\ k < n
      BY <1>1, <2>2
    <3>2. Used(s, k) + 2 <= Used(s, n)
      BY <1>3, <3>1
    <3> QED BY <1>1, <1>4, <3>2
  <2> QED BY <2>1, <2>2
<1> QED BY <1>1, <1>4, <1>5, <1>6, <1>7, <1>8

-----------------------------------------------------------------------------
(* A file, or what was read of it, next to the segment it is to become: words of
   the segment and zeros. *)
Fits(s, words) ==
  /\ words \in Seq(Word)
  /\ \A i \in 1..Len(words) :
       words[i] = Zero \/ (i <= Len(s.words) /\ words[i] = s.words[i])

Holds(s, words, k) ==
  /\ Used(s, k) <= Len(words)
  /\ \A i \in 1..Used(s, k) : words[i] = s.words[i]

Most(s, words) == Max({0} \cup {k \in DOMAIN s.ends : Holds(s, words, k)})

(* The batches that are held are the first ones. *)
LEMMA MostIs ==
  ASSUME NEW s, Laid(s), NEW words \in Seq(Word)
  PROVE  /\ Most(s, words) \in 0..Len(s.batches)
         /\ \A k \in 1..Len(s.batches) : Holds(s, words, k) <=> k <= Most(s, words)
<1> DEFINE n == Len(s.batches)
           T == {0} \cup {k \in DOMAIN s.ends : Holds(s, words, k)}
<1>1. n \in Nat /\ DOMAIN s.ends = 1..n
  BY DEF Laid
<1>2. T \subseteq Nat /\ T # {} /\ \A x \in T : x <= n
  BY <1>1
<1>3. Most(s, words) \in T /\ \A x \in T : x <= Most(s, words)
  <2>1. Max(T) \in T /\ \A x \in T : x <= Max(T)
    <3> HIDE DEF T
    <3> QED BY <1>1, <1>2, MaxExists
  <2> QED BY <2>1 DEF Most
<1>4. ASSUME NEW k \in 1..n, NEW m \in 1..n, k <= m, Holds(s, words, m)
      PROVE  Holds(s, words, k)
  <2>1. k \in 0..Len(s.batches) /\ m \in 0..Len(s.batches)
    BY <1>1
  <2>2. Used(s, k) \in Nat /\ Used(s, m) \in Nat /\ Used(s, k) <= Used(s, m)
    BY <1>4, <2>1, UsedGrows
  <2>3. Len(words) \in Nat
    OBVIOUS
  <2> QED BY <1>4, <2>2, <2>3 DEF Holds
<1>5. ASSUME NEW k \in 1..n PROVE Holds(s, words, k) <=> k <= Most(s, words)
  <2>1. ASSUME Holds(s, words, k) PROVE k <= Most(s, words)
    BY <1>1, <1>3, <2>1
  <2>2. ASSUME k <= Most(s, words) PROVE Holds(s, words, k)
    <3>1. Most(s, words) \in 1..n /\ Holds(s, words, Most(s, words))
      BY <1>1, <1>2, <1>3, <2>2
    <3> QED BY <1>4, <2>2, <3>1
  <2> QED BY <2>1, <2>2
<1> QED BY <1>1, <1>2, <1>3, <1>5

(* A file that holds what another one holds. *)
LEMMA MostGrows ==
  ASSUME NEW s, Laid(s), NEW old \in Seq(Word), NEW new \in Seq(Word),
         \A k \in 1..Len(s.batches) : Holds(s, old, k) => Holds(s, new, k)
  PROVE  Most(s, old) <= Most(s, new)
<1>1. Len(s.batches) \in Nat
  BY DEF Laid
<1>2. Most(s, old) \in 0..Len(s.batches) /\ Most(s, new) \in 0..Len(s.batches)
  BY MostIs
<1>3. CASE Most(s, old) = 0
  BY <1>2, <1>3
<1>4. CASE Most(s, old) # 0
  <2>1. Most(s, old) \in 1..Len(s.batches) /\ Most(s, old) <= Most(s, old)
    BY <1>1, <1>2, <1>4
  <2>2. Holds(s, old, Most(s, old))
    BY <2>1, MostIs
  <2> QED BY <2>1, <2>2, MostIs
<1> QED BY <1>3, <1>4

(* What writers do to a file: whole batches stay whole, words stay what they are,
   and the file is not made longer or empty, *)
Onward(s, old, new) ==
  /\ Fits(s, new) /\ Len(new) # 1
  /\ Most(s, old) <= Most(s, new)
  /\ \A i \in 1..Len(new) : i <= Len(old) /\ old[i] # Zero => new[i] = old[i]
  /\ old # <<>> => new # <<>> /\ Len(new) <= Len(old)

(* mostly without a new word. *)
Quiet(old, new) ==
  \A i \in 1..Len(new) : new[i] # Zero => i <= Len(old) /\ old[i] # Zero

LEMMA ZerosAre ==
  ASSUME NEW n \in Nat
  PROVE  Zeros(n) \in Seq(Word) /\ Len(Zeros(n)) = n /\ \A i \in 1..n : Zeros(n)[i] = Zero
<1>1. Zero \in Word
  BY DEF Word, PlainWord
<1>2. Zeros(n) \in [1..n -> Word] /\ \A i \in 1..n : Zeros(n)[i] = Zero
  BY <1>1 DEF Zeros
<1> HIDE DEF Zeros
<1> QED BY <1>2

(* The file gets its length, *)
LEMMA ExtendIsOnward ==
  ASSUME NEW s, Laid(s), NEW n \in Nat, n >= 2
  PROVE  Onward(s, <<>>, Zeros(n)) /\ Quiet(<<>>, Zeros(n))
<1> DEFINE new == Zeros(n)
<1>1. new \in Seq(Word) /\ Len(new) = n /\ \A i \in 1..n : new[i] = Zero
  BY ZerosAre
<1> HIDE DEF new
<1> DEFINE old == <<>>
<1>2. old \in Seq(Word) /\ Len(old) = 0
  OBVIOUS
<1> HIDE DEF old
<1>3. Fits(s, new)
  BY <1>1 DEF Fits
<1>4. \A k \in 1..Len(s.batches) : ~Holds(s, old, k)
  <2>1. ASSUME NEW k \in 1..Len(s.batches) PROVE ~(Used(s, k) <= Len(old))
    <3>1. k \in 0..Len(s.batches)
      BY DEF Laid
    <3>2. Used(s, k) \in Nat /\ 1 <= Used(s, k)
      BY <3>1, UsedGrows
    <3> QED BY <1>2, <3>2
  <2> QED BY <2>1 DEF Holds
<1>5. Most(s, old) <= Most(s, new)
  BY <1>1, <1>2, <1>4, MostGrows
<1>6. Onward(s, old, new)
  <2>1. old = <<>>
    BY DEF old
  <2> QED BY <1>1, <1>2, <1>3, <1>5, <2>1 DEF Onward
<1>7. Quiet(old, new)
  BY <1>1 DEF Quiet
<1> QED BY <1>6, <1>7 DEF old, new

(* a word is written, *)
LEMMA WriteIsOnward ==
  ASSUME NEW s, Laid(s), NEW old, Fits(s, old), Len(old) # 1,
         NEW w \in 1..Len(old), w <= Len(s.words), NEW new, new = [old EXCEPT ![w] = s.words[w]]
  PROVE  Onward(s, old, new) /\ Len(new) = Len(old)
<1>1. /\ old \in Seq(Word) /\ Len(old) \in Nat /\ DOMAIN old = 1..Len(old)
      /\ s.words \in Seq(Word) /\ Len(s.words) \in Nat /\ s.words[w] \in Word
  BY DEF Fits, Laid
<1>2. /\ new \in Seq(Word) /\ Len(new) = Len(old) /\ new[w] = s.words[w]
      /\ \A i \in 1..Len(old) : i # w => new[i] = old[i]
  BY <1>1
<1>3. ASSUME NEW i \in 1..Len(old) PROVE old[i] = Zero \/ (i <= Len(s.words) /\ old[i] = s.words[i])
  BY DEF Fits
<1>4. ASSUME NEW i \in 1..Len(new)
      PROVE  /\ new[i] = Zero \/ (i <= Len(s.words) /\ new[i] = s.words[i])
             /\ old[i] # Zero => new[i] = old[i]
  BY <1>2, <1>3
<1>5. Fits(s, new)
  BY <1>2, <1>4 DEF Fits
<1>6. ASSUME NEW k \in 1..Len(s.batches), Holds(s, old, k) PROVE Holds(s, new, k)
  <2>1. k \in 0..Len(s.batches)
    BY DEF Laid
  <2>2. Used(s, k) \in Nat /\ Used(s, k) <= Len(old)
    BY <1>6, <2>1, UsedGrows DEF Holds
  <2>3. ASSUME NEW i \in 1..Used(s, k) PROVE new[i] = s.words[i]
    <3>1. i \in 1..Len(old) /\ old[i] = s.words[i]
      BY <1>1, <1>6, <2>2 DEF Holds
    <3> QED BY <1>2, <3>1
  <2> QED BY <1>2, <2>2, <2>3 DEF Holds
<1>7. Most(s, old) <= Most(s, new)
  BY <1>1, <1>2, <1>6, MostGrows
<1>8. old # <<>> => new # <<>> /\ Len(new) <= Len(old)
  <2>1. Len(new) # 0
    BY <1>1, <1>2
  <2>2. new # <<>>
    BY <2>1
  <2> QED BY <1>1, <1>2, <2>2
<1> QED BY <1>2, <1>4, <1>5, <1>7, <1>8 DEF Onward

(* and it is cut behind the last whole batch. *)
LEMMA CutIsOnward ==
  ASSUME NEW s, Laid(s), NEW old, Fits(s, old), NEW k \in 1..Len(s.batches), k = Most(s, old),
         NEW new, new = SubSeq(old, 1, Used(s, k))
  PROVE  Onward(s, old, new) /\ Quiet(old, new) /\ Len(new) = Used(s, k)
<1>1. old \in Seq(Word) /\ Len(old) \in Nat /\ Len(s.batches) \in Nat
  BY DEF Fits, Laid
<1>2. Holds(s, old, k)
  BY <1>1, MostIs
<1>3. PICK u \in Nat : u = Used(s, k) /\ u <= Len(old) /\ u >= 3
  <2>1. k \in 0..Len(s.batches) /\ 0 \in 0..Len(s.batches) /\ 0 < k
    BY <1>1
  <2>2. Used(s, k) \in Nat /\ Used(s, 0) + 2 <= Used(s, k) /\ Used(s, 0) = 1
    BY <2>1, UsedGrows DEF Laid
  <2> QED BY <1>2, <2>2 DEF Holds
<1>4. /\ new \in Seq(Word) /\ Len(new) = u
      /\ \A i \in 1..u : new[i] = old[i]
  BY <1>1, <1>3
<1>5. Fits(s, new)
  <2>1. ASSUME NEW i \in 1..Len(new)
        PROVE  new[i] = Zero \/ (i <= Len(s.words) /\ new[i] = s.words[i])
    <3>1. i \in 1..Len(old) /\ new[i] = old[i]
      BY <1>1, <1>3, <1>4
    <3> QED BY <3>1 DEF Fits
  <2> QED BY <1>4, <2>1 DEF Fits
<1>6. Holds(s, new, k)
  BY <1>2, <1>3, <1>4 DEF Holds
<1>7. Most(s, old) <= Most(s, new)
  BY <1>4, <1>6, MostIs
<1>8. old # <<>> => new # <<>> /\ Len(new) <= Len(old)
  <2>1. new # <<>>
    BY <1>3, <1>4
  <2> QED BY <1>3, <1>4, <2>1
<1>9. Quiet(old, new)
  BY <1>1, <1>3, <1>4 DEF Quiet
<1> QED BY <1>3, <1>4, <1>5, <1>7, <1>8, <1>9 DEF Onward

-----------------------------------------------------------------------------
(* A read of a file whose segment is s and that now has the words file: what is
   in the buffer was in the file, and still is as far as it is not zero; whole
   batches in the buffer are whole in the file; the batches the file had when the
   read began are seen, and nothing else unless the read is torn. *)
Over == {"format", "batches", "ok", "error"}

Seen(s, file, b, ph, st, tn) ==
  /\ Fits(s, b)
  /\ \A i \in 1..Len(b) : i <= Len(file) /\ b[i] # Zero => file[i] = b[i]
  /\ b # <<>> => file # <<>>
  /\ \A k \in 1..Len(s.batches) : Holds(s, b, k) => k <= Most(s, file)
  /\ st \in 0..Most(s, file) /\ tn \in BOOLEAN
  /\ st > 0 => \A i \in 1..Len(b) : i <= Used(s, st) => b[i] = s.words[i]
  /\ ~tn => \A i \in 1..Len(b) : i > Used(s, st) => b[i] = Zero
  /\ ~tn /\ ph = "reading" => \A i \in 1..Len(file) : i > Used(s, st) => file[i] = Zero
  /\ ph \in Over => /\ st > 0 => Used(s, st) <= Len(b)
                    /\ b # <<>> => Len(file) <= Len(b) /\ Len(b) >= 2

EntriesTo(s, k) == FlattenSeq(SubSeq(s.batches, 1, k))

(* What has been made of the buffer: the entries of the batches up to the offset. *)
AtBatch(s, b, off, l, j) ==
  /\ off = Used(s, j) /\ off < Len(b)
  /\ l = EntriesTo(s, j)
  /\ \A i \in 1..off : b[i] = s.words[i]

AtEnd(s, b, l, j) ==
  /\ l = EntriesTo(s, j)
  /\ j > 0 => Holds(s, b, j)
  /\ \A i \in 1..Len(b) : i > Used(s, j) => b[i] = Zero

Refused(s, file, b, tn) ==
  \/ tn
  \/ \E j \in 1..Most(s, file) : \E e \in 1..Len(s.batches[j]) : s.batches[j][e] \notin Entry
  \/ \E j \in 0..Most(s, file) : Len(b) = Used(s, j) + 1

Made(s, file, b, off, l, ph, st, tn) ==
  /\ off \in 0..Len(b) /\ l \in Seq(Entry)
  /\ ph \in {"opened", "seek", "reading", "format", "batches", "ok", "error"}
  /\ ph \in {"reading", "format"} => off = 0 /\ l = <<>>
  /\ ph = "batches" => \E j \in 0..Len(s.batches) : AtBatch(s, b, off, l, j)
  /\ ph = "ok" => \E j \in st..Most(s, file) : AtEnd(s, b, l, j)
  /\ ph = "error" => Refused(s, file, b, tn)

Reading(s, file, b, off, l, ph, st, tn) ==
  Seen(s, file, b, ph, st, tn) /\ Made(s, file, b, off, l, ph, st, tn)

(* Writers that go on do not disturb a read; a new word makes it torn, until the
   end of the file was seen. *)
LEMMA ReadingGoesOn ==
  ASSUME NEW s, Laid(s), NEW old \in Seq(Word), NEW new, NEW b, NEW off, NEW l, NEW ph,
         NEW st, NEW before, NEW tn \in BOOLEAN,
         Reading(s, old, b, off, l, ph, st, before),
         Onward(s, old, new), before => tn, ph = "reading" /\ ~tn => Quiet(old, new)
  PROVE  Reading(s, new, b, off, l, ph, st, tn)
<1>1. /\ Fits(s, new) /\ new \in Seq(Word) /\ Len(new) # 1 /\ Most(s, old) <= Most(s, new)
      /\ \A i \in 1..Len(new) : i <= Len(old) /\ old[i] # Zero => new[i] = old[i]
      /\ old # <<>> => new # <<>> /\ Len(new) <= Len(old)
  BY DEF Onward, Fits
<1>2. /\ Most(s, old) \in 0..Len(s.batches) /\ Most(s, new) \in 0..Len(s.batches)
      /\ Len(old) \in Nat /\ Len(new) \in Nat /\ Len(s.batches) \in Nat
  <2>1. new \in Seq(Word)
    BY <1>1
  <2>2. Most(s, old) \in 0..Len(s.batches) /\ Most(s, new) \in 0..Len(s.batches)
    BY <2>1, MostIs
  <2>3. s.batches \in Seq(RaftBatch)
    BY DEF Laid
  <2>4. Len(old) \in Nat /\ Len(new) \in Nat /\ Len(s.batches) \in Nat
    BY ONLY <2>1, <2>3, old \in Seq(Word)
  <2> QED BY <2>2, <2>4
<1>3. Fits(s, b) /\ b \in Seq(Word) /\ Len(b) \in Nat
  BY DEF Reading, Seen, Fits
<1>4. b # <<>> => old # <<>>
  BY DEF Reading, Seen
<1>5. ASSUME NEW i \in 1..Len(b), i <= Len(new), b[i] # Zero PROVE new[i] = b[i]
  <2>1. b # <<>>
    BY <1>3
  <2>2. i <= Len(old)
    BY <1>1, <1>2, <1>4, <1>5, <2>1
  <2>3. old[i] = b[i]
    BY <1>5, <2>2 DEF Reading, Seen
  <2> QED BY <1>1, <1>2, <1>5, <2>2, <2>3
<1>6. ASSUME NEW k \in 1..Len(s.batches), Holds(s, b, k) PROVE k <= Most(s, new)
  <2>1. k <= Most(s, old)
    BY <1>6 DEF Reading, Seen
  <2> QED BY <1>1, <1>2, <2>1
<1>7. st \in 0..Most(s, new)
  <2>1. st \in 0..Most(s, old)
    BY DEF Reading, Seen
  <2> QED BY <1>1, <1>2, <2>1
<1>8. ASSUME ~tn, ph = "reading", NEW i \in 1..Len(new), i > Used(s, st) PROVE new[i] = Zero
  <2>1. CASE i <= Len(old) /\ old[i] # Zero
    <3>1. ~before /\ i \in 1..Len(old)
      BY <1>2, <1>8, <2>1
    <3>2. old[i] = Zero
      BY <1>8, <3>1 DEF Reading, Seen
    <3> QED BY <2>1, <3>2
  <2>2. CASE ~(i <= Len(old) /\ old[i] # Zero)
    BY <1>8, <2>2 DEF Quiet
  <2> QED BY <2>1, <2>2
<1>9. ASSUME ph \in Over
      PROVE  /\ st > 0 => Used(s, st) <= Len(b)
             /\ b # <<>> => Len(new) <= Len(b) /\ Len(b) >= 2
  <2>1. /\ st > 0 => Used(s, st) <= Len(b)
        /\ b # <<>> => Len(old) <= Len(b) /\ Len(b) >= 2
    BY <1>9 DEF Reading, Seen
  <2> QED BY <1>1, <1>2, <1>3, <1>4, <2>1
<1>10. Seen(s, new, b, ph, st, tn)
  <2>1. /\ st > 0 => \A i \in 1..Len(b) : i <= Used(s, st) => b[i] = s.words[i]
        /\ ~before => \A i \in 1..Len(b) : i > Used(s, st) => b[i] = Zero
    BY DEF Reading, Seen
  <2>2. b # <<>> => new # <<>>
    BY <1>1, <1>4
  <2> QED BY <1>3, <1>5, <1>6, <1>7, <1>8, <1>9, <2>1, <2>2 DEF Seen
<1>11. ASSUME Refused(s, old, b, before) PROVE Refused(s, new, b, tn)
  <2>1. 1..Most(s, old) \subseteq 1..Most(s, new) /\ 0..Most(s, old) \subseteq 0..Most(s, new)
    BY <1>1, <1>2
  <2> QED BY <1>11, <2>1 DEF Refused
<1>12. st..Most(s, old) \subseteq st..Most(s, new)
  <2>1. st \in 0..Most(s, old)
    BY DEF Reading, Seen
  <2> QED BY <1>1, <1>2, <2>1
<1>13. Made(s, new, b, off, l, ph, st, tn)
  BY <1>11, <1>12 DEF Reading, Made
<1> QED BY ONLY <1>10, <1>13 DEF Reading

-----------------------------------------------------------------------------
(* The inductive invariant.  The files are what Fits says of them; *)
Segments == {Segment(batches) : batches \in Seq(RaftBatch)}

File == [kind : {"open", "closed"}, first : Int, end : Int, words : Seq(Word)]

FilesFit ==
  /\ segments \in Seq(Segments) /\ files \in Seq(File)
  /\ Len(files) <= Len(segments)
  /\ \A f \in 1..Len(files) : Fits(segments[f], files[f].words) /\ Len(files[f].words) # 1

(* a node has one of them, in which the batches it has begun have their places; *)
NodeOK ==
  /\ todo = NothingLeft /\ Len(segments) = 1 /\ Len(files) <= 1
  /\ begun \in 0..Len(segments[1].batches)
  /\ begun = 0 => \A f \in 1..Len(files) : files[f].kind = "open"
  /\ begun > 0 => files # <<>> /\ Used(segments[1], begun) <= Len(files[1].words)

(* a creator has those it has written, closed ones first, whose names join up
   with each other and with what is left; *)
Named(f) ==
  /\ Len(segments[f].batches) >= 1
  /\ files[f].end = files[f].first + Len(segments[f].batches) - 1
  /\ \A g \in 1..f : files[g].kind = "closed"
  /\ \A g \in 1..f : f = g + 1 => files[f].first = files[g].end + 1

CreatorOK ==
  /\ todo \in Input /\ up = FALSE /\ begun = 0
  /\ Len(files) = Len(segments)
  /\ \A f \in 1..Len(files) : files[f].kind = "closed" => Named(f)
  /\ \A f \in 1..Len(files) :
       /\ todo.closed # <<>> => files[f].kind = "closed"
       /\ f = Len(files) /\ files[f].kind = "closed" => todo.first_index = files[f].end + 1

(* and the reader has no file, or one of them that no creator will write to. *)
ReaderOK ==
  \/ /\ handle = 0 /\ as = "none" /\ pos = 0
     /\ buf = <<>> /\ offset = 0 /\ loaded = <<>>
     /\ phase = "none" /\ start = 0 /\ torn = FALSE
  \/ /\ handle \in 1..Len(files) /\ as \in {"open", "closed"} /\ pos = Len(buf)
     /\ Written
     /\ Reading(segments[handle], files[handle].words, buf, offset, loaded, phase, start, torn)

IInv ==
  /\ FilesFit /\ up \in BOOLEAN
  /\ NodeOK \/ CreatorOK
  /\ ReaderOK

LEMMA SegmentsLaid ==
  ASSUME NEW s \in Segments
  PROVE  Laid(s) /\ Len(s.words) \in Nat
BY SegmentIs, UsedGrows DEF Segments, Laid

LEMMA FileIs ==
  ASSUME FilesFit, NEW f \in 1..Len(files)
  PROVE  /\ f \in 1..Len(segments) /\ segments[f] \in Segments /\ Laid(segments[f])
         /\ files[f] \in File /\ files[f].words \in Seq(Word) /\ Len(files[f].words) \in Nat
         /\ Fits(segments[f], files[f].words) /\ Len(files[f].words) # 1
         /\ Whole(f) = Most(segments[f], files[f].words)
         /\ Whole(f) \in 0..Len(segments[f].batches) /\ Len(segments[f].batches) \in Nat
<1>1. f \in 1..Len(segments) /\ segments[f] \in Segments /\ files[f] \in File
  <2>1. segments \in Seq(Segments) /\ files \in Seq(File) /\ Len(files) <= Len(segments)
    BY DEF FilesFit
  <2> QED BY <2>1
<1>2. Laid(segments[f]) /\ Len(segments[f].batches) \in Nat
  <2>1. Laid(segments[f])
    BY <1>1, SegmentsLaid
  <2>2. segments[f].batches \in Seq(RaftBatch)
    BY <2>1 DEF Laid
  <2> QED BY <2>1, <2>2
<1>3. files[f].words \in Seq(Word) /\ Len(files[f].words) \in Nat
  BY <1>1 DEF File
<1>4. Fits(segments[f], files[f].words) /\ Len(files[f].words) # 1
  BY DEF FilesFit
<1> DEFINE s == segments[f]
           w == files[f].words
<1>5. ASSUME NEW k \in DOMAIN s.ends PROVE IsWhole(f, k) <=> Holds(s, w, k)
  <2>1. k \in 0..Len(s.batches)
    BY <1>2 DEF Laid
  <2>2. Used(s, k) \in Nat /\ 1 <= Used(s, k)
    BY <1>2, <2>1, UsedGrows
  <2>3. DOMAIN w = 1..Len(w)
    BY <1>3
  <2>4. 1..Used(s, k) \subseteq DOMAIN w <=> Used(s, k) <= Len(w)
    BY <1>3, <2>2, <2>3
  <2> QED BY <2>4 DEF IsWhole, Holds
<1>6. Whole(f) = Most(s, w)
  BY <1>5 DEF Whole, Most
<1>7. Most(s, w) \in 0..Len(s.batches)
  BY <1>2, <1>3, MostIs
<1> QED BY <1>1, <1>2, <1>3, <1>4, <1>6, <1>7

LEMMA OnwardStays ==
  ASSUME NEW s, Laid(s), NEW w, Fits(s, w), Len(w) # 1
  PROVE  Onward(s, w, w) /\ Quiet(w, w)
<1>1. w \in Seq(Word) /\ Len(w) \in Nat
  BY DEF Fits
<1>2. Most(s, w) \in 0..Len(s.batches) /\ Len(s.batches) \in Nat
  BY <1>1, MostIs DEF Laid
<1> QED BY <1>1, <1>2 DEF Onward, Quiet

(* A step of the node on its file: the reader goes on as before. *)
LEMMA NodeGoesOn ==
  ASSUME IInv, NodeStep, NodeOK,
         files' \in Seq(File), Len(files) = 1, Len(files') = 1,
         Onward(segments[1], files[1].words, files'[1].words),
         torn' \in BOOLEAN, torn => torn', phase # "reading" => torn' = torn,
         phase = "reading" /\ ~torn' => Quiet(files[1].words, files'[1].words)
  PROVE  FilesFit' /\ ReaderOK'
<1>1. /\ segments \in Seq(Segments) /\ Len(segments) = 1
      /\ UNCHANGED <<segments, todo, handle, as, pos, buf, offset, loaded, phase, start>>
  BY DEF IInv, FilesFit, NodeOK, NodeStep
<1>2. /\ segments[1] \in Segments /\ Laid(segments[1]) /\ files[1].words \in Seq(Word)
  BY FileIs DEF IInv
<1>3. FilesFit'
  <2>1. Fits(segments[1], files'[1].words) /\ Len(files'[1].words) # 1
    BY DEF Onward
  <2>2. ASSUME NEW f \in 1..Len(files')
        PROVE  Fits(segments'[f], files'[f].words) /\ Len(files'[f].words) # 1
    BY <1>1, <2>1
  <2> QED BY <1>1, <2>2 DEF FilesFit
<1>4. CASE handle = 0
  <2>1. phase # "reading" /\ torn' = torn
    BY <1>4 DEF IInv, ReaderOK
  <2> QED BY <1>1, <1>3, <1>4, <2>1 DEF IInv, ReaderOK
<1>5. CASE handle # 0
  <2>0. /\ handle \in 1..Len(files) /\ as \in {"open", "closed"} /\ pos = Len(buf) /\ Written
        /\ Reading(segments[handle], files[handle].words, buf, offset, loaded, phase, start, torn)
    BY <1>5, Zenon DEF IInv, ReaderOK
  <2>1. handle = 1
    BY <2>0
  <2>2. Reading(segments[1], files'[1].words, buf, offset, loaded, phase, start, torn')
    BY <1>2, <2>0, <2>1, ReadingGoesOn
  <2>3. Written'
    BY <1>1, <2>0 DEF Written
  <2>4. handle' \in 1..Len(files') /\ as' \in {"open", "closed"} /\ pos' = Len(buf')
    BY <1>1, <2>0, <2>1
  <2>5. Reading(segments'[handle'], files'[handle'].words, buf', offset', loaded', phase', start', torn')
    BY <1>1, <2>1, <2>2, Zenon
  <2> QED BY <1>3, <2>3, <2>4, <2>5, Zenon DEF ReaderOK
<1> QED BY <1>4, <1>5

LEMMA NodeKeeps ==
  ASSUME IInv, SegmentAssumption,
         CreateSegment \/ Extend \/ BeginBatch \/ WriteWord \/ Finalize \/ Crash \/ Restart
  PROVE  IInv'
<1> DEFINE s == segments[1]
           w == files[1].words
<1>1. NodeOK
  <2>1. CASE Restart
    <3>1. begun # 0
      BY <2>1 DEF Restart
    <3> QED BY <3>1 DEF IInv, CreatorOK
  <2>2. CASE ~Restart
    <3>1. up
      BY <2>2, Zenon DEF CreateSegment, Extend, BeginBatch, WriteWord, Finalize, Crash
    <3> QED BY <3>1, Zenon DEF IInv, CreatorOK
  <2> QED BY <2>1, <2>2
<1>2. /\ NodeStep
      /\ UNCHANGED <<segments, todo, handle, as, pos, buf, offset, loaded, phase, start>>
  BY DEF NodeStep, CreateSegment, Extend, BeginBatch, WriteWord, Finalize, Crash, Restart
<1>3. /\ todo = NothingLeft /\ Len(segments) = 1 /\ Len(files) <= 1
      /\ begun \in 0..Len(s.batches)
      /\ begun = 0 => \A f \in 1..Len(files) : files[f].kind = "open"
      /\ begun > 0 => files # <<>> /\ Used(s, begun) <= Len(w)
  BY <1>1 DEF NodeOK
<1>4. FilesFit /\ files \in Seq(File) /\ Len(files) \in Nat /\ segments \in Seq(Segments)
      /\ segments[1] \in Segments /\ Laid(segments[1])
  <2>1. FilesFit /\ files \in Seq(File) /\ segments \in Seq(Segments)
    BY DEF IInv, FilesFit
  <2>2. segments[1] \in Segments
    <3>1. segments \in Seq(Segments) /\ Len(segments) = 1
      BY <1>3, <2>1
    <3> QED BY ONLY <3>1
  <2> QED BY <2>1, <2>2, SegmentsLaid
<1>5. ASSUME files # <<>>
      PROVE  /\ Len(files) = 1 /\ files[1] \in File /\ w \in Seq(Word) /\ Len(w) \in Nat
             /\ Fits(s, w) /\ Len(w) # 1
             /\ Whole(1) = Most(s, w) /\ Whole(1) \in 0..Len(s.batches)
  <2>1. Len(files) = 1 /\ 1 \in 1..Len(files)
    BY <1>3, <1>4, <1>5
  <2> QED BY <1>4, <2>1, FileIs
<1>6. /\ Len(s.batches) \in Nat
      /\ \A k \in 0..Len(s.batches) : Used(s, k) \in Nat /\ 1 <= Used(s, k)
      /\ \A k \in 0..Len(s.batches) : Used(s, k) <= Len(s.words) /\ Len(s.words) \in Nat
  <2>1. Laid(s)
    BY <1>4
  <2> HIDE DEF s
  <2>2. ASSUME NEW k \in 0..Len(s.batches)
        PROVE  /\ Used(s, k) \in Nat /\ 1 <= Used(s, k)
               /\ Used(s, k) <= Len(s.words) /\ Len(s.words) \in Nat
    BY <2>1, UsedGrows
  <2> QED BY <2>1, <2>2 DEF Laid
<1>7. torn \in BOOLEAN
  <2>1. CASE torn = FALSE
    BY <2>1
  <2>2. CASE torn # FALSE
    BY <2>2, Zenon DEF IInv, ReaderOK, Reading, Seen
  <2> QED BY <2>1, <2>2
<1> HIDE DEF s, w
<1>8. ASSUME CreateSegment PROVE IInv'
  <2>1. /\ up /\ files = <<>> /\ UNCHANGED <<begun, up, torn>>
        /\ files' = <<[kind |-> "open", first |-> 0, end |-> 0, words |-> <<>>]>>
    BY <1>8 DEF CreateSegment
  <2>2. begun = 0 /\ Len(files) = 0
    BY <1>3, <1>6, <2>1
  <2> DEFINE file == [kind |-> "open", first |-> 0, end |-> 0, words |-> <<>>]
  <2>3. file \in File /\ file.words = <<>> /\ file.kind = "open"
    <3>1. <<>> \in Seq(Word)
      OBVIOUS
    <3> QED BY <3>1 DEF File
  <2> HIDE DEF file
  <2>4. /\ files' \in Seq(File) /\ Len(files') = 1
        /\ files'[1].words = <<>> /\ files'[1].kind = "open"
    <3>1. files' = <<file>>
      BY <2>1 DEF file
    <3> QED BY <2>3, <3>1
  <2>5. Fits(segments[1], <<>>) /\ Len(<<>>) # 1
    <3>1. <<>> \in Seq(Word) /\ Len(<<>>) = 0
      OBVIOUS
    <3> QED BY <3>1 DEF Fits
  <2>6. FilesFit'
    <3>1. ASSUME NEW f \in 1..Len(files')
          PROVE  Fits(segments'[f], files'[f].words) /\ Len(files'[f].words) # 1
      BY <1>2, <2>4, <2>5
    <3> QED BY <1>2, <1>3, <1>4, <2>4, <3>1 DEF FilesFit
  <2>7. NodeOK'
    BY <1>2, <1>3, <2>1, <2>2, <2>4 DEF NodeOK, s
  <2>8. handle = 0
    BY <2>2 DEF IInv, ReaderOK
  <2>9. ReaderOK'
    BY <1>2, <2>1, <2>8 DEF IInv, ReaderOK
  <2> QED BY <2>1, <2>6, <2>7, <2>9 DEF IInv
<1>9. ASSUME Extend PROVE IInv'
  <2>1. /\ files # <<>> /\ files[1].kind = "open" /\ w = <<>> /\ UNCHANGED <<begun, up, torn>>
    BY <1>9 DEF Extend, w
  <2>2. PICK n \in Lengths : files' = [files EXCEPT ![1].words = Zeros(n)]
    BY <1>9 DEF Extend
  <2>3. n \in Nat /\ n >= 2
    BY DEF SegmentAssumption
  <2>4. Zeros(n) \in Seq(Word) /\ Len(Zeros(n)) = n
    BY <2>3, ZerosAre
  <2>5. /\ files' \in Seq(File) /\ Len(files') = 1
        /\ files'[1].words = Zeros(n) /\ files'[1].kind = files[1].kind
    <3>1. Len(files) = 1 /\ 1 \in 1..Len(files)
      BY <1>5, <2>1
    <3>2. files \in Seq(File)
      BY <1>4
    <3> DEFINE x == [files[1] EXCEPT !.words = Zeros(n)]
    <3>3. files[1] \in File
      BY ONLY <3>1, <3>2
    <3>4. x \in File /\ x.words = Zeros(n) /\ x.kind = files[1].kind
      BY <2>4, <3>3 DEF File
    <3>5. files' = [files EXCEPT ![1] = x]
      BY <2>2
    <3> HIDE DEF x
    <3>6. files' \in Seq(File) /\ Len(files') = Len(files) /\ files'[1] = x
      <4>1. x \in File
        BY <3>4
      <4> QED BY ONLY <3>1, <3>2, <3>5, <4>1, ExceptSeq
    <3> QED BY <3>1, <3>4, <3>6
  <2>6. Onward(segments[1], <<>>, Zeros(n)) /\ Quiet(<<>>, Zeros(n))
    BY <1>4, <2>3, ExtendIsOnward
  <2>7. files[1].words = <<>>
    BY <2>1 DEF w
  <2>8. FilesFit' /\ ReaderOK'
    <3>1. Onward(segments[1], files[1].words, files'[1].words) /\ Quiet(files[1].words, files'[1].words)
      BY <2>5, <2>6, <2>7
    <3>2. torn' = torn /\ torn' \in BOOLEAN
      BY <1>7, <2>1
    <3>3. Len(files) = 1
      BY <1>5, <2>1
    <3> QED BY <1>1, <1>2, <2>5, <3>1, <3>2, <3>3, NodeGoesOn
  <2>9. begun = 0
    <3>1. ASSUME begun > 0 PROVE FALSE
      <4>1. Used(s, begun) <= Len(w) /\ Len(w) = 0
        BY <1>3, <2>1, <3>1
      <4>2. Used(s, begun) \in Nat /\ 1 <= Used(s, begun)
        BY <1>3, <1>6
      <4> QED BY <4>1, <4>2
    <3> QED BY <1>3, <1>6, <3>1
  <2>10. NodeOK'
    BY <1>2, <1>3, <1>6, <2>1, <2>5, <2>9 DEF NodeOK, s
  <2>11. up' \in BOOLEAN
    BY <2>1 DEF IInv
  <2> QED BY <2>8, <2>10, <2>11 DEF IInv
<1>10. ASSUME BeginBatch PROVE IInv'
  <2>1. /\ files # <<>> /\ begun < Len(s.batches) /\ begun' = begun + 1
        /\ Used(s, begun + 1) <= Len(w) /\ UNCHANGED <<files, up, torn>>
    BY <1>10 DEF BeginBatch, s, w
  <2>2. NodeOK'
    <3>1. begun' \in 0..Len(s.batches) /\ begun' > 0
      BY <1>3, <1>6, <2>1
    <3> QED BY <1>2, <1>3, <2>1, <3>1 DEF NodeOK, s, w
  <2>3. FilesFit' /\ ReaderOK'
    <3>1. Len(files) = 1 /\ files' = files
      BY <1>5, <2>1
    <3>2. Onward(segments[1], files[1].words, files[1].words) /\ Quiet(files[1].words, files[1].words)
      BY <1>4, <1>5, <2>1, OnwardStays DEF s, w
    <3>3. torn' = torn /\ torn' \in BOOLEAN
      BY <1>7, <2>1
    <3> QED BY <1>1, <1>2, <1>4, <3>1, <3>2, <3>3, NodeGoesOn
  <2>4. up' \in BOOLEAN
    BY <2>1 DEF IInv
  <2> QED BY <2>2, <2>3, <2>4 DEF IInv
<1>11. ASSUME WriteWord PROVE IInv'
  <2>1. /\ files # <<>> /\ Whole(1) < begun /\ UNCHANGED <<begun, up>>
        /\ torn' = (torn \/ phase = "reading")
    BY <1>11 DEF WriteWord
  <2>2. PICK i \in 1..Used(s, begun) : files' = [files EXCEPT ![1].words[i] = segments[1].words[i]]
    BY <1>11 DEF WriteWord, s
  <2>3. begun > 0 /\ Used(s, begun) \in Nat
    BY <1>3, <1>5, <1>6, <2>1
  <2>4. i \in 1..Len(w) /\ i <= Len(s.words) /\ i \in 1..Len(s.words)
    BY <1>3, <1>5, <1>6, <2>1, <2>3
  <2> DEFINE new == [w EXCEPT ![i] = s.words[i]]
  <2>5. Onward(s, w, new) /\ Len(new) = Len(w)
    BY <1>4, <1>5, <2>1, <2>4, WriteIsOnward DEF s
  <2>6. new \in Seq(Word)
    BY <2>5 DEF Onward, Fits
  <2>7. files' = [files EXCEPT ![1].words = new]
    BY <2>2 DEF s, w
  <2> HIDE DEF new
  <2>8. /\ files' \in Seq(File) /\ Len(files') = 1
        /\ files'[1].words = new /\ files'[1].kind = files[1].kind
    <3>1. Len(files) = 1 /\ 1 \in 1..Len(files)
      BY <1>5, <2>1
    <3>2. files \in Seq(File)
      BY <1>4
    <3> DEFINE x == [files[1] EXCEPT !.words = new]
    <3>3. files[1] \in File
      BY ONLY <3>1, <3>2
    <3>4. x \in File /\ x.words = new /\ x.kind = files[1].kind
      BY <2>6, <3>3 DEF File
    <3>5. files' = [files EXCEPT ![1] = x]
      BY <2>7
    <3> HIDE DEF x
    <3>6. files' \in Seq(File) /\ Len(files') = Len(files) /\ files'[1] = x
      <4>1. x \in File
        BY <3>4
      <4> QED BY ONLY <3>1, <3>2, <3>5, <4>1, ExceptSeq
    <3> QED BY <3>1, <3>4, <3>6
  <2>9. FilesFit' /\ ReaderOK'
    <3>1. Onward(segments[1], files[1].words, files'[1].words)
      BY <2>5, <2>8 DEF s, w
    <3>2. torn' \in BOOLEAN /\ (torn => torn')
      BY <1>7, <2>1
    <3>3. (phase # "reading" => torn' = torn) /\ ~(phase = "reading" /\ ~torn')
      BY <1>7, <2>1
    <3>4. Len(files) = 1
      BY <1>5, <2>1
    <3> QED BY <1>1, <1>2, <2>8, <3>1, <3>2, <3>3, <3>4, NodeGoesOn
  <2>10. NodeOK'
    <3>1. files' # <<>>
      BY <2>8
    <3> QED BY <1>2, <1>3, <2>1, <2>3, <2>5, <2>8, <3>1 DEF NodeOK, s, w
  <2>11. up' \in BOOLEAN
    BY <2>1 DEF IInv
  <2> QED BY <2>9, <2>10, <2>11 DEF IInv
<1>12. ASSUME Finalize \/ Restart PROVE IInv'
  <2>1. /\ files # <<>> /\ torn' = torn /\ up' \in BOOLEAN
        /\ Whole(1) > 0 /\ begun' = Whole(1)
    <3>1. CASE Finalize
      BY <3>1 DEF Finalize, IInv
    <3>2. CASE Restart
      BY <3>2 DEF Restart
    <3> QED BY <1>12, <3>1, <3>2
  <2>2. files' = [files EXCEPT ![1].kind = "closed", ![1].words = SubSeq(@, 1, Used(segments[1], Whole(1)))]
    <3>1. CASE Finalize
      BY <3>1 DEF Finalize
    <3>2. CASE Restart
      BY <3>2 DEF Restart
    <3> QED BY <1>12, <3>1, <3>2
  <2> DEFINE new == SubSeq(w, 1, Used(s, Whole(1)))
  <2>3. Whole(1) \in 1..Len(s.batches) /\ Whole(1) = Most(s, w)
    BY <1>5, <1>6, <2>1
  <2>4. Onward(s, w, new) /\ Quiet(w, new) /\ Len(new) = Used(s, Whole(1))
    <3> DEFINE k == Whole(1)
    <3>1. k \in 1..Len(s.batches) /\ k = Most(s, w)
      BY <2>3
    <3>2. Laid(s) /\ Fits(s, w)
      BY <1>4, <1>5, <2>1 DEF s
    <3> HIDE DEF k
    <3>3. Onward(s, w, SubSeq(w, 1, Used(s, k))) /\ Quiet(w, SubSeq(w, 1, Used(s, k)))
          /\ Len(SubSeq(w, 1, Used(s, k))) = Used(s, k)
      BY <3>1, <3>2, CutIsOnward
    <3> QED BY <3>3 DEF k
  <2>5. new \in Seq(Word)
    BY <2>4 DEF Onward, Fits
  <2>6. /\ files' \in Seq(File) /\ Len(files') = 1
        /\ files'[1].words = new /\ files'[1].kind = "closed"
    <3>1. Len(files) = 1 /\ 1 \in 1..Len(files)
      BY <1>5, <2>1
    <3>2. new = SubSeq(files[1].words, 1, Used(segments[1], Whole(1)))
      BY DEF s, w
    <3>3. files \in Seq(File)
      BY <1>4
    <3> HIDE DEF new
    <3>4. files' = [files EXCEPT ![1].kind = "closed", ![1].words = new]
      <4> DEFINE u == Used(segments[1], Whole(1))
      <4>1. new = SubSeq(files[1].words, 1, u)
        BY <3>2
      <4>2. files' = [files EXCEPT ![1].kind = "closed", ![1].words = SubSeq(@, 1, u)]
        BY <2>2
      <4> HIDE DEF u
      <4> QED BY ONLY <4>1, <4>2
    <3> DEFINE x == [files[1] EXCEPT !.kind = "closed", !.words = new]
    <3>5. files[1] \in File
      BY ONLY <3>1, <3>3
    <3>6. x \in File /\ x.words = new /\ x.kind = "closed"
      BY <2>5, <3>5 DEF File
    <3>7. files' = [files EXCEPT ![1] = x]
      BY <3>4
    <3> HIDE DEF x
    <3>8. files' \in Seq(File) /\ Len(files') = Len(files) /\ files'[1] = x
      <4>1. x \in File
        BY <3>6
      <4> QED BY ONLY <3>1, <3>3, <3>7, <4>1
    <3> QED BY <3>1, <3>6, <3>8
  <2> HIDE DEF new
  <2>7. FilesFit' /\ ReaderOK'
    <3>1. Onward(segments[1], files[1].words, files'[1].words) /\ Quiet(files[1].words, files'[1].words)
      BY <2>4, <2>6 DEF s, w
    <3>2. torn' = torn /\ torn' \in BOOLEAN
      BY <1>7, <2>1
    <3>3. Len(files) = 1
      BY <1>5, <2>1
    <3> QED BY <1>1, <1>2, <2>6, <3>1, <3>2, <3>3, NodeGoesOn
  <2>8. NodeOK'
    <3>1. files' # <<>> /\ Used(s, Whole(1)) <= Len(new)
      <4>1. Used(s, Whole(1)) \in Nat
        BY <1>6, <2>3
      <4> QED BY <2>4, <2>6, <4>1
    <3>2. begun' \in 0..Len(s.batches) /\ begun' # 0
      BY <1>6, <2>1, <2>3
    <3> QED BY <1>2, <1>3, <2>1, <2>6, <3>1, <3>2 DEF NodeOK, s, w
  <2> QED BY <2>1, <2>7, <2>8 DEF IInv
<1>13. ASSUME Crash PROVE IInv'
  <2>1. UNCHANGED <<files, begun, torn>> /\ up' = FALSE
    BY <1>13 DEF Crash
  <2>2. FilesFit' /\ NodeOK'
    BY <1>1, <1>2, <1>4, <2>1 DEF FilesFit, NodeOK
  <2>3. ReaderOK'
    BY <1>2, <2>1 DEF IInv, ReaderOK, Written
  <2> QED BY <2>1, <2>2, <2>3 DEF IInv
<1> QED BY <1>8, <1>9, <1>10, <1>11, <1>12, <1>13

(* What a creator writes: no file has just one word. *)
LEMMA PaddingIs ==
  ASSUME SegmentAssumption, NEW n \in Nat
  PROVE  Padding(n) \in Nat /\ (n = 1 => Padding(n) # 0)
<1>1. Block \in Nat /\ Block >= 2
  BY DEF SegmentAssumption
<1>2. Padding(n) \in 0..(Block - 1)
  BY <1>1 DEF Padding
<1>3. ASSUME n = 1, Padding(n) = 0 PROVE FALSE
  <2>1. (-1) % Block = 0
    BY <1>3 DEF Padding
  <2>2. PICK q \in Int : q = (-1) \div Block
    BY <1>1
  <2>3. -1 = Block * q
    BY <1>1, <2>1, <2>2
  <2>4. CASE q >= 0
    <3>1. Block * q >= 0
      BY <1>1, <2>4
    <3> QED BY <2>3, <3>1
  <2>5. CASE q < 0
    <3>1. PICK p \in Nat : q = -1 - p
      <4>1. -1 - q \in Nat /\ q = -1 - (-1 - q)
        BY <2>5
      <4> QED BY <4>1
    <3>2. Block * q = -Block - Block * p /\ Block * p \in Nat
      BY <1>1, <3>1
    <3> QED BY <1>1, <2>3, <3>2
  <2> QED BY <2>4, <2>5
<1> QED BY <1>1, <1>2, <1>3

LEMMA PaddedFits ==
  ASSUME SegmentAssumption, NEW s \in Segments
  PROVE  /\ Padded(s) \in Seq(Word) /\ Len(Padded(s)) # 1
         /\ Fits(s, Padded(s))
<1>1. Laid(s) /\ s.words \in Seq(Word)
  BY SegmentsLaid DEF Laid
<1>2. PICK n \in Nat : n = Len(s.words)
  BY <1>1
<1>3. PICK p \in Nat : p = Padding(n) /\ (n = 1 => p # 0)
  BY PaddingIs
<1> DEFINE a == s.words
           z == Zeros(p)
<1>4. z \in Seq(Word) /\ Len(z) = p /\ \A i \in 1..p : z[i] = Zero
  BY ZerosAre
<1>5. a \in Seq(Word) /\ Len(a) = n
  BY <1>1, <1>2
<1>6. Padded(s) = a \o z
  BY <1>2, <1>3 DEF Padded
<1> HIDE DEF a, z
<1>7. /\ a \o z \in Seq(Word) /\ Len(a \o z) = Len(a) + Len(z)
      /\ \A i \in 1..Len(a) : (a \o z)[i] = a[i]
      /\ \A i \in 1..Len(z) : (a \o z)[Len(a) + i] = z[i]
  <2>1. a \in Seq(Word) /\ z \in Seq(Word)
    BY <1>4, <1>5
  <2> QED BY <2>1, ConcatIs
<1> DEFINE x == a \o z
<1> HIDE DEF x
<1>8. /\ x \in Seq(Word) /\ Len(x) = n + p
      /\ \A i \in 1..n : x[i] = a[i]
      /\ \A i \in 1..p : x[n + i] = z[i]
  BY <1>4, <1>5, <1>7 DEF x
<1>9. n # 0
  <2>1. 0 \in 0..Len(s.batches)
    BY <1>1 DEF Laid
  <2>2. Used(s, 0) \in Nat /\ 1 <= Used(s, 0) /\ Used(s, 0) <= Len(s.words)
    BY <1>1, <2>1, UsedGrows
  <2> QED BY <1>2, <2>2
<1>10. Len(x) # 1
  BY <1>3, <1>8, <1>9
<1>11. ASSUME NEW i \in 1..Len(x)
       PROVE  x[i] = Zero \/ (i <= Len(s.words) /\ x[i] = s.words[i])
  <2>1. CASE i <= n
    BY <1>2, <1>8, <2>1 DEF a
  <2>2. CASE ~(i <= n)
    <3>1. PICK k \in 1..p : i = n + k
      <4>1. i - n \in 1..p /\ i = n + (i - n)
        BY <1>8, <2>2
      <4> QED BY <4>1
    <3>2. x[i] = Zero
      BY <1>4, <1>8, <3>1
    <3> QED BY <3>2
  <2> QED BY <2>1, <2>2
<1> QED BY <1>6, <1>8, <1>10, <1>11 DEF Fits, x

LEMMA BatchesAreRaftBatches == Seq(Batch) \subseteq Seq(RaftBatch)
<1>1. Entry \subseteq RaftEntry
  BY DEF Entry, RaftEntry, RaftContent
<1>2. \A S, T : S \subseteq T => Seq(S) \subseteq Seq(T)
  OBVIOUS
<1>3. Batch \subseteq RaftBatch
  BY <1>1, <1>2 DEF Batch, RaftBatch
<1> QED BY <1>2, <1>3

LEMMA CreatorKeeps ==
  ASSUME IInv, SegmentAssumption, WriteClosed \/ WriteOpen
  PROVE  IInv'
<1>1. /\ handle = 0 /\ UNCHANGED <<begun, up, reading>>
      /\ todo.closed # <<>> \/ todo.open # <<>>
  <2>1. UNCHANGED <<begun, up, reading>> /\ ~Written
    BY DEF WriteClosed, WriteOpen, Written
  <2> QED BY <2>1 DEF IInv, ReaderOK, Written
<1>2. CreatorOK
  BY <1>1 DEF IInv, NodeOK, NothingLeft
<1>3. ReaderOK'
  BY <1>1 DEF IInv, ReaderOK, reading
<1>4. /\ files \in Seq(File) /\ segments \in Seq(Segments)
      /\ \A f \in 1..Len(files) : Fits(segments[f], files[f].words) /\ Len(files[f].words) # 1
      /\ Len(files) = Len(segments)
  BY <1>2 DEF IInv, FilesFit, CreatorOK
<1>5. PICK n \in Nat : n = Len(files) /\ n = Len(segments)
  BY <1>4
<1>6. /\ todo \in Input
      /\ \A f \in 1..n : files[f].kind = "closed" => Named(f)
      /\ \A f \in 1..n :
           /\ todo.closed # <<>> => files[f].kind = "closed"
           /\ f = n /\ files[f].kind = "closed" => todo.first_index = files[f].end + 1
  BY <1>2, <1>5 DEF CreatorOK
<1>7. ASSUME NEW batches \in Seq(Batch), NEW file \in File,
             segments' = Append(segments, Segment(batches)), files' = Append(files, file),
             file.words = Padded(Segment(batches))
      PROVE  /\ FilesFit' /\ Len(files') = n + 1 /\ Len(segments') = n + 1
             /\ files'[n + 1] = file /\ segments'[n + 1].batches = batches
             /\ \A f \in 1..n : files'[f] = files[f] /\ segments'[f] = segments[f]
  <2> DEFINE s == Segment(batches)
  <2>1. batches \in Seq(RaftBatch)
    BY BatchesAreRaftBatches
  <2>2. s \in Segments /\ s.batches = batches
    BY <2>1, SegmentIs DEF Segments
  <2>3. Padded(s) \in Seq(Word) /\ Len(Padded(s)) # 1 /\ Fits(s, Padded(s))
    BY <2>2, PaddedFits
  <2> HIDE DEF s
  <2>4. /\ segments' \in Seq(Segments) /\ Len(segments') = n + 1 /\ segments'[n + 1] = s
        /\ \A f \in 1..n : segments'[f] = segments[f]
    <3>1. segments \in Seq(Segments) /\ Len(segments) = n /\ segments' = Append(segments, s)
      BY <1>4, <1>5, <1>7 DEF s
    <3>2. s \in Segments
      BY <2>2
    <3> QED BY ONLY <3>1, <3>2, AppendProperties
  <2>5. /\ files' \in Seq(File) /\ Len(files') = n + 1 /\ files'[n + 1] = file
        /\ \A f \in 1..n : files'[f] = files[f]
    <3>1. files \in Seq(File) /\ Len(files) = n /\ files' = Append(files, file) /\ file \in File
      BY <1>4, <1>5, <1>7
    <3> QED BY ONLY <3>1, AppendProperties
  <2>6. ASSUME NEW f \in 1..(n + 1)
        PROVE  Fits(segments'[f], files'[f].words) /\ Len(files'[f].words) # 1
    <3>1. CASE f \in 1..n
      BY <1>4, <1>5, <2>4, <2>5, <3>1
    <3>2. CASE f = n + 1
      BY <1>7, <2>3, <2>4, <2>5, <3>2 DEF s
    <3> QED BY <3>1, <3>2
  <2>7. FilesFit'
    BY <2>4, <2>5, <2>6 DEF FilesFit
  <2> QED BY <2>2, <2>4, <2>5, <2>7
<1>8. ASSUME Len(files') = n + 1, Len(segments') = n + 1,
             \A f \in 1..n : files'[f] = files[f] /\ segments'[f] = segments[f],
             NEW f \in 1..n, files'[f].kind = "closed"
      PROVE  Named(f)'
  <2>1. Named(f)
    BY <1>6, <1>8
  <2>2. \A g \in 1..f : g \in 1..n
    OBVIOUS
  <2> QED BY <1>8, <2>1, <2>2 DEF Named
<1>9. up' \in BOOLEAN
  BY <1>1 DEF IInv
<1>10. CASE WriteClosed
  <2> DEFINE b == Head(todo.closed)
             last_index == todo.first_index + Len(b) - 1
             file == [kind |-> "closed", first |-> todo.first_index,
                      end |-> last_index, words |-> Padded(Segment(b))]
  <2>1. /\ todo.closed # <<>>
        /\ files' = Append(files, file) /\ segments' = Append(segments, Segment(b))
        /\ todo' = [todo EXCEPT !.first_index = last_index + 1, !.closed = Tail(@)]
    BY <1>10 DEF WriteClosed
  <2>2. todo.first_index \in Nat /\ todo.closed \in Seq(Seq(Batch) \ {<<>>}) /\ todo.open \in Seq(Seq(Batch))
    BY <1>6 DEF Input
  <2>3. b \in Seq(Batch) /\ b # <<>> /\ Tail(todo.closed) \in Seq(Seq(Batch) \ {<<>>})
    BY <2>1, <2>2
  <2>4. Len(b) \in Nat \ {0}
    BY <2>3, EmptySeq
  <2>5. Segment(b) \in Segments /\ Padded(Segment(b)) \in Seq(Word)
    <3>1. b \in Seq(RaftBatch)
      BY <2>3, BatchesAreRaftBatches
    <3>2. Segment(b) \in Segments
      BY <3>1 DEF Segments
    <3> QED BY <3>2, PaddedFits
  <2>6. last_index + 1 \in Nat /\ last_index \in Int
    <3>1. PICK a \in Nat, m \in Nat \ {0} : a = todo.first_index /\ m = Len(b)
      BY <2>2, <2>4
    <3>2. a + m - 1 + 1 \in Nat /\ a + m - 1 \in Int
      OBVIOUS
    <3> QED BY <3>1, <3>2
  <2> HIDE DEF b, last_index
  <2>7. file \in File
    BY <2>2, <2>5, <2>6 DEF File
  <2>8. file.words = Padded(Segment(b)) /\ file.kind = "closed" /\ file.first = todo.first_index
        /\ file.end = last_index
    OBVIOUS
  <2> HIDE DEF file
  <2>9. /\ FilesFit' /\ Len(files') = n + 1 /\ Len(segments') = n + 1
        /\ files'[n + 1] = file /\ segments'[n + 1].batches = b
        /\ \A f \in 1..n : files'[f] = files[f] /\ segments'[f] = segments[f]
    BY <1>7, <2>1, <2>3, <2>7, <2>8
  <2>10. /\ todo' \in Input /\ todo'.first_index = last_index + 1
    BY <1>6, <2>1, <2>3, <2>6 DEF Input
  <2>11. \A f \in 1..(n + 1) : files'[f].kind = "closed"
    BY <1>6, <2>1, <2>8, <2>9
  <2>12. Named(n + 1)'
    <3>1. \A g \in 1..(n + 1) : files'[g].kind = "closed"
      BY <2>11
    <3>2. ASSUME NEW g \in 1..(n + 1), n + 1 = g + 1 PROVE files'[n + 1].first = files'[g].end + 1
      <4>1. g = n /\ g \in 1..n
        BY <3>2
      <4>2. todo.first_index = files[n].end + 1
        BY <1>6, <2>1, <4>1
      <4> QED BY <2>8, <2>9, <4>1, <4>2
    <3>3. Len(segments'[n + 1].batches) >= 1
          /\ files'[n + 1].end = files'[n + 1].first + Len(segments'[n + 1].batches) - 1
      BY <2>4, <2>8, <2>9 DEF last_index
    <3> QED BY <3>1, <3>2, <3>3 DEF Named
  <2>13. CreatorOK'
    <3>1. ASSUME NEW f \in 1..(n + 1) PROVE Named(f)'
      <4>1. CASE f \in 1..n
        BY <1>8, <2>9, <2>11, <4>1
      <4>2. CASE f = n + 1
        BY <2>12, <4>2
      <4> QED BY <4>1, <4>2
    <3>2. up' = FALSE /\ begun' = 0
      BY <1>1, <1>2 DEF CreatorOK
    <3>3. Len(files') = Len(segments')
      BY <2>9
    <3>4. ASSUME NEW f \in 1..Len(files')
          PROVE  /\ files'[f].kind = "closed" /\ Named(f)'
                 /\ f = Len(files') => todo'.first_index = files'[f].end + 1
      BY <2>8, <2>9, <2>10, <2>11, <3>1
    <3> QED BY <2>10, <3>2, <3>3, <3>4 DEF CreatorOK
  <2> QED BY <1>3, <1>9, <2>9, <2>13 DEF IInv
<1>11. CASE WriteOpen
  <2> DEFINE b == Head(todo.open)
             file == [kind |-> "open", first |-> 0, end |-> 0, words |-> Padded(Segment(b))]
  <2>1. /\ todo.closed = <<>> /\ todo.open # <<>>
        /\ files' = Append(files, file) /\ segments' = Append(segments, Segment(b))
        /\ todo' = [todo EXCEPT !.open = Tail(@)]
    BY <1>11 DEF WriteOpen
  <2>2. todo.closed \in Seq(Seq(Batch) \ {<<>>}) /\ todo.open \in Seq(Seq(Batch))
    BY <1>6 DEF Input
  <2>3. b \in Seq(Batch) /\ Tail(todo.open) \in Seq(Seq(Batch))
    BY <2>1, <2>2
  <2>5. Segment(b) \in Segments /\ Padded(Segment(b)) \in Seq(Word)
    <3>1. b \in Seq(RaftBatch)
      BY <2>3, BatchesAreRaftBatches
    <3>2. Segment(b) \in Segments
      BY <3>1 DEF Segments
    <3> QED BY <3>2, PaddedFits
  <2> HIDE DEF b
  <2>7. file \in File
    BY <2>5 DEF File
  <2>8. file.words = Padded(Segment(b)) /\ file.kind = "open"
    OBVIOUS
  <2> HIDE DEF file
  <2>9. /\ FilesFit' /\ Len(files') = n + 1 /\ Len(segments') = n + 1
        /\ files'[n + 1] = file
        /\ \A f \in 1..n : files'[f] = files[f] /\ segments'[f] = segments[f]
    BY <1>7, <2>1, <2>3, <2>7, <2>8
  <2>10. todo' \in Input /\ todo'.closed = <<>>
    BY <1>6, <2>1, <2>3 DEF Input
  <2>11. CreatorOK'
    <3>1. up' = FALSE /\ begun' = 0
      BY <1>1, <1>2 DEF CreatorOK
    <3>2. Len(files') = Len(segments')
      BY <2>9
    <3>3. ASSUME NEW f \in 1..Len(files'), files'[f].kind = "closed" PROVE Named(f)' /\ f # Len(files')
      <4>1. f \in 1..n
        BY <2>8, <2>9, <3>3
      <4> QED BY <1>8, <2>9, <3>3, <4>1
    <3> QED BY <2>10, <3>1, <3>2, <3>3 DEF CreatorOK
  <2> QED BY <1>3, <1>9, <2>9, <2>11 DEF IInv
<1> QED BY <1>10, <1>11

LEMMA InitIs ==
  ASSUME Init, SegmentAssumption
  PROVE  IInv
<1>1. /\ files = <<>> /\ begun = 0
      /\ handle = 0 /\ as = "none" /\ pos = 0
      /\ buf = <<>> /\ offset = 0 /\ loaded = <<>>
      /\ phase = "none" /\ start = 0 /\ torn = FALSE
  BY DEF Init
<1>2. ReaderOK
  BY <1>1 DEF ReaderOK
<1>3. files \in Seq(File) /\ Len(files) = 0
  BY <1>1
<1>4. CASE todo = NothingLeft /\ up = TRUE /\ \E log \in Logs : segments = <<Segment(log)>>
  <2>1. PICK log \in Logs : segments = <<Segment(log)>>
    BY <1>4
  <2>2. log \in Seq(RaftBatch)
    BY DEF SegmentAssumption
  <2> DEFINE s == Segment(log)
  <2>3. s \in Segments /\ Len(s.batches) \in Nat
    BY <2>2, SegmentIs DEF Segments
  <2> HIDE DEF s
  <2>4. segments \in Seq(Segments) /\ Len(segments) = 1 /\ segments[1] = s
    <3>1. segments = <<s>>
      BY <2>1 DEF s
    <3> QED BY <2>3, <3>1
  <2>5. FilesFit
    BY <1>3, <2>4 DEF FilesFit
  <2>6. NodeOK
    BY <1>1, <1>3, <1>4, <2>3, <2>4 DEF NodeOK
  <2>7. up \in BOOLEAN
    BY <1>4
  <2> QED BY <1>2, <2>5, <2>6, <2>7 DEF IInv
<1>5. CASE todo \in Inputs /\ up = FALSE /\ segments = <<>>
  <2>1. todo \in Input
    BY <1>5 DEF SegmentAssumption
  <2>2. segments \in Seq(Segments) /\ Len(segments) = 0
    BY <1>5
  <2>3. FilesFit
    BY <1>3, <2>2 DEF FilesFit
  <2>4. CreatorOK
    BY <1>1, <1>3, <1>5, <2>1, <2>2 DEF CreatorOK
  <2>5. up \in BOOLEAN
    BY <1>5
  <2> QED BY <1>2, <2>3, <2>4, <2>5 DEF IInv
<1> QED BY <1>4, <1>5 DEF Init

(* The reader has a file and what it read of it. *)
LEMMA ReaderIs ==
  ASSUME IInv, handle # 0 \/ phase # "none"
  PROVE  /\ handle \in 1..Len(files) /\ as \in {"open", "closed"} /\ pos = Len(buf) /\ Written
         /\ Reading(segments[handle], files[handle].words, buf, offset, loaded, phase, start, torn)
         /\ segments[handle] \in Segments /\ Laid(segments[handle])
         /\ Len(segments[handle].batches) \in Nat
         /\ files[handle].words \in Seq(Word) /\ Len(files[handle].words) \in Nat
         /\ Fits(segments[handle], files[handle].words) /\ Len(files[handle].words) # 1
         /\ Whole(handle) = Most(segments[handle], files[handle].words)
         /\ Whole(handle) \in 0..Len(segments[handle].batches)
         /\ buf \in Seq(Word) /\ Len(buf) \in Nat
<1>1. /\ handle \in 1..Len(files) /\ as \in {"open", "closed"} /\ pos = Len(buf) /\ Written
      /\ Reading(segments[handle], files[handle].words, buf, offset, loaded, phase, start, torn)
  BY Zenon DEF IInv, ReaderOK
<1>2. FilesFit
  BY DEF IInv
<1>3. buf \in Seq(Word) /\ Len(buf) \in Nat
  BY <1>1 DEF Reading, Seen, Fits
<1> QED BY <1>1, <1>2, <1>3, FileIs

LEMMA ReaderKeeps ==
  ASSUME IInv, UNCHANGED writing, Written,
         handle' \in 1..Len(files), as' \in {"open", "closed"}, pos' = Len(buf'),
         Reading(segments[handle'], files[handle'].words, buf', offset', loaded', phase', start', torn')
  PROVE  IInv'
<1>1. UNCHANGED <<segments, files, begun, up, todo>>
  BY DEF writing
<1>2. FilesFit' /\ up' \in BOOLEAN /\ (NodeOK \/ CreatorOK)'
  BY <1>1 DEF IInv, FilesFit, NodeOK, CreatorOK, Named
<1>3. Reading(segments'[handle'], files'[handle'].words, buf', offset', loaded', phase', start', torn')
  BY <1>1, Zenon
<1>4. handle' \in 1..Len(files') /\ as' \in {"open", "closed"} /\ pos' = Len(buf')
  BY <1>1
<1>5. Written'
  BY <1>1 DEF Written
<1>6. ReaderOK'
  BY <1>3, <1>4, <1>5, Zenon DEF ReaderOK
<1> QED BY <1>2, <1>6 DEF IInv

(* A read that begins. *)
LEMMA FreshRead ==
  ASSUME NEW s, Laid(s), NEW file \in Seq(Word), NEW st \in 0..Most(s, file), NEW tn \in BOOLEAN,
         NEW ph \in {"opened", "seek", "reading"},
         ~tn /\ ph = "reading" => \A i \in 1..Len(file) : i > Used(s, st) => file[i] = Zero
  PROVE  Reading(s, file, <<>>, 0, <<>>, ph, st, tn)
<1> DEFINE b == <<>>
           l == <<>>
<1>1. b \in Seq(Word) /\ Len(b) = 0 /\ b = <<>> /\ l \in Seq(Entry) /\ l = <<>>
  OBVIOUS
<1> HIDE DEF b, l
<1>2. ASSUME NEW k \in 1..Len(s.batches) PROVE ~Holds(s, b, k)
  <2>1. k \in 0..Len(s.batches)
    BY DEF Laid
  <2>2. Used(s, k) \in Nat /\ 1 <= Used(s, k)
    BY <2>1, UsedGrows
  <2> QED BY <1>1, <2>2 DEF Holds
<1>3. Seen(s, file, b, ph, st, tn)
  BY <1>1, <1>2 DEF Seen, Fits, Over
<1>4. Made(s, file, b, 0, l, ph, st, tn)
  BY <1>1 DEF Made
<1> QED BY <1>1, <1>3, <1>4 DEF Reading

LEMMA OpenSegmentKeeps ==
  ASSUME IInv, OpenSegment
  PROVE  IInv'
<1>1. /\ phase = "none" /\ Written /\ UNCHANGED writing
      /\ UNCHANGED <<pos, buf, offset, loaded, start, torn>>
      /\ phase' = IF as' = "open" THEN "seek" ELSE "opened"
  BY DEF OpenSegment, ReaderStep
<1>2. PICK f \in DOMAIN files : handle' = f /\ as' = files[f].kind
  BY DEF OpenSegment
<1>3. f \in 1..Len(files) /\ FilesFit
  BY DEF IInv, FilesFit
<1>4. handle = 0
  <2>1. ASSUME handle # 0 PROVE FALSE
    <3>1. Reading(segments[handle], files[handle].words, buf, offset, loaded, phase, start, torn)
      BY <2>1, ReaderIs
    <3> QED BY <1>1, <3>1 DEF Reading, Made
  <2> QED BY <2>1
<1>5. /\ pos = 0 /\ buf = <<>> /\ offset = 0 /\ loaded = <<>> /\ start = 0 /\ torn = FALSE
  <2>1. handle \notin 1..Len(files)
    BY <1>4
  <2> QED BY <2>1, Zenon DEF IInv, ReaderOK
<1>6. /\ files[f] \in File /\ Laid(segments[f]) /\ files[f].words \in Seq(Word)
      /\ 0 \in 0..Most(segments[f], files[f].words)
  <2>1. /\ files[f] \in File /\ Laid(segments[f]) /\ files[f].words \in Seq(Word)
    BY <1>3, FileIs
  <2>2. Most(segments[f], files[f].words) \in 0..Len(segments[f].batches)
    BY <2>1, MostIs
  <2> QED BY <2>1, <2>2
<1>7. as' \in {"open", "closed"} /\ phase' \in {"opened", "seek", "reading"} /\ phase' # "reading"
  BY <1>1, <1>2, <1>6 DEF File
<1>8. Reading(segments[f], files[f].words, <<>>, 0, <<>>, phase', 0, FALSE)
  <2>1. FALSE \in BOOLEAN
    OBVIOUS
  <2> QED BY <1>6, <1>7, <2>1, FreshRead
<1>9. Reading(segments[handle'], files[handle'].words, buf', offset', loaded', phase', start', torn')
  BY <1>1, <1>2, <1>5, <1>8
<1>10. pos' = Len(buf') /\ handle' \in 1..Len(files)
  BY <1>1, <1>2, <1>3, <1>5
<1> QED BY <1>1, <1>7, <1>9, <1>10, ReaderKeeps

LEMMA EntriesKeeps ==
  ASSUME IInv, Entries
  PROVE  IInv'
<1>1. /\ phase \in {"opened", "ok", "error"} /\ phase' = "seek" /\ UNCHANGED writing
      /\ UNCHANGED <<handle, as, pos, buf, offset, loaded, start, torn>>
  BY DEF Entries, ReaderStep
<1> DEFINE s == segments[handle]
           file == files[handle].words
<1>2. /\ handle \in 1..Len(files) /\ as \in {"open", "closed"} /\ pos = Len(buf) /\ Written
      /\ Reading(s, file, buf, offset, loaded, phase, start, torn)
  BY <1>1, ReaderIs
<1> HIDE DEF s, file
<1>3. Reading(s, file, buf, offset, loaded, "seek", start, torn)
  <2>1. Seen(s, file, buf, "seek", start, torn)
    BY <1>2 DEF Reading, Seen, Over
  <2>2. Made(s, file, buf, offset, loaded, "seek", start, torn)
    BY <1>2 DEF Reading, Made
  <2> QED BY <2>1, <2>2 DEF Reading
<1>4. Reading(segments[handle'], files[handle'].words, buf', offset', loaded', phase', start', torn')
  BY <1>1, <1>3 DEF s, file
<1> QED BY <1>1, <1>2, <1>4, ReaderKeeps

LEMMA SeekKeeps ==
  ASSUME IInv, Seek
  PROVE  IInv'
<1>1. /\ phase = "seek" /\ phase' = "reading" /\ UNCHANGED writing
      /\ pos' = 0 /\ buf' = <<>> /\ offset' = 0 /\ loaded' = <<>>
      /\ start' = Whole(handle) /\ torn' = IsTorn(handle)
      /\ UNCHANGED <<handle, as>>
  BY DEF Seek, ReaderStep
<1> DEFINE s == segments[handle]
           file == files[handle].words
<1>2. /\ handle \in 1..Len(files) /\ as \in {"open", "closed"} /\ Written
      /\ Laid(s) /\ file \in Seq(Word) /\ Len(file) \in Nat
      /\ Whole(handle) = Most(s, file) /\ Whole(handle) \in 0..Len(s.batches)
  BY <1>1, ReaderIs
<1>3. /\ torn' \in BOOLEAN /\ start' \in 0..Most(s, file)
      /\ ~torn' => \A i \in 1..Len(file) : i > Used(s, start') => file[i] = Zero
  <2>1. torn' \in BOOLEAN
    BY <1>1 DEF IsTorn
  <2>2. start' \in 0..Most(s, file)
    BY <1>1, <1>2
  <2>3. ASSUME ~torn', NEW i \in 1..Len(file), i > Used(s, start') PROVE file[i] = Zero
    <3>1. i \in DOMAIN file
      BY <1>2
    <3> QED BY <1>1, <2>3, <3>1 DEF IsTorn
  <2> QED BY <2>1, <2>2, <2>3
<1> HIDE DEF s, file
<1>4. Reading(s, file, <<>>, 0, <<>>, "reading", start', torn')
  BY <1>2, <1>3, FreshRead
<1>5. Reading(segments[handle'], files[handle'].words, buf', offset', loaded', phase', start', torn')
  BY <1>1, <1>4 DEF s, file
<1>6. pos' = Len(buf') /\ handle' \in 1..Len(files) /\ as' \in {"open", "closed"}
  BY <1>1, <1>2
<1> QED BY <1>1, <1>2, <1>5, <1>6, ReaderKeeps

LEMMA ReadWordsKeeps ==
  ASSUME IInv, ReadWords
  PROVE  IInv'
<1> DEFINE s == segments[handle]
           file == files[handle].words
<1>1. /\ phase = "reading" /\ UNCHANGED writing
      /\ UNCHANGED <<handle, as, offset, loaded, phase, start, torn>>
  BY DEF ReadWords, ReaderStep
<1>2. PICK p \in (pos + 1)..Len(file) : buf' = buf \o SubSeq(file, pos + 1, p) /\ pos' = p
  BY DEF ReadWords, Words
<1>3. /\ handle \in 1..Len(files) /\ as \in {"open", "closed"} /\ Written
      /\ Laid(s) /\ file \in Seq(Word) /\ Len(file) \in Nat /\ Fits(s, file)
      /\ pos = Len(buf) /\ buf \in Seq(Word) /\ Len(buf) \in Nat
      /\ Reading(s, file, buf, offset, loaded, phase, start, torn)
      /\ Len(s.batches) \in Nat
  BY <1>1, ReaderIs
<1> HIDE DEF s, file
<1>4. PICK n \in Nat : n = Len(buf) /\ n = pos
  BY <1>3
<1>5. p \in Nat /\ n < p /\ p <= Len(file)
  BY <1>2, <1>3, <1>4
<1> DEFINE more == SubSeq(file, n + 1, p)
<1>6. more \in Seq(Word) /\ Len(more) = p - n /\ \A i \in 1..(p - n) : more[i] = file[n + i]
  BY <1>3, <1>5
<1> HIDE DEF more
<1>7. /\ buf' \in Seq(Word) /\ Len(buf') = p
      /\ \A i \in 1..p : buf'[i] = IF i <= n THEN buf[i] ELSE file[i]
  <2>1. /\ buf \o more \in Seq(Word) /\ Len(buf \o more) = Len(buf) + Len(more)
        /\ \A i \in 1..Len(buf) : (buf \o more)[i] = buf[i]
        /\ \A i \in 1..Len(more) : (buf \o more)[Len(buf) + i] = more[i]
    <3>1. buf \in Seq(Word) /\ more \in Seq(Word)
      BY <1>3, <1>6
    <3> QED BY <3>1, ConcatIs
  <2>2. buf' = buf \o more
    BY <1>2, <1>4 DEF more
  <2>3. Len(buf') = p
    BY <1>4, <1>5, <1>6, <2>1, <2>2
  <2>4. ASSUME NEW i \in 1..p PROVE buf'[i] = IF i <= n THEN buf[i] ELSE file[i]
    <3>1. CASE i <= n
      BY <1>4, <2>1, <2>2, <3>1
    <3>2. CASE ~(i <= n)
      <4>1. i - n \in 1..(p - n) /\ n + (i - n) = i
        BY <1>5, <3>2
      <4>2. (buf \o more)[n + (i - n)] = more[i - n]
        BY <1>4, <1>6, <2>1, <4>1
      <4> QED BY <1>6, <2>2, <3>2, <4>1, <4>2
    <3> QED BY <3>1, <3>2
  <2> QED BY <2>1, <2>2, <2>3, <2>4
<1>8. ASSUME NEW i \in 1..p
      PROVE  /\ buf'[i] = Zero \/ (i <= Len(s.words) /\ buf'[i] = s.words[i])
             /\ buf'[i] # Zero => file[i] = buf'[i]
  <2>1. CASE i <= n
    <3>1. i \in 1..Len(buf) /\ buf'[i] = buf[i] /\ i <= Len(file)
      BY <1>3, <1>4, <1>5, <1>7, <2>1
    <3> QED BY <1>3, <3>1 DEF Reading, Seen, Fits
  <2>2. CASE ~(i <= n)
    <3>1. i \in 1..Len(file) /\ buf'[i] = file[i]
      BY <1>3, <1>5, <1>7, <2>2
    <3> QED BY <1>3, <3>1 DEF Fits
  <2> QED BY <2>1, <2>2
<1>9. Fits(s, buf')
  BY <1>7, <1>8 DEF Fits
<1>10. ASSUME NEW k \in 1..Len(s.batches), Holds(s, buf', k) PROVE k <= Most(s, file)
  <2>1. k \in 0..Len(s.batches)
    BY <1>3
  <2>2. Used(s, k) \in Nat /\ Used(s, k) <= p
    BY <1>3, <1>7, <1>10, <2>1, UsedGrows DEF Holds
  <2>3. ASSUME NEW i \in 1..Used(s, k) PROVE file[i] = s.words[i]
    <3>1. i \in 1..p /\ buf'[i] = s.words[i]
      BY <1>5, <1>10, <2>2 DEF Holds
    <3>2. CASE buf'[i] # Zero
      BY <1>8, <3>1, <3>2
    <3>3. CASE buf'[i] = Zero
      <4>1. i \in 1..Len(file) /\ s.words[i] = Zero
        BY <1>3, <1>5, <3>1, <3>3
      <4> QED BY <1>3, <4>1 DEF Fits
    <3> QED BY <3>2, <3>3
  <2>4. Holds(s, file, k)
    BY <1>3, <1>5, <2>2, <2>3 DEF Holds
  <2> QED BY <1>3, <2>4, MostIs
<1>11. start \in 0..Most(s, file) /\ torn \in BOOLEAN /\ Most(s, file) \in 0..Len(s.batches)
  <2>1. start \in 0..Most(s, file) /\ torn \in BOOLEAN
    BY <1>3 DEF Reading, Seen
  <2> QED BY <1>3, <2>1, MostIs
<1>12. ASSUME start > 0, NEW i \in 1..p, i <= Used(s, start) PROVE buf'[i] = s.words[i]
  <2>1. CASE i <= n
    <3>1. i \in 1..Len(buf) /\ buf'[i] = buf[i]
      BY <1>4, <1>7, <2>1
    <3> QED BY <1>3, <1>12, <3>1 DEF Reading, Seen
  <2>2. CASE ~(i <= n)
    <3>1. start \in 1..Len(s.batches) /\ start <= Most(s, file) /\ start \in 0..Len(s.batches)
      BY <1>3, <1>11, <1>12
    <3>2. Holds(s, file, start) /\ Used(s, start) \in Nat
      BY <1>3, <3>1, MostIs, UsedGrows
    <3>3. i \in 1..Used(s, start) /\ buf'[i] = file[i]
      BY <1>7, <1>12, <2>2, <3>2
    <3> QED BY <3>2, <3>3 DEF Holds
  <2> QED BY <2>1, <2>2
<1>13. ASSUME ~torn, NEW i \in 1..p, i > Used(s, start) PROVE buf'[i] = Zero
  <2>1. CASE i <= n
    <3>1. i \in 1..Len(buf) /\ buf'[i] = buf[i]
      BY <1>4, <1>7, <2>1
    <3> QED BY <1>3, <1>13, <3>1 DEF Reading, Seen
  <2>2. CASE ~(i <= n)
    <3>1. i \in 1..Len(file) /\ buf'[i] = file[i]
      BY <1>3, <1>5, <1>7, <2>2
    <3> QED BY <1>1, <1>3, <1>13, <3>1 DEF Reading, Seen
  <2> QED BY <2>1, <2>2
<1>14. Seen(s, file, buf', phase, start, torn)
  <2>1. phase \notin Over
    BY <1>1 DEF Over
  <2>2. file # <<>>
    <3>1. Len(file) # 0
      BY <1>3, <1>5
    <3> QED BY <3>1
  <2>3. ~torn /\ phase = "reading" => \A i \in 1..Len(file) : i > Used(s, start) => file[i] = Zero
    BY <1>3 DEF Reading, Seen
  <2> QED BY <1>7, <1>8, <1>9, <1>10, <1>11, <1>12, <1>13, <2>1, <2>2, <2>3 DEF Seen
<1>15. Made(s, file, buf', offset, loaded, phase, start, torn)
  <2>1. offset = 0 /\ loaded = <<>> /\ loaded \in Seq(Entry)
    BY <1>1, <1>3 DEF Reading, Made
  <2> QED BY <1>1, <1>5, <1>7, <2>1 DEF Made
<1>16. Reading(segments[handle'], files[handle'].words, buf', offset', loaded', phase', start', torn')
  BY <1>1, <1>14, <1>15 DEF Reading, s, file
<1>17. pos' = Len(buf') /\ handle' \in 1..Len(files) /\ as' \in {"open", "closed"}
  BY <1>1, <1>2, <1>3, <1>7
<1> QED BY <1>1, <1>3, <1>16, <1>17, ReaderKeeps

LEMMA EndOfFileKeeps ==
  ASSUME IInv, EndOfFile
  PROVE  IInv'
<1> DEFINE s == segments[handle]
           file == files[handle].words
<1>1. /\ phase = "reading" /\ phase' = "format" /\ UNCHANGED writing
      /\ pos >= Len(file)
      /\ UNCHANGED <<handle, as, pos, buf, offset, loaded, start, torn>>
  BY DEF EndOfFile, ReaderStep, Words
<1>2. /\ handle \in 1..Len(files) /\ as \in {"open", "closed"} /\ Written
      /\ Laid(s) /\ file \in Seq(Word) /\ Len(file) \in Nat /\ Len(file) # 1
      /\ pos = Len(buf) /\ buf \in Seq(Word) /\ Len(buf) \in Nat
      /\ Reading(s, file, buf, offset, loaded, phase, start, torn)
      /\ Len(s.batches) \in Nat
  BY <1>1, ReaderIs
<1> HIDE DEF s, file
<1>3. start \in 0..Most(s, file) /\ Most(s, file) \in 0..Len(s.batches)
  <2>1. start \in 0..Most(s, file)
    BY <1>2 DEF Reading, Seen
  <2> QED BY <1>2, <2>1, MostIs
<1>4. ASSUME start > 0 PROVE Used(s, start) <= Len(buf)
  <2>1. start \in 1..Len(s.batches) /\ start <= Most(s, file) /\ start \in 0..Len(s.batches)
    BY <1>2, <1>3, <1>4
  <2>2. Holds(s, file, start) /\ Used(s, start) \in Nat
    BY <1>2, <2>1, MostIs, UsedGrows
  <2>3. Used(s, start) <= Len(file)
    BY <2>2 DEF Holds
  <2> QED BY <1>1, <1>2, <2>2, <2>3
<1>5. ASSUME buf # <<>> PROVE Len(file) <= Len(buf) /\ Len(buf) >= 2
  <2>1. file # <<>>
    BY <1>2, <1>5 DEF Reading, Seen
  <2>2. Len(file) # 0
    BY <1>2, <2>1, EmptySeq
  <2>3. PICK m \in Nat, n \in Nat : m = Len(file) /\ n = Len(buf)
    BY <1>2
  <2>4. m # 0 /\ m # 1 /\ n >= m
    BY <1>1, <1>2, <2>2, <2>3
  <2> QED BY <2>3, <2>4
<1>6. Seen(s, file, buf, "format", start, torn)
  <2>1. Seen(s, file, buf, phase, start, torn)
    BY <1>2 DEF Reading
  <2> QED BY <1>4, <1>5, <2>1 DEF Seen
<1>7. Made(s, file, buf, offset, loaded, "format", start, torn)
  BY <1>1, <1>2 DEF Reading, Made
<1>8. Reading(segments[handle'], files[handle'].words, buf', offset', loaded', phase', start', torn')
  BY <1>1, <1>6, <1>7 DEF Reading, s, file
<1>9. pos' = Len(buf') /\ handle' \in 1..Len(files) /\ as' \in {"open", "closed"}
  BY <1>1, <1>2
<1> QED BY <1>1, <1>2, <1>8, <1>9, ReaderKeeps

(* No entries of no batch, and the entries of one batch more. *)
LEMMA EntriesToIs ==
  ASSUME NEW s, Laid(s)
  PROVE  /\ EntriesTo(s, 0) = <<>>
         /\ \A k \in 0..Len(s.batches) : EntriesTo(s, k) \in Seq(RaftEntry)
         /\ \A j \in 0..(Len(s.batches) - 1) :
              EntriesTo(s, j + 1) = EntriesTo(s, j) \o s.batches[j + 1]
<1> DEFINE q == s.batches
<1>1. q \in Seq(Seq(RaftEntry))
  <2>1. q \in Seq(RaftBatch)
    BY DEF Laid
  <2>2. RaftBatch \subseteq Seq(RaftEntry)
    BY DEF RaftBatch
  <2>3. \A S, T : S \subseteq T => Seq(S) \subseteq Seq(T)
    OBVIOUS
  <2> HIDE DEF q
  <2> QED BY <2>1, <2>2, <2>3
<1> HIDE DEF q
<1>2. FlattenSeq(SubSeq(q, 1, 0)) = <<>>
  <2>1. SubSeq(q, 1, 0) = <<>>
    BY <1>1
  <2> QED BY <2>1, FlattenEmpty
<1>3. ASSUME NEW j \in 0..(Len(q) - 1)
      PROVE  FlattenSeq(SubSeq(q, 1, j + 1)) = FlattenSeq(SubSeq(q, 1, j)) \o q[j + 1]
  BY <1>1, FlattenPrefix
<1>4. ASSUME NEW k \in 0..Len(q) PROVE FlattenSeq(SubSeq(q, 1, k)) \in Seq(RaftEntry)
  <2>1. SubSeq(q, 1, k) \in Seq(Seq(RaftEntry))
    BY <1>1
  <2> QED BY <2>1, FlatEnds
<1> QED BY <1>2, <1>3, <1>4 DEF q, EntriesTo

LEMMA CheckFormatKeeps ==
  ASSUME IInv, CheckFormat
  PROVE  IInv'
<1> DEFINE s == segments[handle]
           file == files[handle].words
<1>1. /\ phase = "format" /\ UNCHANGED writing
      /\ UNCHANGED <<handle, as, pos, buf, loaded, start, torn>>
  BY DEF CheckFormat, Result, ReaderStep
<1>2. /\ handle \in 1..Len(files) /\ as \in {"open", "closed"} /\ Written
      /\ Laid(s) /\ file \in Seq(Word) /\ Len(file) \in Nat
      /\ pos = Len(buf) /\ buf \in Seq(Word) /\ Len(buf) \in Nat
      /\ Reading(s, file, buf, offset, loaded, phase, start, torn)
      /\ Len(s.batches) \in Nat
  BY <1>1, ReaderIs
<1> HIDE DEF s, file
<1>3. /\ start \in 0..Most(s, file) /\ Most(s, file) \in 0..Len(s.batches)
      /\ Used(s, 0) = 1 /\ s.words[1] = Format
  <2>1. start \in 0..Most(s, file)
    BY <1>2 DEF Reading, Seen
  <2> QED BY <1>2, <2>1, MostIs DEF Laid
<1>4. offset = 0 /\ loaded = <<>> /\ EntriesTo(s, 0) = <<>> /\ loaded \in Seq(Entry)
  BY <1>1, <1>2, EntriesToIs DEF Reading, Made
<1>5. buf # <<>> => Len(buf) >= 2
  BY <1>1, <1>2 DEF Reading, Seen, Over
<1>6. ASSUME start > 0 PROVE 1 \in 1..Len(buf) /\ buf[1] # Zero
  <2>1. start \in 0..Len(s.batches)
    BY <1>2, <1>3
  <2>2. Used(s, start) \in Nat /\ 1 <= Used(s, start)
    BY <1>2, <2>1, UsedGrows
  <2>3. Used(s, start) <= Len(buf) /\ \A i \in 1..Len(buf) : i <= Used(s, start) => buf[i] = s.words[i]
    BY <1>1, <1>2, <1>6 DEF Reading, Seen, Over
  <2>4. 1 \in 1..Len(buf)
    BY <1>2, <2>2, <2>3
  <2>5. buf[1] = Format
    BY <1>3, <2>2, <2>3, <2>4
  <2>6. Format # Zero
    BY DEF Format, Zero
  <2> QED BY <2>4, <2>5, <2>6
<1>7. \A ph \in Over : Seen(s, file, buf, ph, start, torn)
  BY <1>1, <1>2 DEF Reading, Seen, Over
<1>8. DOMAIN buf = 1..Len(buf)
  BY <1>2
<1>9. ASSUME phase' \in Over, Made(s, file, buf, offset', loaded, phase', start, torn)
      PROVE  IInv'
  <2>1. Reading(s, file, buf, offset', loaded, phase', start, torn)
    BY <1>7, <1>9 DEF Reading
  <2>2. Reading(segments[handle'], files[handle'].words, buf', offset', loaded', phase', start', torn')
    BY <1>1, <2>1 DEF s, file
  <2>3. pos' = Len(buf') /\ handle' \in 1..Len(files) /\ as' \in {"open", "closed"}
    BY <1>1, <1>2
  <2> QED BY <1>1, <1>2, <2>2, <2>3, ReaderKeeps
<1>10. CASE AllZero(buf) /\ phase' = "ok" /\ offset' = offset
  <2>1. start = 0
    <3>1. ~(start > 0)
      BY <1>6, <1>8, <1>10 DEF AllZero
    <3> QED BY <1>3, <3>1
  <2>2. AtEnd(s, buf, loaded, 0)
    BY <1>4, <1>8, <1>10 DEF AtEnd, AllZero
  <2>3. 0 \in start..Most(s, file)
    BY <1>2, <1>3, <2>1
  <2>4. Made(s, file, buf, offset', loaded, phase', start, torn)
    BY <1>2, <1>4, <1>10, <2>2, <2>3 DEF Made
  <2> QED BY <1>9, <1>10, <2>4 DEF Over
<1>11. CASE ~AllZero(buf) /\ buf[1] = Zero /\ phase' = "error" /\ offset' = offset
  <2>1. ASSUME ~torn PROVE FALSE
    <3>1. start = 0
      <4>1. ~(start > 0)
        BY <1>6, <1>11
      <4> QED BY <1>3, <4>1
    <3>2. \A i \in 1..Len(buf) : i > 1 => buf[i] = Zero
      BY <1>2, <1>3, <2>1, <3>1 DEF Reading, Seen
    <3>3. \A i \in 1..Len(buf) : buf[i] = Zero
      BY <1>2, <1>11, <3>2
    <3> QED BY <1>8, <1>11, <3>3 DEF AllZero
  <2>2. Refused(s, file, buf, torn)
    BY <2>1 DEF Refused
  <2>3. Made(s, file, buf, offset', loaded, phase', start, torn)
    BY <1>2, <1>4, <1>11, <2>2 DEF Made
  <2> QED BY <1>9, <1>11, <2>3 DEF Over
<1>12. CASE buf # <<>> /\ buf[1] = Format /\ phase' = "batches" /\ offset' = 1
  <2>1. Len(buf) >= 2
    BY <1>5, <1>12
  <2>2. AtBatch(s, buf, 1, loaded, 0)
    <3>1. 1 = Used(s, 0) /\ 1 < Len(buf)
      BY <1>2, <1>3, <2>1
    <3>2. \A i \in 1..1 : buf[i] = s.words[i]
      BY <1>3, <1>12
    <3> QED BY <1>4, <3>1, <3>2 DEF AtBatch
  <2>3. 0 \in 0..Len(s.batches) /\ 1 \in 0..Len(buf)
    BY <1>2, <2>1
  <2>4. Made(s, file, buf, offset', loaded, phase', start, torn)
    BY <1>4, <1>12, <2>2, <2>3 DEF Made
  <2> QED BY <1>9, <1>12, <2>4 DEF Over
<1> QED BY <1>10, <1>11, <1>12 DEF CheckFormat, Result

(* At the end of a batch of the segment, a batch that is not corrupt is the next
   one, and the next one is not corrupt when it is whole. *)
LEMMA BatchThere ==
  ASSUME NEW s, Laid(s), Fits(s, buf), NEW j \in 0..Len(s.batches),
         AtBatch(s, buf, offset, loaded, j)
  PROVE  /\ j < Len(s.batches) /\ Holds(s, buf, j + 1) => At(s.batches[j + 1])
         /\ ~Short /\ ~Corrupt => j < Len(s.batches) /\ Holds(s, buf, j + 1)
<1>1. /\ buf \in Seq(Word) /\ Len(buf) \in Nat
      /\ \A i \in 1..Len(buf) : buf[i] = Zero \/ (i <= Len(s.words) /\ buf[i] = s.words[i])
  BY DEF Fits
<1>2. /\ Len(s.batches) \in Nat /\ Used(s, Len(s.batches)) = Len(s.words) /\ Len(s.words) \in Nat
      /\ s.batches \in Seq(RaftBatch)
  BY DEF Laid
<1>3. PICK o \in Nat : o = Used(s, j) /\ o = offset /\ o < Len(buf)
                       /\ \A i \in 1..o : buf[i] = s.words[i]
  <2>1. Used(s, j) \in Nat
    BY UsedGrows
  <2> QED BY <2>1 DEF AtBatch
<1>4. ASSUME j < Len(s.batches)
      PROVE  \E n \in Nat, l \in Nat :
               /\ BatchLaid(s.batches[j + 1], n, l) /\ s.batches[j + 1] \in RaftBatch
               /\ Used(s, j + 1) = o + (2 + n + l)
               /\ \A i \in 1..(2 + n + l) : s.words[o + i] = BatchWords(s.batches[j + 1])[i]
  <2>1. PICK k \in 1..Len(s.batches) : k = j + 1 /\ k - 1 = j
    <3>1. j + 1 \in 1..Len(s.batches) /\ (j + 1) - 1 = j
      BY <1>2, <1>4
    <3> QED BY <3>1
  <2>2. /\ Used(s, k) = Used(s, k - 1) + Len(BatchWords(s.batches[k]))
        /\ \A i \in 1..Len(BatchWords(s.batches[k])) :
             s.words[Used(s, k - 1) + i] = BatchWords(s.batches[k])[i]
    BY DEF Laid
  <2>3. s.batches[k] \in RaftBatch
    BY <1>2
  <2>4. PICK n \in Nat, l \in Nat : BatchLaid(s.batches[k], n, l)
    BY <2>3, BatchIs
  <2>5. Len(BatchWords(s.batches[k])) = 2 + n + l
    BY <2>4 DEF BatchLaid
  <2>6. Used(s, k - 1) = o
    BY <1>3, <2>1
  <2>7. /\ BatchLaid(s.batches[k], n, l) /\ s.batches[k] \in RaftBatch
        /\ Used(s, k) = o + (2 + n + l)
        /\ \A i \in 1..(2 + n + l) : s.words[o + i] = BatchWords(s.batches[k])[i]
    BY <2>2, <2>3, <2>4, <2>5, <2>6
  <2>8. k = j + 1
    BY <2>1
  <2> QED BY ONLY <2>7, <2>8, n \in Nat, l \in Nat
<1>5. ASSUME j < Len(s.batches), Holds(s, buf, j + 1) PROVE At(s.batches[j + 1])
  <2>1. PICK n \in Nat, l \in Nat :
          /\ BatchLaid(s.batches[j + 1], n, l) /\ s.batches[j + 1] \in RaftBatch
          /\ Used(s, j + 1) = o + (2 + n + l)
          /\ \A i \in 1..(2 + n + l) : s.words[o + i] = BatchWords(s.batches[j + 1])[i]
    BY <1>4, <1>5
  <2>2. Len(BatchWords(s.batches[j + 1])) = 2 + n + l
    BY <2>1 DEF BatchLaid
  <2>3. o + (2 + n + l) <= Len(buf) /\ \A i \in 1..(o + (2 + n + l)) : buf[i] = s.words[i]
    BY <1>5, <2>1 DEF Holds
  <2>4. ASSUME NEW i \in 1..(2 + n + l) PROVE buf[o + i] = BatchWords(s.batches[j + 1])[i]
    <3>1. o + i \in 1..(o + (2 + n + l))
      OBVIOUS
    <3> QED BY <2>1, <2>3, <3>1
  <2> QED BY <1>1, <1>3, <2>1, <2>2, <2>3, <2>4 DEF At
<1>6. ASSUME ~Short, ~Corrupt PROVE j < Len(s.batches) /\ Holds(s, buf, j + 1)
  <2> DEFINE rest == SubSeq(buf, offset + 2, Len(buf))
             checksum == buf[offset + 1]
  <2>1. /\ checksum # Zero /\ checksum.kind = "checksum"
        /\ Len(checksum.of) <= Len(rest)
        /\ SubSeq(rest, 1, Len(checksum.of)) = checksum.of
    BY <1>6 DEF Corrupt
  <2>2. o + 1 \in 1..Len(buf) /\ o + 2 <= Len(buf)
    BY <1>1, <1>3, <1>6 DEF Short
  <2>3. o + 1 <= Len(s.words) /\ checksum = s.words[o + 1]
    BY <1>1, <1>3, <2>1, <2>2
  <2>4. j < Len(s.batches)
    <3>1. ASSUME j = Len(s.batches) PROVE FALSE
      <4>1. o = Len(s.words)
        BY <1>2, <1>3, <3>1
      <4> QED BY <1>2, <2>3, <4>1
    <3> QED BY <1>2, <3>1
  <2>5. PICK n \in Nat, l \in Nat :
          /\ BatchLaid(s.batches[j + 1], n, l) /\ s.batches[j + 1] \in RaftBatch
          /\ Used(s, j + 1) = o + (2 + n + l)
          /\ \A i \in 1..(2 + n + l) : s.words[o + i] = BatchWords(s.batches[j + 1])[i]
    BY <1>4, <2>4
  <2> DEFINE w == BatchWords(s.batches[j + 1])
             b == Rest(s.batches[j + 1])
  <2>6. /\ w[1] = [kind |-> "checksum", of |-> b] /\ b \in Seq(PlainWord) /\ Len(b) = 1 + n + l
        /\ \A i \in 1..(1 + n + l) : w[1 + i] = b[i]
    BY <2>5 DEF BatchLaid
  <2> HIDE DEF w, b
  <2>7. checksum.of = b
    <3>1. 1 \in 1..(2 + n + l)
      OBVIOUS
    <3>2. checksum = [kind |-> "checksum", of |-> b]
      BY <2>3, <2>5, <2>6, <3>1 DEF w
    <3> HIDE DEF checksum
    <3> QED BY <3>2
  <2>8. /\ rest \in Seq(Word) /\ Len(rest) = Len(buf) - o - 1
        /\ \A i \in 1..(Len(buf) - o - 1) : rest[i] = buf[o + 1 + i]
    BY <1>1, <1>3, <2>2
  <2> HIDE DEF rest, checksum
  <2>9. 1 + n + l <= Len(buf) - o - 1 /\ SubSeq(rest, 1, 1 + n + l) = b
    BY <2>1, <2>6, <2>7, <2>8
  <2>10. ASSUME NEW i \in 1..(1 + n + l) PROVE buf[o + 1 + i] = b[i]
    <3>1. PICK m \in Nat : m = 1 + n + l
      OBVIOUS
    <3>2. m <= Len(rest) /\ i \in 1..m /\ i \in 1..(Len(buf) - o - 1)
      BY <1>1, <2>8, <2>9, <3>1
    <3>3. SubSeq(rest, 1, m)[i] = rest[i]
      BY <2>8, <3>2
    <3> QED BY <2>8, <2>9, <3>1, <3>2, <3>3
  <2>11. ASSUME NEW i \in 1..(2 + n + l) PROVE buf[o + i] = s.words[o + i]
    <3>1. CASE i = 1
      BY <2>3, <1>3, <3>1 DEF checksum
    <3>2. CASE i # 1
      <4>1. PICK k \in 1..(1 + n + l) : i = 1 + k
        <5>1. i - 1 \in 1..(1 + n + l) /\ i = 1 + (i - 1)
          BY <3>2
        <5> QED BY <5>1
      <4>2. o + i = o + 1 + k
        BY <4>1
      <4>3. s.words[o + i] = w[i] /\ w[i] = b[k] /\ buf[o + i] = b[k]
        BY <2>5, <2>6, <2>10, <4>1, <4>2 DEF w
      <4> QED BY <4>3
    <3> QED BY <3>1, <3>2
  <2>12. ASSUME NEW i \in 1..(o + (2 + n + l)) PROVE buf[i] = s.words[i]
    <3>1. CASE i <= o
      BY <1>3, <3>1
    <3>2. CASE ~(i <= o)
      <4>1. PICK k \in 1..(2 + n + l) : i = o + k
        <5>1. i - o \in 1..(2 + n + l) /\ i = o + (i - o)
          BY <3>2
        <5> QED BY <5>1
      <4> QED BY <2>11, <4>1
    <3> QED BY <3>1, <3>2
  <2>13. o + (2 + n + l) <= Len(buf)
    BY <1>1, <2>9
  <2> QED BY <2>4, <2>5, <2>12, <2>13 DEF Holds
<1> QED BY <1>5, <1>6

(* An entry is read as it was written, or its command is not known. *)
LEMMA ParseIs ==
  ASSUME SegmentAssumption, NEW entry \in RaftEntry
  PROVE  Parse(Raw(entry)) = IF entry \in Entry THEN {entry.content} ELSE {}
<1> DEFINE c == entry.content
           t == entry_type(c)
           d == Encode(c)
<1>1. entry.term \in Terms /\ c \in RaftContent /\ entry = [term |-> entry.term, content |-> c]
  BY DEF RaftEntry
<1>2. entry \in Entry <=> c \in Content
  BY <1>1 DEF Entry
<1>3. Raw(entry).type = t /\ Raw(entry).data = d
  BY DEF Raw
<1> HIDE DEF c, t, d
<1>4. CASE c \in [type : {"barrier"}, value : {0}]
  <2>1. t = "barrier" /\ d = <<Zero>> /\ c = [type |-> "barrier", value |-> 0]
    BY <1>4 DEF entry_type, Encode, t, d
  <2>2. Len(d) = 1
    BY <2>1
  <2>3. Parse(Raw(entry)) = {[type |-> "barrier", value |-> 0]}
    BY <1>3, <2>1, <2>2 DEF Parse
  <2>4. c \in Content
    BY <1>4 DEF Content
  <2> QED BY <1>2, <2>1, <2>3, <2>4 DEF c
<1>5. CASE c \in [type : {"change"} \cup Command, value : Values]
  <2>1. c.type # "barrier" /\ c = [type |-> c.type, value |-> c.value]
    BY <1>5 DEF Command
  <2>2. t = IF c.type = "change" THEN "change" ELSE "command"
    BY <2>1 DEF entry_type, t
  <2>3. d[1].type = c.type /\ d[1].value = c.value
    BY <2>1 DEF Encode, d
  <2>4. Parse(Raw(entry)) = {[type |-> d[1].type, value |-> d[1].value]}
    <3>1. t = "change" \/ (t = "command" /\ d[1].type \in Command)
      BY <1>5, <2>2, <2>3
    <3>2. t # "barrier"
      BY <2>2
    <3> QED BY <1>3, <3>1, <3>2 DEF Parse
  <2>5. c \in Content
    BY <1>5 DEF Content
  <2> QED BY <1>2, <2>1, <2>3, <2>4, <2>5 DEF c
<1>6. CASE c \in [type : Later, value : Values]
  <2>1. c.type \in Later
    BY <1>6
  <2>2. c.type # "barrier" /\ c.type # "change" /\ c.type \notin Command
    BY <2>1 DEF SegmentAssumption
  <2>3. t = "command"
    BY <2>2 DEF entry_type, t
  <2>4. d[1].type = c.type
    BY <2>2 DEF Encode, d
  <2>5. Parse(Raw(entry)) = {}
    BY <1>3, <2>2, <2>3, <2>4 DEF Parse
  <2>6. c \notin Content
    BY <2>2 DEF Content
  <2> QED BY <1>2, <2>5, <2>6
<1> QED BY <1>1, <1>4, <1>5, <1>6 DEF RaftContent, Content

(* What is true of a read that is at a batch. *)
BatchRead(s, file, j) ==
  /\ handle \in 1..Len(files) /\ s = segments[handle] /\ file = files[handle].words
  /\ as \in {"open", "closed"} /\ Written /\ pos = Len(buf)
  /\ Laid(s) /\ Len(s.batches) \in Nat /\ file \in Seq(Word)
  /\ buf \in Seq(Word) /\ Len(buf) \in Nat /\ Fits(s, buf)
  /\ loaded \in Seq(Entry)
  /\ \A ph \in Over : Seen(s, file, buf, ph, start, torn)
  /\ start \in 0..Most(s, file) /\ Most(s, file) \in 0..Len(s.batches)
  /\ j \in 0..Most(s, file) /\ AtBatch(s, buf, offset, loaded, j)
  /\ Used(s, j) \in Nat
  /\ j > 0 => Holds(s, buf, j)
  /\ start > 0 => Used(s, start) <= Len(buf)
  /\ j < start => At(s.batches[j + 1])

LEMMA BatchReadIs ==
  ASSUME IInv, phase = "batches", NEW s, NEW file,
         s = segments[handle], file = files[handle].words
  PROVE  \E j \in Nat : BatchRead(s, file, j)
<1>1. /\ handle \in 1..Len(files) /\ as \in {"open", "closed"} /\ Written
      /\ Laid(s) /\ file \in Seq(Word) /\ Len(file) \in Nat
      /\ pos = Len(buf) /\ buf \in Seq(Word) /\ Len(buf) \in Nat
      /\ Reading(s, file, buf, offset, loaded, phase, start, torn)
      /\ Len(s.batches) \in Nat
  BY ReaderIs
<1>2. PICK j \in 0..Len(s.batches) : AtBatch(s, buf, offset, loaded, j)
  BY <1>1 DEF Reading, Made
<1>3. loaded \in Seq(Entry) /\ Fits(s, buf) /\ start \in 0..Most(s, file)
  BY <1>1 DEF Reading, Made, Seen
<1>4. \A ph \in Over : Seen(s, file, buf, ph, start, torn)
  BY <1>1 DEF Reading, Seen, Over
<1>5. Most(s, file) \in 0..Len(s.batches)
  BY <1>1, MostIs
<1>6. Used(s, j) \in Nat
  BY <1>1, UsedGrows
<1>7. ASSUME j > 0 PROVE Holds(s, buf, j)
  BY <1>1, <1>2, <1>6 DEF AtBatch, Holds
<1>8. j \in 0..Most(s, file)
  <2>1. CASE j > 0
    <3>1. j \in 1..Len(s.batches)
      BY <1>1, <2>1
    <3>2. j <= Most(s, file)
      BY <1>1, <1>7, <2>1, <3>1 DEF Reading, Seen
    <3> QED BY <1>5, <3>1, <3>2
  <2>2. CASE ~(j > 0)
    BY <1>1, <1>5, <2>2
  <2> QED BY <2>1, <2>2
<1>9. ASSUME start > 0
      PROVE  /\ Used(s, start) <= Len(buf)
             /\ \A i \in 1..Len(buf) : i <= Used(s, start) => buf[i] = s.words[i]
  BY <1>1, <1>9 DEF Reading, Seen, Over
<1>10. ASSUME j < start PROVE At(s.batches[j + 1])
  <2>1. /\ j + 1 \in 0..Len(s.batches) /\ start \in 0..Len(s.batches) /\ j + 1 <= start
        /\ start > 0 /\ j < Len(s.batches)
    BY <1>1, <1>3, <1>5, <1>10
  <2>2. Used(s, j + 1) \in Nat /\ Used(s, start) \in Nat /\ Used(s, j + 1) <= Used(s, start)
    BY <1>1, <2>1, UsedGrows
  <2>3. Holds(s, buf, j + 1)
    <3>1. Used(s, j + 1) <= Len(buf)
      BY <1>1, <1>9, <2>1, <2>2
    <3>2. ASSUME NEW i \in 1..Used(s, j + 1) PROVE buf[i] = s.words[i]
      <4>1. i \in 1..Len(buf) /\ i <= Used(s, start)
        BY <1>1, <2>2, <3>1
      <4> QED BY <1>9, <2>1, <4>1
    <3> QED BY <3>1, <3>2 DEF Holds
  <2> QED BY <1>1, <1>2, <1>3, <2>1, <2>3, BatchThere
<1>11. BatchRead(s, file, j)
  BY <1>1, <1>2, <1>3, <1>4, <1>5, <1>6, <1>7, <1>8, <1>9, <1>10 DEF BatchRead
<1>12. j \in Nat
  OBVIOUS
<1> QED BY <1>11, <1>12

(* The end of a step on a batch. *)
LEMMA BatchKeeps ==
  ASSUME IInv, NEW s, NEW file, NEW j \in Nat, BatchRead(s, file, j),
         UNCHANGED writing, UNCHANGED <<handle, as, pos, buf, start, torn>>,
         phase' \in Over, Made(s, file, buf, offset', loaded', phase', start, torn)
  PROVE  IInv'
<1>1. Seen(s, file, buf, phase', start, torn)
  BY DEF BatchRead
<1>2. Reading(s, file, buf, offset', loaded', phase', start, torn)
  BY <1>1 DEF Reading
<1>3. s = segments[handle'] /\ file = files[handle'].words
  BY DEF BatchRead
<1>4. Reading(segments[handle'], files[handle'].words, buf', offset', loaded', phase', start', torn')
  BY <1>2, <1>3
<1>5. pos' = Len(buf') /\ handle' \in 1..Len(files) /\ as' \in {"open", "closed"} /\ Written
  BY DEF BatchRead
<1> QED BY <1>4, <1>5, ReaderKeeps

LEMMA CorruptBatchKeeps ==
  ASSUME IInv, CorruptBatch
  PROVE  IInv'
<1> DEFINE ended == AllZero(SubSeq(buf, offset + 1, Len(buf)))
<1>1. /\ phase = "batches" /\ Corrupt /\ UNCHANGED writing
      /\ UNCHANGED <<handle, as, pos, buf, start, torn, offset, loaded>>
      /\ phase' = IF ended THEN "ok" ELSE "error"
  BY DEF CorruptBatch, Result, ReaderStep
<1>2. PICK s, file : s = segments[handle] /\ file = files[handle].words
  OBVIOUS
<1>3. PICK j \in Nat : BatchRead(s, file, j)
  BY <1>1, <1>2, BatchReadIs
<1>4. /\ Laid(s) /\ Len(s.batches) \in Nat /\ buf \in Seq(Word) /\ Len(buf) \in Nat
      /\ loaded \in Seq(Entry)
      /\ start \in 0..Most(s, file) /\ Most(s, file) \in 0..Len(s.batches)
      /\ j \in 0..Most(s, file) /\ AtBatch(s, buf, offset, loaded, j)
      /\ j > 0 => Holds(s, buf, j)
  BY <1>3 DEF BatchRead
<1>5. PICK o \in Nat : o = Used(s, j) /\ o = offset /\ o < Len(buf)
  <2>1. Used(s, j) \in Nat
    BY <1>3 DEF BatchRead
  <2> QED BY <1>4, <2>1 DEF AtBatch
<1>6. start <= j
  <2>1. ASSUME j < start PROVE FALSE
    <3>1. At(s.batches[j + 1])
      BY <1>3, <2>1 DEF BatchRead
    <3>2. ~Corrupt
      BY <3>1, BatchIsRead
    <3> QED BY <1>1, <3>2
  <2> QED BY <1>4, <2>1
<1>7. ended <=> \A i \in 1..Len(buf) : i > o => buf[i] = Zero
  <2> DEFINE rest == SubSeq(buf, o + 1, Len(buf))
  <2>1. DOMAIN rest = 1..(Len(buf) - o) /\ \A i \in 1..(Len(buf) - o) : rest[i] = buf[o + i]
    BY <1>4, <1>5
  <2> HIDE DEF rest
  <2>2. ended <=> \A i \in 1..(Len(buf) - o) : buf[o + i] = Zero
    BY <1>5, <2>1 DEF AllZero, rest
  <2>3. ASSUME \A i \in 1..(Len(buf) - o) : buf[o + i] = Zero, NEW i \in 1..Len(buf), i > o
        PROVE  buf[i] = Zero
    <3>1. i - o \in 1..(Len(buf) - o) /\ o + (i - o) = i
      BY <1>4, <2>3
    <3> QED BY <2>3, <3>1
  <2>4. ASSUME \A i \in 1..Len(buf) : i > o => buf[i] = Zero, NEW i \in 1..(Len(buf) - o)
        PROVE  buf[o + i] = Zero
    <3>1. o + i \in 1..Len(buf) /\ o + i > o
      BY <1>4
    <3> QED BY <2>4, <3>1
  <2> HIDE DEF ended
  <2> QED BY <2>2, <2>3, <2>4
<1> HIDE DEF ended
<1>8. offset' \in 0..Len(buf) /\ loaded' \in Seq(Entry) /\ offset' = offset /\ loaded' = loaded
  BY <1>1, <1>4, <1>5
<1>9. CASE ended
  <2>1. AtEnd(s, buf, loaded, j)
    BY <1>4, <1>5, <1>7, <1>9 DEF AtEnd, AtBatch
  <2>2. j \in start..Most(s, file)
    BY <1>4, <1>6
  <2>3. phase' = "ok"
    BY <1>1, <1>9
  <2>4. Made(s, file, buf, offset', loaded', phase', start, torn)
    BY <1>8, <2>1, <2>2, <2>3 DEF Made
  <2> QED BY <1>1, <1>3, <2>3, <2>4, BatchKeeps DEF Over
<1>10. CASE ~ended
  <2>1. ASSUME ~torn PROVE FALSE
    <3>1. \A i \in 1..Len(buf) : i > Used(s, start) => buf[i] = Zero
      BY <1>3, <2>1 DEF BatchRead, Seen, Over
    <3>2. Used(s, start) \in Nat /\ Used(s, start) <= o
      <4>1. start \in 0..Len(s.batches) /\ j \in 0..Len(s.batches)
        BY <1>4
      <4> QED BY <1>4, <1>5, <1>6, <4>1, UsedGrows
    <3>3. ASSUME NEW i \in 1..Len(buf), i > o PROVE buf[i] = Zero
      BY <1>4, <3>1, <3>2, <3>3
    <3> QED BY <1>7, <1>10, <3>3
  <2>2. Refused(s, file, buf, torn)
    BY <2>1 DEF Refused
  <2>3. phase' = "error"
    BY <1>1, <1>10
  <2>4. Made(s, file, buf, offset', loaded', phase', start, torn)
    BY <1>8, <2>2, <2>3 DEF Made
  <2> QED BY <1>1, <1>3, <2>3, <2>4, BatchKeeps DEF Over
<1> QED BY <1>9, <1>10

LEMMA ShortBatchKeeps ==
  ASSUME IInv, ShortBatch
  PROVE  IInv'
<1>1. /\ phase = "batches" /\ Short /\ UNCHANGED writing
      /\ UNCHANGED <<handle, as, pos, buf, start, torn, offset, loaded>>
      /\ phase' = "error"
  BY DEF ShortBatch, Result, ReaderStep
<1>2. PICK s, file : s = segments[handle] /\ file = files[handle].words
  OBVIOUS
<1>3. PICK j \in Nat : BatchRead(s, file, j)
  BY <1>1, <1>2, BatchReadIs
<1>4. /\ Len(buf) \in Nat /\ loaded \in Seq(Entry) /\ j \in 0..Most(s, file)
      /\ Used(s, j) \in Nat /\ offset = Used(s, j) /\ offset < Len(buf)
  BY <1>3 DEF BatchRead, AtBatch
<1>5. Len(buf) = Used(s, j) + 1
  BY <1>1, <1>4 DEF Short
<1>6. Refused(s, file, buf, torn)
  BY <1>4, <1>5 DEF Refused
<1>7. offset' \in 0..Len(buf) /\ loaded' \in Seq(Entry)
  BY <1>1, <1>4
<1>8. Made(s, file, buf, offset', loaded', phase', start, torn)
  BY <1>1, <1>6, <1>7 DEF Made
<1> QED BY <1>1, <1>3, <1>8, BatchKeeps DEF Over

LEMMA LoadBatchKeeps ==
  ASSUME IInv, SegmentAssumption, LoadBatch
  PROVE  IInv'
<1> DEFINE raws == RawEntries
           known == \A e \in DOMAIN raws : Parse(raws[e]) # {}
           more == [e \in DOMAIN raws |-> [term |-> raws[e].term,
                                           content |-> CHOOSE c \in Parse(raws[e]) : TRUE]]
<1>1. /\ phase = "batches" /\ ~Short /\ ~Corrupt /\ UNCHANGED writing
      /\ UNCHANGED <<handle, as, pos, buf, start, torn>>
      /\ offset' = AfterBatch
      /\ known => /\ loaded' = loaded \o more
                  /\ phase' = IF AfterBatch = Len(buf) THEN "ok" ELSE "batches"
      /\ ~known => phase' = "error" /\ loaded' = loaded
  BY DEF LoadBatch, Result, ReaderStep
<1>2. PICK s, file : s = segments[handle] /\ file = files[handle].words
  OBVIOUS
<1>3. PICK j \in Nat : BatchRead(s, file, j)
  BY <1>1, <1>2, BatchReadIs
<1>4. /\ Laid(s) /\ Len(s.batches) \in Nat /\ buf \in Seq(Word) /\ Len(buf) \in Nat /\ Fits(s, buf)
      /\ loaded \in Seq(Entry)
      /\ start \in 0..Most(s, file) /\ Most(s, file) \in 0..Len(s.batches)
      /\ j \in 0..Most(s, file) /\ j \in 0..Len(s.batches)
      /\ AtBatch(s, buf, offset, loaded, j)
      /\ start > 0 => Used(s, start) <= Len(buf)
  BY <1>3 DEF BatchRead
<1>5. j < Len(s.batches) /\ Holds(s, buf, j + 1) /\ At(s.batches[j + 1])
  BY <1>1, <1>4, BatchThere
<1>6. j + 1 \in 1..Len(s.batches) /\ j + 1 \in 0..Len(s.batches) /\ j + 1 \in 1..Most(s, file)
  <2>1. j + 1 \in 1..Len(s.batches) /\ j + 1 \in 0..Len(s.batches)
    BY <1>4, <1>5
  <2>2. j + 1 <= Most(s, file)
    <3>1. "batches" \in Over
      BY DEF Over
    <3>2. Seen(s, file, buf, "batches", start, torn)
      BY <1>3, <3>1 DEF BatchRead
    <3> QED BY <1>5, <2>1, <3>2 DEF Seen
  <2> QED BY <1>4, <2>1, <2>2
<1> DEFINE entries == s.batches[j + 1]
<1>7. PICK n \in Nat : n = Len(entries) /\ entries \in RaftBatch
  <2>1. entries \in RaftBatch
    BY <1>5 DEF At
  <2> HIDE DEF entries
  <2> QED BY <2>1, DataIs
<1>8. /\ entries \in Seq(RaftEntry) /\ DOMAIN entries = 1..n
      /\ \A e \in 1..n : entries[e] \in RaftEntry
  <2> HIDE DEF entries
  <2>1. entries \in Seq(RaftEntry) /\ Len(entries) = n
    BY <1>7 DEF RaftBatch
  <2> QED BY ONLY <2>1
<1>9. raws = [e \in 1..n |-> Raw(entries[e])]
  <2> HIDE DEF entries
  <2>1. At(entries)
    BY <1>5 DEF entries
  <2> QED BY <1>7, <2>1, RawEntriesAre
<1>10. offset' = Used(s, j + 1) /\ Used(s, j + 1) \in Nat /\ Used(s, j + 1) <= Len(buf)
  <2>1. AfterBatch = offset + Len(BatchWords(entries))
    BY <1>5, BatchIsRead
  <2>2. offset = Used(s, j)
    BY <1>4 DEF AtBatch
  <2>3. PICK k \in 1..Len(s.batches) : k = j + 1 /\ k - 1 = j
    <3>1. (j + 1) - 1 = j
      OBVIOUS
    <3> QED BY <1>6, <3>1
  <2>4. Used(s, k) = Used(s, k - 1) + Len(BatchWords(s.batches[k]))
    BY <1>4 DEF Laid
  <2>5. Used(s, j + 1) \in Nat
    BY <1>4, <1>6, UsedGrows
  <2> QED BY <1>1, <1>5, <2>1, <2>2, <2>3, <2>4, <2>5 DEF Holds
<1> HIDE DEF raws, entries
<1>11. ASSUME NEW e \in 1..n
       PROVE  /\ Parse(raws[e]) = IF entries[e] \in Entry THEN {entries[e].content} ELSE {}
              /\ raws[e].term = entries[e].term
  <2>1. raws[e] = Raw(entries[e]) /\ entries[e] \in RaftEntry
    BY <1>8, <1>9
  <2>2. Parse(Raw(entries[e])) = IF entries[e] \in Entry THEN {entries[e].content} ELSE {}
    BY <2>1, ParseIs
  <2>3. Raw(entries[e]).term = entries[e].term
    BY DEF Raw
  <2> QED BY <2>1, <2>2, <2>3
<1>12. DOMAIN raws = 1..n
  BY <1>9
<1>13. known <=> \A e \in 1..n : entries[e] \in Entry
  BY <1>11, <1>12
<1>14. Seen(s, file, buf, "ok", start, torn) /\ offset' \in 0..Len(buf)
  <2>1. "ok" \in Over
    BY DEF Over
  <2>2. Seen(s, file, buf, "ok", start, torn)
    BY <1>3, <2>1 DEF BatchRead
  <2> QED BY <1>4, <1>10, <2>2
<1>15. CASE known
  <2>1. \A e \in 1..n : entries[e] \in Entry
    BY <1>13, <1>15
  <2>2. ASSUME NEW e \in 1..n PROVE more[e] = entries[e]
    <3>1. Parse(raws[e]) = {entries[e].content} /\ raws[e].term = entries[e].term
      BY <1>11, <2>1
    <3>2. (CHOOSE c \in Parse(raws[e]) : TRUE) = entries[e].content
      BY <3>1
    <3>3. more[e] = [term |-> entries[e].term, content |-> entries[e].content]
      BY <1>12, <3>1, <3>2
    <3>4. entries[e] \in Entry
      BY <2>1
    <3> HIDE DEF more
    <3> QED BY <3>3, <3>4 DEF Entry
  <2>3. more = entries
    <3>1. DOMAIN more = 1..n
      BY <1>12
    <3>2. more = [e \in 1..n |-> more[e]]
      BY <1>12
    <3>3. entries = [e \in 1..n |-> entries[e]]
      BY <1>8
    <3> HIDE DEF more
    <3> QED BY <2>2, <3>2, <3>3
  <2>4. entries \in Seq(Entry)
    <3>1. entries \in [1..n -> Entry]
      BY <1>8, <2>1
    <3> QED BY <3>1
  <2>5. loaded' = loaded \o entries
    BY <1>1, <1>15, <2>3
  <2>6. loaded' \in Seq(Entry)
    <3>1. loaded \o entries \in Seq(Entry)
      BY <1>4, <2>4
    <3> QED BY <2>5, <3>1
  <2>7. loaded' = EntriesTo(s, j + 1)
    <3>1. j \in 0..(Len(s.batches) - 1)
      BY <1>4, <1>5
    <3>2. EntriesTo(s, j + 1) = EntriesTo(s, j) \o s.batches[j + 1]
      BY <1>4, <3>1, EntriesToIs
    <3>3. loaded = EntriesTo(s, j)
      BY <1>4 DEF AtBatch
    <3> QED BY <2>5, <3>2, <3>3 DEF entries
  <2>8. ASSUME NEW i \in 1..Used(s, j + 1) PROVE buf[i] = s.words[i]
    BY <1>5 DEF Holds
  <2>9. CASE AfterBatch = Len(buf)
    <3>1. Used(s, j + 1) = Len(buf) /\ phase' = "ok"
      BY <1>1, <1>10, <1>15, <2>9
    <3>2. ASSUME j + 1 < start PROVE FALSE
      <4>1. start \in 0..Len(s.batches) /\ start > 0
        BY <1>4, <3>2
      <4>2. Used(s, start) \in Nat /\ Used(s, j + 1) + 2 <= Used(s, start)
        BY <1>4, <1>6, <3>2, <4>1, UsedGrows
      <4> QED BY <1>4, <1>10, <3>1, <4>1, <4>2
    <3>3. j + 1 \in start..Most(s, file)
      BY <1>4, <1>6, <3>2
    <3>4. AtEnd(s, buf, loaded', j + 1)
      BY <1>4, <1>5, <2>7, <3>1 DEF AtEnd
    <3>5. Made(s, file, buf, offset', loaded', phase', start, torn)
      BY <1>14, <2>6, <3>1, <3>3, <3>4 DEF Made
    <3> QED BY <1>1, <1>3, <3>1, <3>5, BatchKeeps DEF Over
  <2>10. CASE AfterBatch # Len(buf)
    <3>1. Used(s, j + 1) < Len(buf) /\ phase' = "batches"
      BY <1>1, <1>4, <1>10, <1>15, <2>10
    <3>2. AtBatch(s, buf, offset', loaded', j + 1)
      BY <1>10, <2>7, <2>8, <3>1 DEF AtBatch
    <3>3. Made(s, file, buf, offset', loaded', phase', start, torn)
      BY <1>6, <1>14, <2>6, <3>1, <3>2 DEF Made
    <3> QED BY <1>1, <1>3, <3>1, <3>3, BatchKeeps DEF Over
  <2> QED BY <2>9, <2>10
<1>16. CASE ~known
  <2>1. PICK e \in 1..n : entries[e] \notin Entry
    BY <1>13, <1>16
  <2>2. phase' = "error" /\ loaded' = loaded
    BY <1>1, <1>16
  <2>3. Refused(s, file, buf, torn)
    <3>1. e \in 1..Len(s.batches[j + 1]) /\ s.batches[j + 1][e] \notin Entry
      BY <1>7, <2>1 DEF entries
    <3> QED BY <1>6, <3>1 DEF Refused
  <2>4. Made(s, file, buf, offset', loaded', phase', start, torn)
    BY <1>4, <1>14, <2>2, <2>3 DEF Made
  <2> QED BY <1>1, <1>3, <2>2, <2>4, BatchKeeps DEF Over
<1> QED BY <1>15, <1>16

LEMMA StepKeeps ==
  ASSUME IInv, SegmentAssumption, [Next]_vars
  PROVE  IInv'
<1>1. CASE UNCHANGED vars
  <2>1. UNCHANGED <<segments, files, begun, up, todo>>
        /\ UNCHANGED <<handle, as, pos, buf, offset, loaded, phase, start, torn>>
    BY <1>1 DEF vars, writing, reading
  <2> QED BY <2>1 DEF IInv, FilesFit, NodeOK, CreatorOK, Named, ReaderOK, Written
<1>2. CASE ReadStep
  BY <1>2, SeekKeeps, ReadWordsKeeps, EndOfFileKeeps, CheckFormatKeeps, CorruptBatchKeeps,
     ShortBatchKeeps, LoadBatchKeeps DEF ReadStep
<1>3. CASE OpenSegment \/ Entries
  BY <1>3, OpenSegmentKeeps, EntriesKeeps
<1>4. CASE WriteStep
  BY <1>4, NodeKeeps, CreatorKeeps DEF WriteStep
<1>5. CASE Ended
  <2>1. UNCHANGED vars
    BY <1>5 DEF Ended
  <2> QED BY <1>1, <2>1
<1> QED BY <1>1, <1>2, <1>3, <1>4, <1>5 DEF Next

(* The invariant is one. *)
LEMMA Invariant == Spec => []IInv
<1>1. Init => IInv
  BY SegmentAssumption, InitIs
<1>2. IInv /\ [Next]_vars => IInv'
  BY SegmentAssumption, StepKeeps
<1> QED BY <1>1, <1>2, PTL DEF Spec

-----------------------------------------------------------------------------
(* The type invariant: whatever a node writes, cuts or leaves half done, and
   whatever a creator was given, the reader's variables keep to their types and
   DqliteSegment only yields entries the tool knows. *)
THEOREM TypeCorrect == Spec => []TypeOK
<1>1. IInv => TypeOK
  <2> SUFFICES ASSUME IInv PROVE TypeOK
    OBVIOUS
  <2>1. /\ files \in Seq(File) /\ segments \in Seq(Segments) /\ Len(files) <= Len(segments)
        /\ up \in BOOLEAN
    BY DEF IInv, FilesFit
  <2>2. \A f \in DOMAIN files : files[f].kind \in {"open", "closed"}
    <3>1. ASSUME NEW f \in DOMAIN files PROVE files[f] \in File
      BY <2>1
    <3> QED BY <3>1 DEF File
  <2>3. begun \in Nat
    <3>1. CASE NodeOK
      BY <3>1 DEF NodeOK
    <3>2. CASE CreatorOK
      BY <3>2 DEF CreatorOK
    <3> QED BY <3>1, <3>2 DEF IInv
  <2>4. CASE handle # 0
    <3>1. /\ handle \in 1..Len(files) /\ as \in {"open", "closed"} /\ pos = Len(buf)
          /\ Reading(segments[handle], files[handle].words, buf, offset, loaded, phase, start, torn)
          /\ Len(buf) \in Nat
      BY <2>4, ReaderIs
    <3>2. torn \in BOOLEAN /\ start \in 0..Most(segments[handle], files[handle].words)
      BY <3>1 DEF Reading, Seen
    <3>3. /\ offset \in 0..Len(buf) /\ loaded \in Seq(Entry)
          /\ phase \in {"none", "opened", "seek", "reading", "format", "batches", "ok", "error"}
      BY <3>1 DEF Reading, Made
    <3>4. handle \in 0..Len(files) /\ as \in {"none", "open", "closed"} /\ pos \in Nat /\ start \in Nat
      <4>1. \A i : i \in 1..Len(files) => i \in 0..Len(files)
        OBVIOUS
      <4>2. as \in {"none", "open", "closed"} /\ pos \in Nat
        BY <3>1
      <4>3. start \in Nat
        <5>1. \A m, i : i \in 0..m => i \in Nat
          OBVIOUS
        <5> QED BY <3>2, <5>1
      <4> QED BY <3>1, <4>1, <4>2, <4>3
    <3> QED BY <2>1, <2>2, <2>3, <3>2, <3>3, <3>4 DEF TypeOK
  <2>5. CASE handle = 0
    <3>1. /\ as = "none" /\ pos = 0
          /\ buf = <<>> /\ offset = 0 /\ loaded = <<>>
          /\ phase = "none" /\ start = 0 /\ torn = FALSE
      <4>1. handle \notin 1..Len(files)
        BY <2>5
      <4> QED BY <4>1, Zenon DEF IInv, ReaderOK
    <3>2. handle \in 0..Len(files) /\ offset \in 0..Len(buf)
      BY <2>1, <2>5, <3>1
    <3>3. loaded \in Seq(Entry) /\ torn \in BOOLEAN /\ pos \in Nat /\ start \in Nat
      <4>1. loaded \in Seq(Entry) /\ pos \in Nat /\ start \in Nat
        BY <3>1
      <4>2. torn \in BOOLEAN
        BY <3>1, Zenon
      <4> QED BY <4>1, <4>2
    <3> QED BY <2>1, <2>2, <2>3, <3>1, <3>2, <3>3 DEF TypeOK
  <2> QED BY <2>4, <2>5
<1> QED BY <1>1, Invariant, PTL

(* A read of a segment file that succeeds yields whole batches from its start, all
   that were whole when it began, however many calls of read it took and whatever
   the node did between them. *)
THEOREM ReadsAreAtomic == Spec => []ReadIsAtomic
<1>1. IInv => ReadIsAtomic
  <2> SUFFICES ASSUME IInv, phase = "ok"
               PROVE  \E k \in start..Whole(handle) : loaded = EntriesOf(handle, k)
    BY DEF ReadIsAtomic
  <2> DEFINE s == segments[handle]
             file == files[handle].words
  <2>1. Reading(s, file, buf, offset, loaded, phase, start, torn) /\ Whole(handle) = Most(s, file)
    BY ReaderIs
  <2>2. PICK j \in start..Most(s, file) : AtEnd(s, buf, loaded, j)
    BY <2>1 DEF Reading, Made
  <2>3. loaded = EntriesOf(handle, j)
    BY <2>2 DEF AtEnd, EntriesTo, EntriesOf
  <2> QED BY <2>1, <2>2, <2>3
<1> QED BY <1>1, Invariant, PTL

(* A read that succeeds saw each batch with all of its words or with none: the
   checksums leave no part of a batch, of a node that writes or of one that
   crashed, to be taken for the end of the segment. *)
THEOREM TornReadsAreRefused == Spec => []TornIsRefused
<1>1. IInv => TornIsRefused
  <2> DEFINE s == segments[handle]
             file == files[handle].words
             seen(b) == (Used(s, b - 1) + 1)..Used(s, b)
  <2> SUFFICES ASSUME IInv, phase = "ok", NEW b \in DOMAIN s.ends
               PROVE  \/ \A w \in seen(b) : w \in DOMAIN buf /\ buf[w] = s.words[w]
                      \/ \A w \in seen(b) \cap DOMAIN buf : buf[w] = Zero
    BY DEF TornIsRefused
  <2>1. /\ Reading(s, file, buf, offset, loaded, phase, start, torn)
        /\ Laid(s) /\ Len(s.batches) \in Nat /\ file \in Seq(Word)
        /\ buf \in Seq(Word) /\ Len(buf) \in Nat
    BY ReaderIs
  <2> HIDE DEF s, file
  <2>2. PICK j \in start..Most(s, file) : AtEnd(s, buf, loaded, j)
    BY <2>1 DEF Reading, Made
  <2>3. j \in 0..Len(s.batches)
    <3>1. Most(s, file) \in 0..Len(s.batches) /\ start \in 0..Most(s, file)
      BY <2>1, MostIs DEF Reading, Seen
    <3> QED BY <2>1, <2>2, <3>1
  <2>4. b \in 1..Len(s.batches) /\ b \in 0..Len(s.batches) /\ b - 1 \in 0..Len(s.batches)
    <3>1. DOMAIN s.ends = 1..Len(s.batches)
      BY <2>1 DEF Laid
    <3>2. PICK n \in Nat : n = Len(s.batches)
      BY <2>1
    <3>3. b \in 1..n
      BY <3>1, <3>2
    <3> QED BY ONLY <3>2, <3>3
  <2>5. Used(s, b) \in Nat /\ Used(s, b - 1) \in Nat /\ Used(s, j) \in Nat
    BY <2>1, <2>3, <2>4, UsedGrows
  <2>6. DOMAIN buf = 1..Len(buf)
    BY <2>1
  <2>7. CASE b <= j
    <3>1. Used(s, b) <= Used(s, j)
      BY <2>1, <2>3, <2>4, <2>7, UsedGrows
    <3>2. Holds(s, buf, j)
      <4>1. j > 0
        BY <2>3, <2>4, <2>7
      <4> QED BY <2>2, <4>1 DEF AtEnd
    <3>3. ASSUME NEW w \in seen(b) PROVE w \in DOMAIN buf /\ buf[w] = s.words[w]
      <4>1. w \in 1..Used(s, j) /\ Used(s, j) <= Len(buf)
        BY <2>5, <3>1, <3>2 DEF Holds
      <4> QED BY <2>1, <2>5, <2>6, <3>2, <4>1 DEF Holds
    <3> QED BY <3>3
  <2>8. CASE ~(b <= j)
    <3>1. j <= b - 1
      BY <2>3, <2>4, <2>8
    <3>2. Used(s, j) <= Used(s, b - 1)
      BY <2>1, <2>3, <2>4, <3>1, UsedGrows
    <3>3. ASSUME NEW w \in seen(b) \cap DOMAIN buf PROVE buf[w] = Zero
      <4>1. w \in 1..Len(buf) /\ w > Used(s, j)
        BY <2>5, <2>6, <3>2
      <4> QED BY <2>2, <4>1 DEF AtEnd
    <3> QED BY <3>3
  <2> QED BY <2>7, <2>8
<1> QED BY <1>1, Invariant, PTL

(* A file in which there is no part of a batch is refused only for an entry of a
   type that the tool does not know, or for a single word behind the last batch. *)
THEOREM RefusalsHaveAReason == Spec => []RefusedForAReason
<1>1. IInv => RefusedForAReason
  <2> DEFINE s == segments[handle]
             file == files[handle].words
             m == Whole(handle)
             all == EntriesOf(handle, m)
  <2> SUFFICES ASSUME IInv, phase = "error"
               PROVE  \/ torn
                      \/ \E e \in DOMAIN all : all[e] \notin Entry
                      \/ Len(buf) = Used(s, m) + 1
    BY DEF RefusedForAReason
  <2>1. /\ Reading(s, file, buf, offset, loaded, phase, start, torn)
        /\ Laid(s) /\ Len(s.batches) \in Nat /\ file \in Seq(Word) /\ Len(file) \in Nat
        /\ buf \in Seq(Word) /\ Len(buf) \in Nat
        /\ m = Most(s, file) /\ m \in 0..Len(s.batches)
    BY ReaderIs
  <2>2. all = EntriesTo(s, m)
    BY DEF EntriesOf, EntriesTo
  <2> HIDE DEF s, file, m, all
  <2>3. Refused(s, file, buf, torn)
    BY <2>1 DEF Reading, Made
  <2>4. ASSUME NEW j \in 1..m, NEW e \in 1..Len(s.batches[j]), s.batches[j][e] \notin Entry
        PROVE  \E i \in DOMAIN all : all[i] \notin Entry
    <3> DEFINE q == SubSeq(s.batches, 1, m)
    <3>1. q \in Seq(Seq(RaftEntry)) /\ Len(q) = m /\ q[j] = s.batches[j]
      <4>1. s.batches \in Seq(RaftBatch)
        BY <2>1 DEF Laid
      <4>2. q \in Seq(RaftBatch) /\ Len(q) = m /\ q[j] = s.batches[j]
        BY <2>1, <4>1
      <4>3. RaftBatch \subseteq Seq(RaftEntry)
        BY DEF RaftBatch
      <4>4. \A S, T : S \subseteq T => Seq(S) \subseteq Seq(T)
        OBVIOUS
      <4> HIDE DEF q
      <4> QED BY <4>2, <4>3, <4>4
    <3>2. all = FlattenSeq(q)
      BY <2>2 DEF EntriesTo
    <3> HIDE DEF q
    <3>3. j \in 1..Len(q) /\ e \in 1..Len(q[j])
      BY <3>1
    <3>4. /\ FlatEnd(q, j - 1) + e \in 1..Len(FlattenSeq(q))
          /\ FlattenSeq(q)[FlatEnd(q, j - 1) + e] = q[j][e]
      BY <3>1, <3>3, FlattenPlaces
    <3>5. FlattenSeq(q) \in Seq(RaftEntry)
      BY <3>1, FlatEnds
    <3>6. FlatEnd(q, j - 1) + e \in DOMAIN FlattenSeq(q)
      BY <3>4, <3>5
    <3>7. FlattenSeq(q)[FlatEnd(q, j - 1) + e] \notin Entry
      BY <2>4, <3>1, <3>4
    <3> QED BY <3>2, <3>6, <3>7
  <2>5. ASSUME NEW j \in 0..m, Len(buf) = Used(s, j) + 1 PROVE Len(buf) = Used(s, m) + 1
    <3>1. j \in 0..Len(s.batches)
      BY <2>1
    <3>2. Used(s, j) \in Nat /\ Used(s, m) \in Nat /\ 1 <= Used(s, j)
      BY <2>1, <3>1, UsedGrows
    <3>3. buf # <<>>
      BY <2>5, <3>2
    <3>4. Len(file) <= Len(buf)
      BY <2>1, <3>3 DEF Reading, Seen, Over
    <3>5. ASSUME j < m PROVE FALSE
      <4>1. m \in 1..Len(s.batches) /\ m <= m
        BY <2>1, <3>1, <3>5
      <4>2. Holds(s, file, m)
        BY <2>1, <4>1, MostIs
      <4>3. Used(s, m) <= Len(file)
        BY <4>2 DEF Holds
      <4>4. Used(s, j) + 2 <= Used(s, m)
        BY <2>1, <3>1, <3>5, UsedGrows
      <4> QED BY <2>1, <2>5, <3>2, <3>4, <4>3, <4>4
    <3>6. j = m
      BY <2>1, <3>5
    <3> QED BY <2>5, <3>6
  <2> QED BY <2>1, <2>3, <2>4, <2>5 DEF Refused
<1> QED BY <1>1, Invariant, PTL

(* The names that DqliteDirCreator gives closed segments join up, as last_index
   of one is followed by the first index of the next, and they are right as far
   as every batch has one entry. *)
THEOREM NamesAreCounts == Spec => []NamesCountEntries
<1>1. IInv => NamesCountEntries
  <2> DEFINE n == Len(files)
             closed == {f \in DOMAIN files : files[f].kind = "closed"}
  <2> SUFFICES ASSUME IInv, begun = 0
               PROVE  /\ \A f, g \in closed : g = f + 1 => files[g].first = files[f].end + 1
                      /\ (\A f \in closed : OneEntryEach(f)) => NamedRight(WrittenFolder)
    BY DEF NamesCountEntries
  <2>1. /\ files \in Seq(File) /\ DOMAIN files = 1..n /\ n \in Nat /\ FilesFit
    BY DEF IInv, FilesFit
  <2>2. \A f \in closed : Named(f)
    <3>1. CASE NodeOK
      BY <2>1, <3>1 DEF NodeOK
    <3>2. CASE CreatorOK
      BY <2>1, <3>2 DEF CreatorOK
    <3> QED BY <3>1, <3>2 DEF IInv
  <2>3. ASSUME NEW f \in closed, NEW g \in closed, g = f + 1 PROVE files[g].first = files[f].end + 1
    <3>1. f \in 1..g
      BY <2>1, <2>3
    <3> QED BY <2>2, <2>3, <3>1 DEF Named
  <2>4. ASSUME \A f \in closed : OneEntryEach(f) PROVE NamedRight(WrittenFolder)
    <3> DEFINE of(f) == [kind |-> files[f].kind, first |-> files[f].first, end |-> files[f].end,
                         entries |-> FlattenSeq(segments[f].batches)]
               q == [f \in DOMAIN files |-> of(f)]
               S == [kind : {"open", "closed"}, first : Int, end : Int, entries : Seq(RaftEntry)]
               num(k) == NumEntries(SubSeq(q, 1, k))
    <3>1. WrittenFolder.segments = q
      BY DEF WrittenFolder
    <3>2. ASSUME NEW f \in 1..n
          PROVE  /\ of(f) \in S /\ files[f].first \in Int
                 /\ segments[f].batches \in Seq(Seq(RaftEntry))
                 /\ Len(segments[f].batches) \in Nat
      <4>1. files[f] \in File /\ Laid(segments[f])
        BY <2>1, FileIs
      <4> DEFINE b == segments[f].batches
      <4>2. b \in Seq(RaftBatch)
        BY <4>1 DEF Laid
      <4> HIDE DEF b
      <4>3. b \in Seq(Seq(RaftEntry))
        <5>1. RaftBatch \subseteq Seq(RaftEntry)
          BY DEF RaftBatch
        <5>2. \A A, B : A \subseteq B => Seq(A) \subseteq Seq(B)
          OBVIOUS
        <5> QED BY <4>2, <5>1, <5>2
      <4>4. FlattenSeq(b) \in Seq(RaftEntry)
        BY <4>3, FlatEnds
      <4>5. /\ files[f].kind \in {"open", "closed"} /\ files[f].first \in Int
            /\ files[f].end \in Int
        BY <4>1 DEF File
      <4>6. Len(b) \in Nat
        BY <4>2
      <4> QED BY <4>3, <4>4, <4>5, <4>6 DEF b
    <3>3. ASSUME NEW f \in closed
          PROVE  /\ Len(of(f).entries) = Len(segments[f].batches)
                 /\ Len(segments[f].batches) >= 1 /\ f \in 1..n
                 /\ files[f].end = files[f].first + Len(segments[f].batches) - 1
      <4>1. f \in 1..n /\ Named(f) /\ OneEntryEach(f)
        BY <2>1, <2>2, <2>4
      <4> DEFINE b == segments[f].batches
      <4>2. b \in Seq(Seq(RaftEntry)) /\ \A e \in DOMAIN b : Len(b[e]) = 1
        BY <3>2, <4>1 DEF OneEntryEach
      <4> HIDE DEF b
      <4>3. Len(FlattenSeq(b)) = 1 * Len(b)
        <5>1. 1 \in Nat
          OBVIOUS
        <5> QED BY <4>2, <5>1, FlattenEqualLengths
      <4>4. Len(FlattenSeq(b)) = Len(b)
        BY <4>2, <4>3
      <4> QED BY <4>1, <4>4 DEF b, Named
    <3> HIDE DEF of
    <3>4. q \in Seq(S) /\ Len(q) = n /\ DOMAIN q = 1..n /\ \A f \in 1..n : q[f] = of(f)
      <4>1. q \in [1..n -> S] /\ DOMAIN q = 1..n
        BY <2>1, <3>2
      <4>2. \A f \in 1..n : q[f] = of(f)
        BY <2>1
      <4> HIDE DEF q, S
      <4>3. q \in Seq(S) /\ Len(q) = n
        BY <2>1, <4>1
      <4> QED BY <4>1, <4>2, <4>3
    <3>5. \A segment \in S : segment.entries \in Seq(RaftEntry)
      OBVIOUS
    <3>6. \A f \in 1..n : /\ of(f).kind = files[f].kind /\ of(f).first = files[f].first
                          /\ of(f).end = files[f].end
      BY DEF of
    <3> HIDE DEF q, S
    <3>7. ASSUME NEW k \in 1..n
          PROVE  /\ num(k - 1) \in Nat /\ num(0) = 0
                 /\ num(k) = num(k - 1) + Len(of(k).entries)
      <4>1. k \in DOMAIN q
        BY <3>4
      <4>2. /\ NumEntries(SubSeq(q, 1, k - 1)) \in Nat
            /\ NumEntries(SubSeq(q, 1, k)) = NumEntries(SubSeq(q, 1, k - 1)) + Len(q[k].entries)
            /\ NumEntries(SubSeq(q, 1, 0)) = 0
        BY <3>4, <3>5, <4>1, EntriesBefore
      <4> QED BY <3>4, <4>2
    <3> HIDE DEF num
    <3>8. ASSUME NEW s \in closed PROVE files[s].first = files[1].first + num(s - 1)
      <4> DEFINE Bad == {k \in 1..n : k \in closed /\ files[k].first # files[1].first + num(k - 1)}
      <4>1. SUFFICES ASSUME Bad # {} PROVE FALSE
        BY <3>3
      <4>2. PICK k \in Bad : \A i \in Bad : k <= i
        <5>1. Bad \subseteq Nat
          BY <2>1
        <5> HIDE DEF Bad
        <5> QED BY <4>1, <5>1, LeastNumber
      <4>3. k \in 1..n /\ k \in closed /\ files[k].first # files[1].first + num(k - 1)
        OBVIOUS
      <4>4. 1 \in 1..n /\ files[1].first \in Int
        BY <2>1, <3>2, <4>3
      <4>5. k # 1
        <5>1. ASSUME k = 1 PROVE FALSE
          <6>1. num(k - 1) = 0
            BY <3>7, <4>4, <5>1
          <6> QED BY <4>3, <4>4, <5>1, <6>1
        <5> QED BY <5>1
      <4>6. PICK i \in 1..n : k = i + 1 /\ i \in 1..k /\ k - 1 = i /\ ~(k <= i)
        <5>1. k - 1 \in 1..n /\ k = (k - 1) + 1 /\ k - 1 \in 1..k /\ ~(k <= k - 1)
          BY <2>1, <4>3, <4>5
        <5> QED BY <5>1
      <4>7. i \in closed
        BY <2>1, <2>2, <4>3, <4>6 DEF Named
      <4>8. files[i].first = files[1].first + num(i - 1)
        <5>1. i \notin Bad
          <6> HIDE DEF Bad
          <6> QED BY <4>2, <4>6
        <5> QED BY <4>7, <5>1
      <4>9. files[k].first = files[i].end + 1
        BY <2>3, <4>3, <4>6, <4>7
      <4>10. /\ files[i].end = files[i].first + Len(segments[i].batches) - 1
             /\ Len(of(i).entries) = Len(segments[i].batches)
        BY <3>3, <4>7
      <4>11. num(i) = num(i - 1) + Len(of(i).entries) /\ num(i - 1) \in Nat
        BY <3>7
      <4>12. PICK x \in Nat : x = Len(segments[i].batches)
        BY <3>2
      <4>13. files[k].first = files[1].first + num(k - 1)
        <5>1. PICK a \in Int : a = files[1].first
          BY <4>4
        <5>2. PICK p \in Nat : p = num(i - 1)
          BY <4>11
        <5>3. files[i].first = a + p
          BY <4>8, <5>1, <5>2
        <5>4. files[i].end = files[i].first + x - 1
          BY <4>10, <4>12
        <5>5. files[i].end = (a + p) + x - 1
          BY <5>3, <5>4
        <5>6. files[k].first = (a + p) + x
          BY ONLY <4>9, <5>5, a \in Int, p \in Nat, x \in Nat
        <5>7. num(k - 1) = p + x
          <6>1. num(k - 1) = num(i)
            BY <4>6
          <6>2. num(i) = p + x
            BY <4>10, <4>11, <4>12, <5>2
          <6> QED BY <6>1, <6>2
        <5>8. a + (p + x) = (a + p) + x
          OBVIOUS
        <5> QED BY <5>1, <5>6, <5>7, <5>8
      <4> QED BY <4>3, <4>13
    <3>9. ASSUME NEW s \in 1..n, IsClosed(q[s])
          PROVE  /\ q[s].first = RaftIndex(WrittenFolder, s, 1)
                 /\ q[s].end = q[s].first + Len(q[s].entries) - 1
                 /\ q[s].entries # <<>>
      <4>1. s \in closed /\ q[s] = of(s)
        BY <2>1, <3>4, <3>6, <3>9 DEF IsClosed
      <4>2. 1 \in 1..n /\ 1 \in closed /\ 1 \in 1..s
        <5>1. 1 \in 1..n /\ 1 \in 1..s
          BY <2>1
        <5> QED BY <2>1, <2>2, <4>1, <5>1 DEF Named
      <4>3. q[1] = of(1) /\ IsClosed(q[1]) /\ q[1].first = files[1].first
        BY <3>4, <3>6, <4>2 DEF IsClosed
      <4>4. q # <<>>
        BY <3>4, <4>2
      <4>5. RaftStart(WrittenFolder) = files[1].first
        BY <3>1, <4>3, <4>4 DEF RaftStart
      <4>6. RaftIndex(WrittenFolder, s, 1) = files[1].first + num(s - 1) + 1 - 1
        BY <3>1, <4>5 DEF RaftIndex, num
      <4>7. files[1].first \in Int /\ num(s - 1) \in Nat
        BY <3>2, <3>7, <4>2
      <4>8. q[s].first = RaftIndex(WrittenFolder, s, 1)
        <5>1. q[s].first = files[1].first + num(s - 1)
          BY <3>6, <3>8, <4>1
        <5> QED BY <4>6, <4>7, <5>1
      <4>9. /\ Len(of(s).entries) = Len(segments[s].batches) /\ Len(segments[s].batches) >= 1
            /\ files[s].end = files[s].first + Len(segments[s].batches) - 1
        BY <3>3, <4>1
      <4>10. q[s].end = q[s].first + Len(q[s].entries) - 1
        BY <3>6, <4>1, <4>9
      <4>11. q[s].entries # <<>>
        <5>1. Len(q[s].entries) >= 1
          BY <4>1, <4>9
        <5> QED BY <5>1
      <4> QED BY <4>8, <4>10, <4>11
    <3> QED BY <3>1, <3>4, <3>9 DEF NamedRight
  <2> QED BY <2>3, <2>4
<1> QED BY <1>1, Invariant, PTL
=============================================================================
