---------------------------- MODULE MCSegmentFile ---------------------------
(***************************************************************************)
(* SegmentFile with three logs of two batches, one of them with an entry   *)
(* of a later version of dqlite; open segments that end with the last      *)
(* batch, one word behind it and further; creators of up to two closed and *)
(* two open segments, with batches of one and of two entries.              *)
(***************************************************************************)
EXTENDS SegmentFile

E(term, type) == [term |-> term,
                  content |-> [type |-> type, value |-> IF type = "barrier" THEN 0 ELSE 1]]

MCLogs == {<<<<E(1, "barrier")>>, <<E(1, "frames"), E(2, "barrier")>>>>,
           <<<<E(1, "frames")>>, <<E(1, "change")>>>>,
           <<<<E(1, "undo")>>, <<E(2, "future")>>>>}

Empty == <<>>

One == add_entries(Empty, <<E(1, "barrier"), E(1, "open")>>)
Two == add_entries(Empty, <<E(2, "checkpoint")>>)
Both == add_batch(Empty, <<E(1, "frames"), E(1, "undo")>>)

MCClosed == {<<>>, <<One>>, <<One, Two>>, <<Both, Two>>}

MCOpen == {<<>>, <<add_entries(Two, <<E(2, "frames")>>)>>, <<Empty, One>>}

MCInputs == {[first_index |-> i, closed |-> c, open |-> o] :
               i \in {1, 1000}, c \in MCClosed, o \in MCOpen}
=============================================================================
