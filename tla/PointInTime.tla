----------------------------- MODULE PointInTime ----------------------------
(***************************************************************************)
(* What opening a dqlite folder promises: the databases of the node at     *)
(* every log index.  While the folder is loaded, a page written by entry t *)
(* becomes visible at every index from t on and at none before; writes come*)
(* in log order, so the past never changes.  Once loaded, the timeline is  *)
(* fixed: a user selects an index and opens a database, and the file he    *)
(* gets is the image of that database at the index selected when he opened *)
(* it, whatever is selected later.                                         *)
(***************************************************************************)
EXTENDS Integers

CONSTANTS Database,     \* database names
          PageNumber,   \* page numbers; page 1 holds the database header
          Content,      \* page contents
          NoPage,       \* what is read where there is no page
          Size,         \* the database size found in a first page
          MaxIndex      \* the largest log index

Index == 0..MaxIndex

Key == Database \X PageNumber

VARIABLES serving,   \* the folder is loaded
          now,       \* the log index that is being replayed
          image,     \* what is at every index
          selected,  \* the index that is selected
          handles    \* the open database files, with what they read

vars == <<serving, now, image, selected, handles>>

Blank == [i \in Index |-> [k \in Key |-> NoPage]]

ImageOf(name, i) == [p \in PageNumber |-> image[i][<<name, p>>]]

Exists(name, i) ==
  /\ image[i][<<name, 1>>] # NoPage
  /\ Size[image[i][<<name, 1>>]] > 0

Init ==
  /\ serving = FALSE
  /\ now = 0
  /\ image = Blank
  /\ selected = 0
  /\ handles = {}

(* Replay moves on to a later log index. *)
Advance ==
  /\ ~serving
  /\ now' \in Nat
  /\ now' > now
  /\ UNCHANGED <<serving, image, selected, handles>>

(* The entry at index now writes one page. *)
Write(k, data) ==
  /\ ~serving
  /\ image' = [i \in Index |->
                 IF i >= now THEN [image[i] EXCEPT ![k] = data] ELSE image[i]]
  /\ UNCHANGED <<serving, now, selected, handles>>

(* Loading failed; the next attempt starts from nothing. *)
GiveUp ==
  /\ ~serving
  /\ now' = 0
  /\ image' = Blank
  /\ UNCHANGED <<serving, selected, handles>>

Serve(i) ==
  /\ ~serving
  /\ serving' = TRUE
  /\ selected' = i
  /\ UNCHANGED <<now, image, handles>>

Select(i) ==
  /\ serving
  /\ selected' = i
  /\ UNCHANGED <<serving, now, image, handles>>

Open(name) ==
  /\ serving
  /\ Exists(name, selected)
  /\ handles' = handles \cup {[name |-> name, content |-> ImageOf(name, selected)]}
  /\ UNCHANGED <<serving, now, image, selected>>

Close(h) ==
  /\ serving
  /\ handles' = handles \ {h}
  /\ UNCHANGED <<serving, now, image, selected>>

Next ==
  \/ Advance
  \/ \E k \in Key, data \in Content : Write(k, data)
  \/ GiveUp
  \/ \E i \in Index : Serve(i) \/ Select(i)
  \/ \E name \in Database : Open(name)
  \/ \E h \in handles : Close(h)

Spec == Init /\ [][Next]_vars
=============================================================================
