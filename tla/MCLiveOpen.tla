----------------------------- MODULE MCLiveOpen -----------------------------
(* LiveOpen with four entries in up to four open segments, two at a time: enough
   for a snapshot, a removal and a second snapshot beside an open segment. *)
EXTENDS LiveOpen
=============================================================================
