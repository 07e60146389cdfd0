------------------------------ MODULE MCSession -----------------------------
(***************************************************************************)
(* Session with three indexes and three databases: one that changes at     *)
(* every index, one that is created at the second and one that is deleted  *)
(* at the third; only two fit into the connection.                         *)
(***************************************************************************)
EXTENDS Session, TLC

CONSTANTS a, b, c

MCNames == <<a, b, c>>
MCPin == (a :> (2 :> 2 @@ 3 :> 3 @@ 4 :> 4))
         @@ (b :> (2 :> 0 @@ 3 :> 3 @@ 4 :> 3))
         @@ (c :> (2 :> 0 @@ 3 :> 3 @@ 4 :> 0))
MCAsked == {1, 2, 3, 4}
=============================================================================
