------------------------ MODULE MCThreadsPublication ------------------------
(***************************************************************************)
(* Two items, and two calls of one Run or of two.                          *)
(***************************************************************************)
EXTENDS ThreadsPublication, TLC

CONSTANTS v1, v2, r1, r2

MCSelections == {{2}, {1, 2}}
MCSharing == {[v \in Invocations |-> r1], (v1 :> r1 @@ v2 :> r2)}
=============================================================================
