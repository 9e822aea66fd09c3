------------------------- MODULE MCDeferredWorkers -------------------------
(***************************************************************************)
(* Two Trace posts in two lanes, or two edits with a repair and a          *)
(* reviewer, and one fault anywhere.  The tables share nothing but the     *)
(* bound on faults, so Mixed is FALSE here: interleaving them would        *)
(* multiply the states and show nothing that each does not.                *)
(***************************************************************************)
EXTENDS DeferredWorkers

CONSTANTS t1, t2, editor, reviewer

MCImages == {3, 4}
MCLanes == {t1, t2}
=============================================================================
