--------------------------- MODULE MCRuntimeSession --------------------------
(* A small instance of RuntimeSession: one read-only call and two calls that *)
(* need approval, the last two sharing an idempotency key.                   *)
EXTENDS RuntimeSession, TLC

CONSTANTS w1, w2, read, write, rewrite, gw, gr, kr, kw

MCCalls == {read, write, rewrite}
MCKeyOf == (read :> kr) @@ (write :> kw) @@ (rewrite :> kw)
MCNeedsGrant == (read :> FALSE) @@ (write :> TRUE) @@ (rewrite :> TRUE)
MCGrantFor == (gw :> write) @@ (gr :> rewrite)
MCWorstCost == (read :> 1) @@ (write :> 2) @@ (rewrite :> 2)
=============================================================================
