---------------------------- MODULE MCAgentRunTools ----------------------------
(* Small instances of AgentRunTools: a publication (approved, synchronous, its   *)
(* outcome may be unknown), an image operation (approved, deferred) and a lookup *)
(* (no effect, no approval).                                                     *)
EXTENDS AgentRunTools
CONSTANTS publish, image, lookup
=============================================================================
