-------------------------- MODULE MCKnowledgeErase --------------------------
(* A claim rests on one source and a memory on the claim; another memory of *)
(* the same document rests on the other source.                             *)
EXTENDS KnowledgeErase, TLC

CONSTANTS s1, s2, c1, e1, e2, p, d, t

MCSupport == c1 :> {s1} @@ e1 :> {c1} @@ e2 :> {s2}
MCOwnerOf == c1 :> p @@ e1 :> d @@ e2 :> d
MCShares == t :> {p}
==============================================================================
