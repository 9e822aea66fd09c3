--------------------------- MODULE MCKnowledgeWiki ---------------------------
(* One document and one page that depend on each other: the page's claim    *)
(* cites the document's direct entry, the document quotes the claim.        *)
EXTENDS KnowledgeWiki, TLC

CONSTANTS memory, pricing, tool, curator

MCDocs == {memory}
MCPages == {pricing}
MCCites == pricing :> memory
MCEditors == {tool, curator}
MCCurators == {curator}
MCChanges == tool :> {"memory"} @@ curator :> {"page"}
=============================================================================
