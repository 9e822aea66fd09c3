------------------------ MODULE MCKnowledgeLearning ------------------------
(* Instances of KnowledgeLearning for TLC.                                 *)
EXTENDS KnowledgeLearning
CONSTANTS m1, m2, e1, c1, f1, x1, x2

\* The edits e1 of the message m1 and f1 of the plain source c1; the receipt
\* x1 bound to m1, x2 to e1.
MCReplaces == [j \in {e1, f1} |-> IF j = e1 THEN m1 ELSE c1]
MCOneSource == [x \in {x1} |-> m1]
MCSourceOf == [x \in {x1, x2} |-> IF x = x1 THEN m1 ELSE e1]
=============================================================================
