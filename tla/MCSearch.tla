------------------------------ MODULE MCSearch ------------------------------
(* An instance of Search for TLC: two files that are readable in one version *)
(* and broken in another, and one that is always readable.                   *)
EXTENDS Search

CONSTANTS pdf, doc, txt, c1, c2

MCParse ==
  [d \in Docs |-> [c \in Contents |-> IF c = c2 /\ d # txt THEN "corrupt" ELSE "text"]]
=============================================================================
