------------------------------ MODULE MCIngest ------------------------------
(***************************************************************************)
(* Small instances of Ingest.  Files are told apart by what the extractor  *)
(* their name selects makes of each byte string:                           *)
(*                     pdf      csv          xyz          txt              *)
(*   c1 (text)         text     sheets       unsupported  text             *)
(*   c2 (broken)       corrupt  sheets       unsupported  text             *)
(*   c3 (page image)   scan     blank        unsupported  blank            *)
(***************************************************************************)
EXTENDS Ingest, TLC

CONSTANTS pdf, csv, xyz, txt, c1, c2, c3, p1, p2

Suffix(d) ==
  CASE d = pdf -> [c \in {c1, c2, c3} |->
                     CASE c = c1 -> "text" [] c = c2 -> "corrupt" [] c = c3 -> "scan"]
    [] d = csv -> [c \in {c1, c2, c3} |-> IF c = c3 THEN "blank" ELSE "sheets"]
    [] d = xyz -> [c \in {c1, c2, c3} |-> "unsupported"]
    [] d = txt -> [c \in {c1, c2, c3} |-> IF c = c3 THEN "blank" ELSE "text"]

MCParse == [d \in Docs |-> [c \in Contents |-> Suffix(d)[c]]]

\* p1 ingests one file and p2 the other, or both ingest everything.
Disjoint == (p1 :> {pdf}) @@ (p2 :> Docs \ {pdf})
Shared   == [p \in Procs |-> Docs]

=============================================================================
