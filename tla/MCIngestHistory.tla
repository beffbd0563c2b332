-------------------------- MODULE MCIngestHistory --------------------------
EXTENDS IngestHistory

CONSTANTS pdf, c1, c2, c3

\* A .pdf whose bytes are text, broken, or a page image.
MCParse ==
  [d \in Docs |-> [c \in Contents |->
     CASE c = c1 -> "text" [] c = c2 -> "corrupt" [] c = c3 -> "scan"]]

\* Every process ingests every file.
Shared == [p \in Procs |-> Docs]

=============================================================================
