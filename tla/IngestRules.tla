---------------------------- MODULE IngestRules ----------------------------
(***************************************************************************)
(* The decisions of go2/jobs/ingest.py that do not depend on who else is   *)
(* running: what a row of documents looks like, when a file counts as      *)
(* unchanged, what an extraction leads to.  The concurrent pipeline        *)
(* (Ingest) and the sequential index it should behave like (SerialIndex)   *)
(* are both built from them.                                               *)
(*                                                                         *)
(* One tenant and one source: a document is its external_id, the bytes of  *)
(* a file are an element of Contents, and a SHA-256 digest is the bytes it *)
(* digests.                                                                *)
(***************************************************************************)

CONSTANTS
  Docs,      \* external ids of the files of one tenant and source
  Contents,  \* byte strings a file may hold; also their digests
  Models,    \* values of Settings.active_embedding_model
  Parse      \* Parse[d][c]: what the extractor d's filename selects makes of c

\* What an extraction that returns has produced.
\*   text    blocks that give at least one chunk
\*   sheets  worksheets and no prose (.csv, .xlsx)
\*   scan    only pages waiting for OCR
\*   blank   nothing at all
Parsed == {"text", "sheets", "scan", "blank"}

\* ... and how it ends otherwise: no extractor for the name, or the
\* extractor raised on these bytes.
Outcomes == Parsed \cup {"unsupported", "corrupt"}

ASSUME ParseAssumption == Parse \in [Docs -> [Contents -> Outcomes]]

-----------------------------------------------------------------------------

\* The doc_status enum.
Statuses == {"pending", "extracting", "indexed", "failed", "skipped"}

\* _SETTLED
Settled == {"indexed", "skipped", "pending"}

\* A row of documents: the columns ingestion decides by.
Rows  == [hash : Contents, status : Statuses, model : Models]
NoRow == [status |-> "absent"]
Row(c, s, m) == [hash |-> c, status |-> s, model |-> m]

\* The chunks of one document, by the bytes they were cut from and the model
\* that made their vectors; every chunk of one pass has the same pair.
ChunkSets == SUBSET [content : Contents, model : Models]

\* A slip for the runs to catch: the model is not part of "unchanged".
SameBytes(prev, c, m) ==
  /\ prev # NoRow
  /\ prev.hash = c
  /\ prev.status \in Settled

\* The short-circuit of ingest_document: prev already settles bytes c under
\* embedding model m.
IsUnchanged(prev, c, m) ==
  /\ prev # NoRow
  /\ prev.hash = c
  /\ prev.status \in Settled
  /\ prev.model = m

\* replace_chunks with what chunk_blocks and embed_documents made of a parse.
ChunksOf(parse, c, m) ==
  IF parse = "text" THEN {[content |-> c, model |-> m]} ELSE {}

\* A slip: a text that still has pages to OCR is "pending", chunks or not.
PendingWithPages(parse) ==
  CASE parse = "blank"            -> "skipped"
    [] parse \in {"text", "scan"} -> "pending"
    [] OTHER                      -> "indexed"

\* The status that follows a parse: no chunk, no sheet and no page to OCR is
\* "skipped"; pages to OCR and no chunk is "pending"; the rest is "indexed".
StatusOf(parse) ==
  CASE parse = "blank" -> "skipped"
    [] parse = "scan"  -> "pending"
    [] OTHER           -> "indexed"

\* The status recorded when extract() raised.
RejectStatus(outcome) == IF outcome = "unsupported" THEN "skipped" ELSE "failed"

\* put_cached_extraction: ON CONFLICT (content_hash) DO NOTHING.
CachePut(entry, parse) == IF entry = "none" THEN parse ELSE entry

=============================================================================
