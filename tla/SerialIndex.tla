---------------------------- MODULE SerialIndex ----------------------------
(***************************************************************************)
(* What the ingestion pipeline promises: an index in which files are       *)
(* ingested one at a time, each in a single step.  Ingest shows which      *)
(* deployments of the real, concurrent pipeline keep the promise.          *)
(***************************************************************************)
EXTENDS IngestRules

VARIABLES
  row,     \* documents: the row of each file, or NoRow
  chunks,  \* chunks: the chunks of each file
  cache    \* extraction_cache: the parse stored for each digest, or "none"

vars == <<row, chunks, cache>>

Init ==
  /\ row = [d \in Docs |-> NoRow]
  /\ chunks = [d \in Docs |-> {}]
  /\ cache = [c \in Contents |-> "none"]

\* A slip: replace_chunks does not delete what is there.
StoreKeepsChunks(d, c, m) ==
  \E parse \in {Parse[d][c], cache[c]} \cap Parsed :
    /\ row' = [row EXCEPT ![d] = Row(c, StatusOf(parse), m)]
    /\ chunks' = [chunks EXCEPT ![d] = @ \cup ChunksOf(parse, c, m)]
    /\ cache' = [cache EXCEPT ![c] = CachePut(@, parse)]

\* The file is extracted, chunked, embedded and stored.  The parse is the
\* file's own or the cached parse of the same bytes.
Store(d, c, m) ==
  \E parse \in {Parse[d][c], cache[c]} \cap Parsed :
    /\ row' = [row EXCEPT ![d] = Row(c, StatusOf(parse), m)]
    /\ chunks' = [chunks EXCEPT ![d] = ChunksOf(parse, c, m)]
    /\ cache' = [cache EXCEPT ![c] = CachePut(@, parse)]

\* The file cannot be extracted: that is recorded, and its chunks stay.
Reject(d, c, m) ==
  /\ Parse[d][c] \notin Parsed
  /\ row' = [row EXCEPT ![d] = Row(c, RejectStatus(Parse[d][c]), m)]
  /\ UNCHANGED <<chunks, cache>>

\* An unchanged file leaves the index as it is, which is a stuttering step.
Next ==
  \E d \in Docs, c \in Contents, m \in Models :
    /\ ~IsUnchanged(row[d], c, m)
    /\ Store(d, c, m) \/ Reject(d, c, m)

Spec == Init /\ [][Next]_vars

-----------------------------------------------------------------------------

TypeOK ==
  /\ row \in [Docs -> Rows \cup {NoRow}]
  /\ chunks \in [Docs -> ChunkSets]
  /\ cache \in [Contents -> Parsed \cup {"none"}]

\* What a settled row says is what is stored: an "indexed" file has exactly
\* the chunks of its recorded bytes under its recorded model, or none because
\* some parse of these bytes is a spreadsheet; a "pending" file has none; no
\* committed row is still "extracting".  (The short-circuit of
\* ingest_document trusts these three columns and looks at nothing else.)
Coherent ==
  \A d \in Docs :
    /\ row[d].status = "indexed" =>
         \/ chunks[d] = ChunksOf("text", row[d].hash, row[d].model)
         \/ /\ chunks[d] = {}
            /\ "sheets" \in {Parse[d][row[d].hash], cache[row[d].hash]}
    /\ row[d].status = "pending" => chunks[d] = {}
    /\ row[d].status # "extracting"
    /\ row[d] = NoRow => chunks[d] = {}

=============================================================================
