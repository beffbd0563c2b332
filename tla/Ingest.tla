------------------------------- MODULE Ingest -------------------------------
(***************************************************************************)
(* go2/jobs/ingest.py run by several processes against one Postgres: the   *)
(* background workers, `go2 ingest` and `go2 sync`.  Each file is handled  *)
(* in one READ COMMITTED transaction (storage/db.py, connect), after its   *)
(* bytes were read outside it.                                             *)
(*                                                                         *)
(* row, chunks and cache are the committed database.  What a transaction   *)
(* has written and not committed is in tx[p], together with the locks it   *)
(* holds: the row lock upsert_document takes, and the key of an inserted   *)
(* extraction_cache row, on which another INSERT of the same key waits.    *)
(*                                                                         *)
(* The transactions of `go2 ingest` also hold the row of their connection  *)
(* from the start (see Workspace), which only removes interleavings from   *)
(* those of this module; workers and `go2 sync` do not.                    *)
(***************************************************************************)
EXTENDS IngestRules

CONSTANTS
  Procs,     \* processes that ingest
  Assigned   \* Assigned[p]: the files process p is asked to ingest

ASSUME AssignedAssumption == Assigned \in [Procs -> SUBSET Docs]

VARIABLES
  row,      \* documents: the committed row of each file, or NoRow
  chunks,   \* chunks: the committed chunks of each file
  cache,    \* extraction_cache: the committed parse of each digest, or "none"
  tx,       \* what each process is doing
  setting   \* active_embedding_model of each process, read once at its start

db   == <<row, chunks, cache>>
vars == <<row, chunks, cache, tx, setting>>

\* Where a process is in the handling of one file.
\*   fetched  the bytes are read
\*   read     get_document_state has returned prev
\*   writing  upsert_document(status "extracting") holds the row
\*   missed   get_cached_extraction returned nothing, the file is parsed
\*   parsed   the parse is at hand; put holds the cache keys it inserted
Idle == [pc |-> "idle"]
Handling == [pc : {"fetched", "writing", "missed"}, doc : Docs, content : Contents]
Reading  == [pc : {"read"}, doc : Docs, content : Contents, prev : Rows \cup {NoRow}]
Storing  == [pc : {"parsed"}, doc : Docs, content : Contents, parse : Parsed, put : SUBSET Contents]
TxStates == {Idle} \cup Handling \cup Reading \cup Storing

At(p, pc) == tx[p].pc = pc

\* The row of d is locked by no other transaction.
RowFree(p, d) ==
  \A q \in Procs \ {p} : tx[q].pc \in {"writing", "missed", "parsed"} => tx[q].doc # d

\* No other transaction has an uncommitted cache row for digest c.
KeyFree(p, c) ==
  \A q \in Procs \ {p} : At(q, "parsed") => c \notin tx[q].put

Init ==
  /\ row = [d \in Docs |-> NoRow]
  /\ chunks = [d \in Docs |-> {}]
  /\ cache = [c \in Contents |-> "none"]
  /\ tx = [p \in Procs |-> Idle]
  /\ setting \in [Procs -> Models]

-----------------------------------------------------------------------------
(* One file, step by step. *)

\* path.read_bytes() or connector.fetch_content(), before the transaction.
\* The file may hold anything: it is edited freely between two fetches.
Fetch(p) ==
  /\ At(p, "idle")
  /\ \E d \in Assigned[p], c \in Contents :
       tx' = [tx EXCEPT ![p] = [pc |-> "fetched", doc |-> d, content |-> c]]
  /\ UNCHANGED <<db, setting>>

\* get_document_state: a plain SELECT, it locks nothing.
ReadState(p) ==
  /\ At(p, "fetched")
  /\ tx' = [tx EXCEPT ![p] = [pc |-> "read", doc |-> @.doc, content |-> @.content,
                              prev |-> row[@.doc]]]
  /\ UNCHANGED <<db, setting>>

\* The short-circuit: only the row is written, from what was read before.
Refresh(p) ==
  LET t == tx[p] IN
  /\ At(p, "read")
  /\ IsUnchanged(t.prev, t.content, setting[p])
  /\ RowFree(p, t.doc)
  /\ row' = [row EXCEPT ![t.doc] = Row(t.content, t.prev.status, setting[p])]
  /\ tx' = [tx EXCEPT ![p] = Idle]
  /\ UNCHANGED <<chunks, cache, setting>>

\* upsert_document(status="extracting"): waits for the row, then holds it.
BeginWrite(p) ==
  LET t == tx[p] IN
  /\ At(p, "read")
  /\ ~IsUnchanged(t.prev, t.content, setting[p])
  /\ RowFree(p, t.doc)
  /\ tx' = [tx EXCEPT ![p] = [pc |-> "writing", doc |-> t.doc, content |-> t.content]]
  /\ UNCHANGED <<db, setting>>

\* _extract_cached finds a committed parse of these bytes, whatever the name
\* of the file it came from.
CacheHit(p) ==
  LET t == tx[p] IN
  /\ At(p, "writing")
  /\ cache[t.content] # "none"
  /\ tx' = [tx EXCEPT ![p] = [pc |-> "parsed", doc |-> t.doc, content |-> t.content,
                              parse |-> cache[t.content], put |-> {}]]
  /\ UNCHANGED <<db, setting>>

CacheMiss(p) ==
  /\ At(p, "writing")
  /\ cache[tx[p].content] = "none"
  /\ tx' = [tx EXCEPT ![p].pc = "missed"]
  /\ UNCHANGED <<db, setting>>

\* put_cached_extraction: waits for a concurrent insert of the key, then
\* inserts or does nothing.  The parse used is the process's own either way.
PutCache(p) ==
  LET t == tx[p]
      own == Parse[t.doc][t.content] IN
  /\ At(p, "missed")
  /\ own \in Parsed
  /\ KeyFree(p, t.content)
  /\ tx' = [tx EXCEPT ![p] = [pc |-> "parsed", doc |-> t.doc, content |-> t.content,
                              parse |-> own, put |-> {c \in {t.content} : cache[c] = "none"}]]
  /\ UNCHANGED <<db, setting>>

\* A slip: an extractor that raised is tried again at once.
RetryParse(p) ==
  /\ At(p, "missed")
  /\ Parse[tx[p].doc][tx[p].content] \notin Parsed
  /\ tx' = [tx EXCEPT ![p].pc = "writing"]
  /\ UNCHANGED <<db, setting>>

\* extract() raised: the row says so, the transaction commits.
Reject(p) ==
  LET t == tx[p]
      own == Parse[t.doc][t.content] IN
  /\ At(p, "missed")
  /\ own \notin Parsed
  /\ row' = [row EXCEPT ![t.doc] = Row(t.content, RejectStatus(own), setting[p])]
  /\ tx' = [tx EXCEPT ![p] = Idle]
  /\ UNCHANGED <<chunks, cache, setting>>

\* A slip: the chunks are added, the old ones are not deleted.
StoreMore(p) ==
  LET t == tx[p] IN
  /\ At(p, "parsed")
  /\ row' = [row EXCEPT ![t.doc] = Row(t.content, StatusOf(t.parse), setting[p])]
  /\ chunks' = [chunks EXCEPT ![t.doc] = @ \cup ChunksOf(t.parse, t.content, setting[p])]
  /\ cache' = [c \in Contents |-> IF c \in t.put THEN t.parse ELSE cache[c]]
  /\ tx' = [tx EXCEPT ![p] = Idle]
  /\ UNCHANGED setting

\* Chunked, embedded under the process's model, replaced, settled, committed.
Store(p) ==
  LET t == tx[p] IN
  /\ At(p, "parsed")
  /\ row' = [row EXCEPT ![t.doc] = Row(t.content, StatusOf(t.parse), setting[p])]
  /\ chunks' = [chunks EXCEPT ![t.doc] = ChunksOf(t.parse, t.content, setting[p])]
  /\ cache' = [c \in Contents |-> IF c \in t.put THEN t.parse ELSE cache[c]]
  /\ tx' = [tx EXCEPT ![p] = Idle]
  /\ UNCHANGED setting

\* A slip: every statement commits by itself, and "extracting" stays behind.
EmbedFailsHalfway(p) ==
  /\ At(p, "parsed")
  /\ tx[p].parse = "text"
  /\ row' = [row EXCEPT ![tx[p].doc] = Row(tx[p].content, "extracting", setting[p])]
  /\ tx' = [tx EXCEPT ![p] = Idle]
  /\ UNCHANGED <<chunks, cache, setting>>

\* embed_documents raises (the provider fails, or the text may not leave the
\* machine): the exception leaves connect() and the transaction rolls back.
EmbedFails(p) ==
  /\ At(p, "parsed")
  /\ tx[p].parse = "text"
  /\ tx' = [tx EXCEPT ![p] = Idle]
  /\ UNCHANGED <<db, setting>>

\* The process dies or is stopped anywhere, its transaction rolls back, and
\* it is started again, perhaps under other settings.
Restart(p) ==
  /\ tx' = [tx EXCEPT ![p] = Idle]
  /\ \E m \in Models : setting' = [setting EXCEPT ![p] = m]
  /\ UNCHANGED db

-----------------------------------------------------------------------------

\* What a running process does once it has fetched a file.
Step(p) ==
  \/ ReadState(p) \/ Refresh(p) \/ BeginWrite(p)
  \/ CacheHit(p) \/ CacheMiss(p) \/ PutCache(p)
  \/ Reject(p) \/ Store(p) \/ EmbedFails(p)

Next == \E p \in Procs : Fetch(p) \/ Step(p) \/ Restart(p)

Spec == Init /\ [][Next]_vars

\* A process that handles a file goes on with it.  Strong fairness where it
\* waits for a lock: Postgres queues the waiters of a row and of a key.
Fairness ==
  \A p \in Procs : /\ WF_vars(Step(p))
                   /\ SF_vars(Refresh(p) \/ BeginWrite(p))
                   /\ SF_vars(PutCache(p))

FairSpec == Spec /\ Fairness

-----------------------------------------------------------------------------
(* Properties. *)

TypeOK ==
  /\ row \in [Docs -> Rows \cup {NoRow}]
  /\ chunks \in [Docs -> ChunkSets]
  /\ cache \in [Contents -> Parsed \cup {"none"}]
  /\ tx \in [Procs -> TxStates]
  /\ setting \in [Procs -> Models]

\* Deployments in which no file is ingested by two processes.
SingleWriter == \A p, q \in Procs : p # q => Assigned[p] \cap Assigned[q] = {}

Serial == INSTANCE SerialIndex

\* Under SingleWriter every transaction takes effect as one step of the
\* sequential index: the stale read of get_document_state, the cache race and
\* a crash at any point cannot be told from files ingested one at a time.
Serializable == Serial!Spec

\* ... so a settled row can be trusted (see SerialIndex).
Coherent == Serial!Coherent

\* An extraction, once cached, is never replaced: two processes that miss the
\* same key both parse, and the second INSERT must not overwrite the first,
\* which other files may have been replayed from.
CacheWriteOnce == [][\A c \in Contents : cache[c] # "none" => cache'[c] = cache[c]]_vars

\* No transaction waits for ever, for a row or for a cache key, whoever else
\* ingests the same file or the same bytes.
EveryIngestEnds == \A p \in Procs : tx[p].pc # "idle" ~> tx[p].pc = "idle"

=============================================================================
