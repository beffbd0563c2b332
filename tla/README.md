# Verification of Go2Assistant

TLA+ models of Go2Assistant (the Python package under `src/go2/`), the TLC
configurations that check them on small instances, and theorems about them that
the TLA+ proof system (TLAPS) checks for every value of the constants. All paths
below are relative to the repository (`src/...`) or to this directory.

    tlc -workers 2 -config worker_pool.cfg MCWorkerPool # one run
    tlapm WorkerPoolProofs.tla                          # the proofs of one module

`PROJECT.json` lists the components, the runs with their properties, for every
property a mutation of the code's model that breaks it, the source lines every
definition stands for, the hazards the properties are aimed at, the findings and
the theorems.

1. [The system](#1-the-system)
2. [The modules and how they compose](#2-the-modules-and-how-they-compose)
3. [Modules and code](#3-modules-and-code)
4. [The runs](#4-the-runs)
5. [Where the code and its documentation disagree](#5-where-the-code-and-its-documentation-disagree)
6. [Bounds](#6-bounds)
7. [Fairness](#7-fairness)
8. [The proofs](#8-the-proofs)
9. [What is not modelled](#9-what-is-not-modelled)
10. [The plan](#10-the-plan)

## 1. The system

Go2Assistant keeps an index of a workspace's documents in Postgres (pgvector and
full-text search) and answers searches over it, on the command line and as an MCP
server. Several processes share one database and no memory: one-shot commands
(`go2 ingest`, `go2 sync`, `go2 connect google`, `go2 tenant ...`), any number of
background workers (`go2 worker`), and the server. Everything they do together
goes through transactions at READ COMMITTED (`storage/db.py`), through row locks,
unique keys and foreign keys. There is no coordinator, no lease and no heartbeat.

| Component | State it keeps | Operations | What is hard about it |
|---|---|---|---|
| Ingestion pipeline (`jobs/ingest.py`, `storage/repository.py`) | `documents`, `chunks`, `extraction_cache` | `ingest_document`: look at the old row, short-circuit or extract, chunk, embed, store | the row is read without a lock and decided by later; parse, embedding and the database fail in the middle; two processes parse the same bytes |
| Job queue (`jobs/worker.py`, `storage/repository.py`) | `jobs` | enqueue, claim, finish, clear finished jobs | claiming is one statement over rows that others lock, release and settle meanwhile (`FOR UPDATE SKIP LOCKED`); a worker dies between its three transactions |
| Worker pool (`jobs/worker.py`) | the files on disk, the queue and the index | `_run_one`: size, bytes, ingestion | a file is edited between those steps and queued again |
| Chunking (`rag/chunking.py`) | a buffer, a tail, the chunks so far | `chunk_blocks` | boundaries: a tail, a separator and a piece must fit; nothing may be lost or cited at the wrong page |
| Embedding pipeline (`rag/jina.py`, `rag/embedding.py`, `security/guard.py`) | the tokens spent in the last minute | screen, batch, pace, post, retry, collect | answers in any order, 429s, a rolling window, text that must not leave unmasked |
| Search (`rag/retrieval.py`, `rag/rerank.py`, `tools/search.py`) | none | two candidate queries, reciprocal rank fusion, rerank, evidence gate; fetch a document | each statement has its own snapshot of an index that is written; arithmetic of ranks; scores of any sign |
| Evaluation (`evaluation.py`) | none | runs a search for each case of a file and counts what passed | it decides for itself what the search tool would have answered |
| Drive connector and sync (`connectors/gdrive.py`, `cli.py`) | a cursor (page token) | list the account, list changes, fetch, `go2 sync` | the account changes between any two requests; pages, failures, dropped cursors |
| Workspaces, connections, credentials (`tenancy.py`, `storage/repository.py`, `connectors/google_auth.py`, `security/tokens.py`) | `tenants`, `connections` | create, resolve and delete a workspace, ensure a connection, store and load credentials | a workspace is deleted under commands that have resolved it; a refresh and a reauthorization store the same credential; locks taken in different orders |
| Command line (`cli.py`) | none | drives the above, prints | which command opens which transaction, and what ends it |
| MCP server (`mcp_server.py`, `security/loopback.py`) | none | wraps search and fetch | - |
| Migrations (`storage/db.py`) | `schema_migrations`, the schema | apply missing files in one transaction | two processes that migrate at once, from different checkouts; a call that dies between two files |
| Local stack (`deploy/stack/docker-compose.yml`) | containers and the images they were made from | `up`, restart | init runs once per `up` and is not restarted, services are; a newer image over running services |
| PII detection (`security/pii.py`, `security/scan.py`) | none | detect, resolve overlaps, redact | which of two overlapping findings is kept, and what then stays legible |
| Extraction (`extraction/`) | none | a parser for each file format | library code on untrusted formats |
| Backlog (`backlog.py`) | a ticket file for each piece of work, in every checkout | load and check, new, close | ids given in two checkouts, files edited by hand and merged by git, also while `close` waits for GitHub; a file that makes every command refuse |
| Basira mirror (`basira.py`) | records in a tracking app | push every ticket, by its id | a pass fails before or after the app has acted; two passes at once; an owner who edits the records |
| Observability, configuration | traces | best-effort writes; values read once | - |

How they interact. `go2 ingest` runs the pipeline in its own transactions, one
for each file, or only queues paths (`--background`); a worker claims a path and
runs the same pipeline; `go2 sync` lists a Drive account, fetches file by file and
runs it too. All three first look up the workspace by its name and then work
under its id, in later transactions. Search reads what the pipeline writes, with no
lock. Deleting a workspace cascades over everything that refers to it. All of this runs on a schema
that `go2 migrate` has made, and in the local stack in containers that start once it
has. Apart from it, the repository keeps its own tickets as files, which `go2 backlog`
reads and closes and mirrors into an app on the same machine.

What correctness means here, component by component:

* *Ingestion*: a row that says `indexed` can be trusted, it describes the bytes
  and the embedding model that the stored chunks were made with, whatever
  failed, raced or was restarted on the way; a cached parse is never replaced;
  no transaction waits for ever.
* *Queue*: no job is handed out twice, none is skipped for ever, `--once` leaves
  none behind, and a job's status only moves forward.
* *Pool*: a drained queue leaves the latest queued bytes of each file indexed.
* *Chunking*: the size bound holds, citations are right, no text is lost.
* *Embedding*: every chunk gets its own vector, nothing leaves that the policy
  holds back, and the account's allowance holds for every rolling minute.
* *Search*: hits are comparable (one embedding model, consistent with their
  row) unless their document was rejected when it was last ingested, both queries'
  agreement wins, an answer has no hit under the evidence floor,
  and a fetched text is of one version of its document.
* *Evaluation*: it counts as answered or refused what the tool answers or refuses.
* *PII*: what a pattern found does not leave in full, however findings overlap.
* *Drive*: a caller that keeps its cursor misses no change; a sync leaves what
  it could fetch indexed as it was when the sync began, or newer.
* *Workspaces*: no connection, document or job outlives its workspace or belongs to
  another one (the cache of extracted texts belongs to none, and stays); the
  credential granted last is the one that is kept; locks do not block for ever.
* *Migrations and stack*: a file is executed once, after the earlier ones of its
  checkout, and a call is all or nothing; no service runs on a schema older than its
  image, and an `up` ends with the stack up, with a failure that something caused, or
  with services that wait for a workspace deleted under the `up`.
* *Backlog and mirror*: closing a ticket leaves a backlog that loads, unless its pull
  request is older than it or its file lost what `close` looked for; one record for
  each ticket, whatever fails; what the owner attached stays; an undisturbed pass
  leaves a true record of every ticket.

## 2. The modules and how they compose

    IngestRules ---- SerialIndex <===(refinement)=== Ingest ---- IngestHistory
        decisions      the abstract        |            the concurrent pipeline
        of one file    index               |
                          |             JobQueue <===(refinement)=== WorkerPool
                          |
                        Search  (a search over a SerialIndex that is written)

    Chunking --+                           DriveSync            Workspace
    Pii -------+-- EmbedPipeline

    SchemaUpgrade <===(refinement)=== Migrations ---- Stack     Backlog ---- Basira

* `IngestRules` holds what `ingest_document` decides and does not depend on who
  else runs: whether a file counts as unchanged, which status and chunks a parse
  leads to. `SerialIndex` and `Ingest` are both built from it.
* `SerialIndex` is an abstract specification: an index in which files are ingested
  one at a time, each in one step. `Ingest` is the pipeline as it runs, several
  processes with their transactions. *Ingest implements SerialIndex when no file is
  ingested by two processes at once* (`Serializable`; checked, and proved).
* `IngestHistory` adds a history variable to `Ingest` and says what still holds
  when two processes do ingest one file.
* `JobQueue` is the protocol of the queue. `WorkerPool` puts files, reads and the
  index under it and implements it (`FollowsQueue`; checked, and proved), so what
  is proved of the queue carries over.
* `EmbedPipeline` starts where `Chunking` ends: it embeds the chunks that the
  steps of `Chunking` have made. `Pii` has the operators that resolve overlapping
  findings and redact a text; `EmbedPipeline` sends what they leave.
* `SchemaUpgrade` is an abstract specification: the schema changes by whole runs, one
  after another. `Migrations` is the runner, several processes in their transactions,
  and implements it (`WholeUpgrades`; checked, and proved). `Stack` puts the
  containers of the local stack around it; init is one of its processes.
* `Backlog` are the ticket files of several checkouts, `Basira` the passes that
  mirror them while they change.
* `Search` is composed with `SerialIndex`: between any two statements of a search
  the index takes any step. What `Ingest` was shown to implement is what `Search`
  relies on; for deployments with two writers of one file it does not hold (see 5).
* `DriveSync` and `Workspace` look at the same commands from two other sides: at a
  remote account that changes, and at the rows that transactions lock and refer to.

`MC*.tla` instantiate them for TLC, `*Proofs.tla` hold the theorems: those of
`Ingest` and `IngestHistory` are in `IngestProofs`, of `JobQueue` and `WorkerPool` in
`WorkerPoolProofs`, of `Chunking`, `Pii` and `EmbedPipeline` in `EmbedPipelineProofs`,
of `SerialIndex` and `Search` in `SearchProofs`, of `Migrations` and `Stack` in
`StackProofs`, of `Backlog` and `Basira` in `BasiraProofs`.

## 3. Modules and code

Data is abstracted to what the properties tell apart: the bytes of a file are an
element of `Contents` and are their own SHA-256 digest, text is its length, an
embedding is the text it was made of, an embedding model is a name, a page token is
the number of a change. A few definitions in each module are marked as *slips*:
they are no part of the specification, but the forms a plausible mistake would
take, which `PROJECT.json` uses to show that each property can be broken.

**Ingest** (`jobs/ingest.py`, `storage/repository.py`). `row`, `chunks` and
`cache` are the committed tables. `tx[p]` is what process `p` is doing: what its
transaction has read and written, and the locks it holds. A file goes through

| action | code |
|---|---|
| `Fetch` | the caller reads the bytes, outside the transaction |
| `ReadState` | `get_document_state`, without a lock |
| `Refresh` | the short-circuit: same bytes, settled, same model: write the row back and return |
| `BeginWrite` | `upsert_document(status "extracting")` takes the row's lock |
| `CacheHit`, `CacheMiss` | `get_cached_extraction` |
| `PutCache` | `INSERT ... ON CONFLICT DO NOTHING` waits on the key of another insert |
| `Reject` | extraction raises: set the status, return, chunks stay |
| `Store` | `replace_chunks`, final status, commit |
| `EmbedFails` | an exception out of `embed_documents`: everything rolls back |
| `Restart` | a process dies anywhere and comes back, perhaps under another model |

Commits make all of a transaction visible at once, and statements see what was
committed before them. The transactions of `go2 ingest` also hold the row of their
connection from their start (in `Workspace`), which only removes interleavings.

**JobQueue** (`jobs/worker.py`, `claim_job`, `finish_job`, `clear_finished_jobs`).
`claim_job` is one SQL statement but several actions: `Begin` begins its transaction,
whose time is its `now()`; `Scan` takes the snapshot of the jobs that are queued and
due, so that a job queued by a later transaction is not seen yet; `SkipLocked` and `Lock` meet its rows one by one in id order while others
commit, `FindNone` ends it with nothing, `Claim` commits. `Run` is `_run_one` and
`Finish` the third transaction. `Crash` ends a worker anywhere; a row it had locked
is free again, a row it had claimed stays `running`. Which of the jobs committed
between `Begin` and `Scan` are due depends on when their own transactions began, and is
a choice.

**WorkerPool** replaces `Run` by `Look` (is_file and stat), `Read` (read_bytes) and
`IngestBytes` or `IngestRaises`, and lets anyone edit, delete or enlarge a file at any
time. `index[f]` is the digest in the row of `f`. The pipeline is one step here.

**Chunking** (`rag/chunking.py`). `TakeBlock`, `PlacePiece` and `FinishChunks` are
the loop of `chunk_blocks`. Where a block is cut and where a tail begins depend on
the letters; the model takes any cut and any tail that `_split_oversized` and
`_overlap_tail` allow.

**EmbedPipeline** and **Pii** (`rag/jina.py`, `security/guard.py`,
`security/pii.py`, `replace_chunks`). `Detect` chooses the findings of each chunk, from
sets of intervals that overlap in every way that matters; `Screen` masks or blocks
under the policy. `Kept` is what `detect` returns of them (sorted by start and
severity, what begins inside the one kept before is dropped), `Segments` the text
that `redact` leaves between them, and `Legible` the findings that still stand in it
in full. `Acquire` is the token budget's window, `Answered`, `RateLimited` and
`Refused` are what `_post` meets, `Store` zips the vectors with the chunks. Time
passes in ticks, as ages and timers. `admitted` and `billed` are history: the requests
the budget let through, and those the API accepted, within the last minute.

**Search** (`rag/retrieval.py`, `rag/rerank.py`, `tools/search.py`). `VectorQuery`
and `TextQuery` read the index, each in its own step; which of the eligible chunks
they return, and in which order, is a choice. `Fuse` is reciprocal rank fusion with
the exact fractions (the sums of 1/(K + rank) compared by cross-multiplication),
ties in any order. `Answer` reranks and gates; a hosted reranker may return only a part
of the pool, or nothing (`NoneReranked`). The `of` field of a hit is the row as
the query saw it, for the properties only. The model identifies a chunk by what
it is made of; in the code one that was stored again between the two queries has a
new id, and counts as two candidates. The order of a hosted reranker is taken to be
the order of its scores, as the code takes it. `rerank=False` is not modelled.
`Passed` are the cases of an evaluation that `run_case` and `Outcome.passed` count, when
its search of the same index, with a limit of its own, finds the same order: any set of expected documents and any bytes that hold the expected
text. `FetchMeta` and `FetchChunks` are the two statements of `fetch_document`;
`renewed` is history, the document was ingested anew between them.

**DriveSync** (`connectors/gdrive.py`, `cli.py` sync). `Edit`, `Trash` and `Remove`
are the account. `StartListing` takes the start cursor, `ListPage` a page,
`Listed` ends it. `SyncStarts` ... `SyncEnds` are `go2 sync`: list everything, cut
at `--limit`, fetch and ingest file by file, an unreadable file does not stop it,
a failing ingestion does. `WalkAll` and `WalkChanges` are a caller that does what
`list_changes` asks of it and keeps the cursor with `save_cursor`. No code in
`src/go2` is that caller yet: `save_cursor` has none. It is the contract the connector
offers, and the part of it that is code is the connector's.

**Workspace** (`tenancy.py`, `storage/repository.py`, `google_auth.py`,
`security/tokens.py`, `cli.py`). One process for each command. `held[p]` are the row
locks of `p`'s transaction: FOR KEY SHARE on what a foreign key refers to (`share`),
FOR NO KEY UPDATE (`update`), and FOR UPDATE (`key`), which a DELETE takes and
also `ensure_connection`, because its DO UPDATE writes a column of a unique key. A
statement that cannot have its locks waits; waiters in a cycle are found by
`Deadlock`, one of whose transactions rolls back. `ReferenceFails` is the
foreign-key violation of a command whose workspace is gone. `DeleteTenant` locks the
tenant, `Cascade` takes the locks on what belongs to it, all in one step, and
deletes it. The tables are those that refer to a workspace; `extraction_cache` does not,
and is the `cache` of `Ingest`, from which nothing is ever removed. Ids of workspaces are not used again; (workspace, account) stands for a
connection's id. The lookups of a sync (workspace, connection, credential) are one
step, as only what `load_token` returned is used later. What Google answers
(refreshed, expired, refused, keys rotated) is a choice.

**Migrations** (`storage/db.py`). A call of `migrate` is a transaction: `EnsureTable`,
`ReadVersions`, `Apply` for each file that is missing, in the order of the names,
`Commit`. `WaitForTable`, `TableCollides` and `VersionCollides` are what PostgreSQL makes
of two calls at once: the second waits for the first one's table or key and fails if
that commits. `Die` is a kill or a statement that fails. `schema` is history: which
files were executed, in order, and for which checkout. A file is taken to conflict
with itself, by what it creates or at the latest by its INSERT.

**Stack** (`deploy/stack/docker-compose.yml`). `Up` builds an image (a checkout) and
starts init, which migrates (`Migrated`) and creates the workspace (`CreateTenant`);
`Start` is a service whose `depends_on` is met, `Exit` and `Restart` its death and
`restart: unless-stopped`. `serve` and `worker` exit at once without a workspace
(`Started`, `Restart`), and are then restarted over and over, which is a state here:
made, and not alive. A second `Up` stops and removes the services that were made from
another image; when its init fails they stay away. Other containers may migrate, and
the workspace may be deleted and created again by hand, at any time. A `.env` that is
changed between two `up`s (`GO2_TENANT`) is left out.

**Backlog** (`backlog.py`, `cli.py` backlog). `files[c]` are the ticket files of a
checkout. `Consistent` is `load_tickets`: each file valid (`Lifecycle`), ids unique,
blockers known and closed, no branch claimed twice. `New` and `close` are the commands;
`Edit`, `Renumber` and `Merge` are agents and git, who ask no command. `late` are the
pull requests that were merged before the day the ticket was created. `close` is two
steps, for it asks GitHub in between: `CloseLooks` has loaded the tickets and found this
one in review with its outcome, `CloseWrites` reads the file again and writes it
whatever it says by then, `CloseFails` gives up. `closing[c]` are the tickets as the
commands under way have seen them. A ticket is created before it is updated by whatever
writes `updated`, so that check of `Lifecycle` is left out. `BACKLOG.md` is left out.

**Basira** (`basira.py`). `Load` is everything up to the index of the app's records,
`Post`, `Put` and `Leave` are `_Run.push` for one ticket, in the order of the files.
A request is done or not and heard of or not; unless it is both, the pass is over. A
request that the app executes only after the pass has given it up, and two passes of
one checkout at once, are not modelled.
`Attach`, `Move` and `Delete` are the owner. `paired`, `quiet` and `attached` are
history: ids that two passes had to push at the same time, passes that nothing has
disturbed, and records that got a proof by hand while no pass ran.

## 4. The runs

All passing runs check for deadlock, except `search` (a search ends), and
`workspace`, `stack` and `tickets` (nothing is left to do when the bounded number of
commands, calls and events has begun).

| run | what it shows |
|---|---|
| `ingest_single_writer` | Two processes, two files with equal bytes, three contents, two models, restarts and failures anywhere. `Serializable`: nothing distinguishes them from files ingested one after the other. `Coherent`: a settled row describes exactly the chunks stored. |
| `ingest_history` | Two processes on one file under two models. `SettledIsEarned`: a settled row goes back to a full pass of the pipeline for that file, those bytes and that model, although the short-circuit writes rows back from stale reads. `ChunksAreEarned`: and every stored chunk to a full pass. `EveryIngestEnds`: no transaction waits for ever on a row or on a cache key. |
| `worker_pool` | Two workers, one of them `--once`, two jobs of a file that is edited, deleted or too large at any moment, two crashes. Of the queue: `HandedOutOnce` (at once or one after the other), `OneLostPerCrash`, `NothingLeftBehind` (what `--once` leaves is in another worker's hands), `NeverBackwards` and `EveryJobSettles`. Of the pool: `FollowsQueue`, it implements the queue; `AloneIsCurrent`, when the last job of an unedited file is done, and no two workers had the file at once, its bytes are in the index; `GetsIndexed`, a file that is queued and left alone gets there. |
| `chunk_embed` | Documents of up to four blocks, with every cut, every tail, overlapping findings in any of the chunks, answers in any order, 429s, and time passing anywhere. `HardBound`, `CitedWhereItStands`, `NothingLost`, `VectorsAligned`, `OnlyClearedLeaves` (no finding is sent in full), `AdmittedWithinAllowance`, `EmbedEnds`. |
| `search` | A search, or a fetch, over two files that are re-embedded, rejected and replaced between its statements. `ComparableUnlessRejected`: a passage has a vector of the searching model and the bytes its row records, unless its document was rejected when it was last ingested. `AgreementWins`, `GateHolds`, `EvaluationMeasuresTheTool`, `FetchedIsOneVersion`. |
| `drive_sync` | Two documents and a form, two changes at any moment, pages of one entry, one failure. `NothingMissed`: what the caller has not been told is after its cursor. `Converges`: in the end it has been told everything. `SyncedIsCurrent`: what a completed sync neither missed nor cut off is indexed as it was when it began, or newer. |
| `workspace` | One process for each of `ingest`, `worker`, `sync`, `connect`, `tenant delete`, on two workspace names. `Scoped`: no connection, document or job without its workspace and none in another one's. `ReauthorizationHolds`: the credential granted last is in the row, unless a sync had loaded the one before. `TransactionsEnd`. |
| `stack` | Two `up`s, with any of three checkouts, beside another container that migrates; one kill, one deletion of the workspace and its creation by hand anywhere. `AppliedOnce`: recorded is what was executed, once. `OnEarlierFiles`: a file found every earlier one of its checkout, whoever executed it. `WholeUpgrades`: calls are all or nothing and as if one after another. `ReadyWhenUp`: a running service finds the migrations of its image and a workspace, unless that was deleted under it. `StackComesUp`: every `up` ends with all services on its image, or a failed init that a kill or another migrator caused, or, if the workspace was deleted after init, with services that exit and are restarted; and those come up once the workspace is there again. |
| `tickets` | Two checkouts with the same or different tickets, edits, merges, two pull requests, an owner who changes the app's records, and passes that fail at any request. `OnePerRef`: two records for one ticket take two passes at once. `HandProofsKept`: what the owner attached while no pass ran stays. `PassMirrors`: a pass that nobody disturbs leaves a true record of every ticket, whatever earlier ones left half done. `CloseKeepsConsistent`: whatever is done to the ticket while GitHub is asked, `close` turns a backlog that loads into one that does not in three named cases only (section 5). |

Three more runs are expected to end in a violation; they are the next section. Each
of the properties above fails when one definition of the code's model is replaced
by a slip; `PROJECT.json` ("mutants") says which.

## 5. Where the code and its documentation disagree

| run | the code does | the documentation says |
|---|---|---|
| `lost_job`, `NoJobLost` | The claim commits before the file is ingested and nothing turns `running` back into `queued`. A worker that dies in between strands the job for good. | `src/go2/jobs/worker.py:9-11`: "a crash mid-file leaves the job claimable again rather than lost" |
| `two_workers`, `DrainedIsCurrent` | Bytes are read before the transaction that stores them. Of two workers with two jobs of one file, the one with the older bytes may store last; both jobs are `done` and the index is out of date. | `src/go2/cli.py:576`: "Safe to run more than one." |
| `billed_late`, `BilledWithinAllowance` | The budget dates a request when it lets it through; retries after 429s send it later without going back to the budget. Three batches of half the allowance can be billed within one minute. | `src/go2/config.py:81-82`: "Requests are paced to stay under this" |

Four more sentences of the repository are not kept. Here the run is a passing one: its
property says that the code breaks the sentence in the named cases *and in no other*. Each of
these exceptions is needed; without it TLC finds the run's property violated.

| run | the code does | the documentation says |
|---|---|---|
| `search`, `ComparableUnlessRejected` | `upsert_document` writes the new digest and the active embedding model into the row (`src/go2/storage/repository.py:139,156`) before the extraction is tried. When that fails or is unsupported, `ingest_document` returns before `replace_chunks` (`src/go2/jobs/ingest.py:139-165`): the vectors of the old model and the text of the old bytes are searched under the new model. | `src/go2/rag/retrieval.py:192-194`: 'switching providers yields "nothing found" rather than confident nonsense from a mismatched vector space'; `src/docs/architecture.md:62-66`; `src/go2/storage/repository.py:193-194`: "guarantees no stale chunk outlives an edit" |
| `stack`, `StackComesUp` and `ReadyWhenUp` | `serve` and `worker` exit when the workspace is missing (`src/go2/cli.py:549-553`, `578`) and `restart: unless-stopped` starts them again. A deletion between init and their start leaves them exiting for ever after an `up` that succeeded; a deletion under them leaves them running without a workspace. | `src/deploy/stack/docker-compose.yml:57-59`: "the server never starts against an unmigrated database or a workspace that does not exist" |
| `tickets`, `CloseKeepsConsistent` | `close_ticket` looks at the ticket (`src/go2/backlog.py:672-685`), asks GitHub (`686`), reads the file again (`697`) and writes it (`703`). If the outcome or the `pr` was taken away in between, or the pull request was merged before the day the ticket was created, the file it writes is refused by every later command. A ticket that was moved back or given another pull request is closed too, into a file that loads. | `src/go2/backlog.py:660-661`: "this refuses to close without one, so the step that matters stays human" |
| `workspace`, `ReauthorizationHolds` | A sync that had read the credential before the user reauthorized stores its refreshed version over the new one (`src/go2/cli.py:276-283`). | `src/go2/storage/repository.py:320-322`: reauthorizing "must [...] replace the stored credential rather than silently keeping the old one" |

The models have further behaviour that is worth knowing. The first four read
against a sentence of the repository, but follow from a single line and need no run:

* `extraction_cache` has no `tenant_id` and refers to nothing
  (`src/go2/storage/migrations/001_init.sql:59-64`), and no code deletes from it. The
  extracted text of every document stays there when its workspace is deleted.
  `src/go2/cli.py:1033` says "Permanently remove a workspace and everything in it",
  `src/go2/tenancy.py:4-5` "every table carries `tenant_id`". `Scoped` is about the tables
  that do.
* `detect` resolves overlaps by where a finding begins, and by severity only among
  those that begin together (`Pii`, `Kept`), although its docstring says "in favour of
  the more severe category" (`src/go2/security/pii.py:207-209`): a telephone number that
  begins before a national id hides it. The tail of a dropped finding that reaches
  beyond the kept one stays in the redacted text; what `OnlyClearedLeaves` says is that
  no finding stays in full.
* A pass of the mirror does not report a record whose `T-NNN` has no ticket: `_index`
  looks at the form of the ref alone. `src/go2/basira.py:186-188` promises "what Basira
  holds that the repository does not".
* A proof that the owner attaches between the GET of a pass and its PUT is overwritten
  with the list of before (`Basira`, `Put`; `src/go2/basira.py:158`: "Hand-added proofs
  are kept"). `HandProofsKept` speaks of those attached while no pass runs.

The others contradict nothing that is written:

* The extraction cache is keyed by the bytes alone, but the file name selects the
  extractor. A `.csv` with the bytes of an earlier `.txt` is replayed as prose
  (`Ingest`, `CacheHit`).
* Two processes that write one file under two embedding models can leave a row
  that names a model which did not make its vectors: the short-circuit of one
  relabels what the other has stored (`Ingest`, `Refresh`). `Coherent` is therefore
  only claimed for a single writer, and `SettledIsEarned` is what remains for more.
* `go2 ingest` holds its connection's row for the whole file. A worker with the
  same new document, or the deletion of the workspace, can deadlock with it; if
  Postgres picks `go2 ingest`, the exception ends the command with files still to
  come (`Workspace`, `Deadlock`).
* `fetch_document` reads the columns and the chunks with two statements: what it says
  of a document may be of an older version than the text (`Search`, `FetchChunks`).
* An evaluation looks at the hits, not at what `search_documents` returns of them: a
  case passes although the expected document is below the floor, if the first hit is
  above it. A case that expects no answer also passes when documents are merely
  stranded under another embedding model (`Search`, `Passed`).
* Two calls of `migrate` at once: the second fails on the first one's table or key, with
  nothing done (`Migrations`). In the stack init then fails and is not restarted
  (`StackComesUp`), until the next `up`.
* After `T-999`, `next_id` gives an id that the parser refuses. `new` makes a file that
  is invalid until it is filled in, so every other command refuses meanwhile.
* Two checkouts that gave one id to different tickets overwrite one record in turn,
  and two passes at once may create two records for one ticket; later passes keep
  only one of them in step (`Basira`). A ticket that loses its `pr:` keeps the proof
  that was generated for it.
* A worker keeps the id of the workspace it was started for. When that is deleted
  and created again under its name, the worker polls a queue nobody fills. A server
  looks the workspace up at every call. `Stack` does not tell the two apart.
* A failed upgrade takes the stack down: `docker compose up` has removed the services of
  the old image before init runs, and starts none when it fails (`Stack`, `Up`).

## 6. Bounds

Every bound is a constant that the configuration names.

* **Ingest, IngestHistory**: nothing is bounded but the sets. Two processes are
  enough for every lock to be contended; `Contents` has a readable, a broken and
  a scanned or empty content, so every outcome of an extraction happens; two
  models make the short-circuit's question real. In `ingest_single_writer` the two
  files share bytes, so that the cache is contended although no file is.
  `ingest_history` has one file that both write, with a readable and a broken
  content. The safety results of both are proved for all constants.
* **JobQueue, WorkerPool**: `MaxJobs = 2`, `MaxCrashes = 2` and two workers, one
  `--once`: one job held and one stepped over, one file queued twice, which is what it
  takes to store an old read over a new one, and a crash on each job. The queue was
  also checked by itself with three workers; all guarantees of both except liveness are
  proved for all values. `DrainedIsCurrent`, without the exception of
  `AloneIsCurrent`, fails with no crash at all (`two_workers`).
* **Chunking, EmbedPipeline**: `MaxChars = 4`, `Overlap = 2`, `Join = 1`,
  `MaxPieces = 2`. A buffer then holds one to four characters and a tail one or two, so
  that a piece fits exactly, with the separator, or not; the documents are chosen for
  the cases: blocks that share a chunk, overflow it, change place and come back, are
  cut, and four full chunks. `Allowance = 4` tokens with `CharsPerToken = 2` makes
  batches of half the allowance. The findings of a chunk are none, three in a chain of
  which each overlaps the next and the middle one is the most severe, or a long one
  with one at its start and one inside. `Window = 2` ticks is the least for a spending to be
  older than another and still count. `MaxAttempts = 2` is one retry. All
  properties except `EmbedEnds` are proved without bounds.
* **Search**: `K = 60` is the code's constant; `Candidates = 3`, `PoolSize = 2` and
  `Limit = 2` make the pool cut off candidates and the limit cut off hits; `CaseLimit = 1`
  lets an evaluation see fewer of them than the tool. Scores
  below, at and above the threshold, and every case an evaluation may have over these
  files and contents. All properties are proved for any
  constants that satisfy `Candidates <= K + 1`, which the code's 50 and 60 do.
* **DriveSync**: `MaxChanges = 2`, `MaxFailures = 1`, `PageSize = 1`, `Limit = 1`: a
  listing of several requests with changes before, between and after them, a
  feed of several pages, a limit that cuts. `NothingMissed` and `SyncedIsCurrent` are
  proved for all.
* **Workspace**: `MaxTenants = 2` (a name that is created again, or two workspaces),
  `MaxCredentials = 2` (one before and one after a reauthorization, as one sync
  refreshes), `MaxCommands = 4`: every property concerns at most three commands and a
  deletion. The safety properties were also checked with three workspaces and five
  commands, and are proved for all values.
* **Migrations, Stack**: three checkouts, one that continues another and one that was
  cut from an older state and has a file of its own, so that files arrive out of order;
  `MaxRuns = 4` calls by two processes, `MaxUps = 2` (an upgrade), `MaxKills = 1`,
  `MaxDeletes = 1`. All but `StackComesUp` is proved for any values.
* **Backlog, Basira**: two checkouts that begin with the same tickets, with one more in
  one of them, or with different ones under one id; `MaxEvents = 4` commands, edits,
  merges, passes and failures, which is a pass that fails, a change, and two passes;
  `MaxRecords = 4`; ids up to `LastId = 2`, so that the last one is reached. The two
  checkouts are symmetric. All properties are proved for any values.

## 7. Fairness

Liveness is claimed under these assumptions, and only these:

* **Ingest** (`HFairSpec`): weak fairness of a process that handles a file; strong
  fairness of the two statements that wait for a lock, since Postgres queues the
  waiters of a row version and of a key and grants them in turn. Nothing says that a
  process ever fetches a file or restarts.
* **JobQueue** (`FairSpec`): weak fairness of a live worker's work, and of the start of
  a polling worker, which the service restarts (`restart: unless-stopped` in
  `src/deploy/stack/docker-compose.yml`). Nobody has to start a `--once` worker, and
  nobody has to queue or clear anything.
* **WorkerPool** (`PFairSpec`): the same, for the protocol and for the file in hand.
* **EmbedPipeline** (`FairSpec`): weak fairness of the process and of time. That the
  API ever accepts a request is not assumed; the retries end by their limit.
* **Stack** (`KFairSpec`): weak fairness of each call of `migrate` that lives and of
  docker, which starts what may start and restarts services. Nobody has to call `up`,
  and nobody has to create a workspace again that was deleted.
* **DriveSync** (`FairSpec`): weak fairness of whoever has begun something; strong
  fairness of the caller that keeps the cursor, that is, it comes back again and
  again. It is outside the repository, so this is a condition on it. That
  the account is quiet in the end is no assumption but the bound `MaxChanges`.
* **Workspace** (`FairSpec`): weak fairness of "some statement that can end, ends",
  for all processes together. Which waiter is served is left open, since Postgres lets
  FOR KEY SHARE lockers overtake a waiting DELETE. `TransactionsEnd` therefore speaks
  of finitely many commands and rules out a wait for ever, not starvation by a
  stream of commands that never ends.

## 8. The proofs

Every invariant and every action property that a passing run checks is also the
statement of a theorem, for all values of the constants, and so are the two
refinements and the type invariants. Where a property names exceptions (section 5), the
theorem is that there are no others. What stays with TLC is listed at the end.

The assumptions are those on the constants, and TLC evaluates each in a passing run:

* bounds are numbers: `BoundsAssumption`, `RecordsAssumption`, `RunsAssumption`,
  `UpsAssumption`, `SizesAssumption` (an overlap is shorter than a chunk),
  `PacingAssumption` (positive sizes, and `detect` returns finitely many findings);
* inputs have their types: `ParseAssumption`, `AssignedAssumption`, `OnceAssumption`,
  `BigAssumption`, `DocumentsAssumption`, `StartsAssumption`, `DraftsAssumption`,
  `DriveAssumption`, `WorkspaceAssumption`, `CheckoutsAssumption`, `InitAssumption`,
  `ImageAssumption`;
* ranks: `RankAssumption` with `Candidates <= K + 1`, as 50 and 60 in the code;
* a marker is none of the values it marks the absence of: `MarkersAssumption` (a file
  that is gone or unread has no bytes), `HandAssumption` (a proof attached by hand is no
  pull request), `AccountsAssumption` (the upload connection is no Google account).

`SingleWriter` is an assumption of two theorems only. The runs do not list the type
invariants, as they say nothing of the code; TLC confirms each of them on its run's
instance when it is added there as an INVARIANT.

**IngestProofs.** `Typing`. `CacheIsWrittenOnce` needs `CacheInv`: a
transaction that has a parse at hand has inserted its key exactly when that is not
committed, no other transaction holds a key it holds, and the parse is the
file's own or the cached one. `Serializes` is
the refinement of `SerialIndex` under `SingleWriter`. Alone the step simulation is not
provable, because a commit decides by a row read earlier; `WriterInv` says that
what a transaction has read of its own file is still so. Then
each step of `Ingest` is a step of `SerialIndex` (`Store`, `Reject`) or a
stutter (`StepImplements`; in particular a `Refresh` commits what is there
already). `AlwaysCoherent` carries `Coherent` over.

`SettledRowsAreEarned` and `StoredChunksAreEarned` are about any
number of writers of one file. `SettledIsEarned` is not inductive: a `Refresh` copies
a row that was read earlier. `EarnedInv` adds that every settled row a transaction
remembers was earned; as `earned` only grows, that stays true.

**WorkerPoolProofs.** The queue's inductive invariant `IInv` has six parts: `TypeOK`; ids
not handed out are `unborn`; a held job has the status its holder thinks it has
(`HeldStatus`), as `finish_job` itself does not look; nobody shares a
job (`Exclusive`); a job was tried once exactly when it left the queue
(`Untried`); without crashes, what a scanning worker has behind it is locked by
another, among the jobs that were queued when its claim began (`SteppedOver`; a job that
came later may not be due for it). From it: `NoDoubleHandOut`, `OnceDrains`,
`StatusMovesForward`. `CrashesLoseOneEach` counts: a step that is no crash strands no job
(`NothingElseStrands`, since whoever holds a running job goes on holding it until
it settles it), a crash strands at most the one its worker held.

`PoolFollowsQueue`: every step of the pool is a step of the queue
or a stutter; `PoolHandsOutOnce` follows with the queue's theorem. `AloneStoresCurrent`:
`AloneIsCurrent` says nothing of a file before its last job is done. `PInv` adds
`AllClean`: from the moment the last job of an unraced file is claimed, whoever
has that file in hand has read what is on the disk or nothing yet, and from the moment
the pass over it is done, the index has it. An edit takes the file out of `asked`, and a
second worker with the same file puts it into `raced`; those are the two ways out.

**EmbedPipelineProofs.** The model computes with recursive functions and with folds of the
community modules, so most of its lemmas say what those return. The prover cannot use an
induction theorem over predicates, but it can prove the same over sets: `UpTo` and
`EveryNumber` say that a set of numbers with 0 and every successor is all of them,
`EverySequence` the same of sequences, and a fact is proved as membership in the set of
arguments it holds for. `Recursion` gives, for any step function, the function that the
recursion describes; a `CHOOSE` over recursive functions is then equal to it.

* *chunk_blocks.* `ChunksAreBounded`: `IInv` adds to the types and to the bound itself
  that what is left to place are pieces of the current block (`Pending`).
  `CitationsHold`: `CInv` adds that the buffer's pieces stand where the current block does
  (`BufferStands`), which is why a change of location must flush first. `NoTextIsLost` is
  inductive over `IInv`, once it is known what a longer sequence of chunks flattens
  to (`FlattenAppend`). Documents are any sequences of blocks, the cuts any that `Cuts`
  allows. `PipelineChunks` shows that the pipeline behaves as `Chunking` does, whatever
  it does besides, and `PipelineKeepsItsChunks` carries the three over.
* *redact.* `NothingLegible`, of any finite set of findings: `Sorted` lists it in the order
  of `Before`, a total one (`Ranks`, `SortedSorts`); `detect` keeps findings that lie apart,
  and every finding begins inside one that is kept (`KeptKeeps`); so in what `redact` leaves
  between them no finding stands in full. `NothingSensitiveLeaves` follows, as what is
  put into batches is screened under the policy (`Cleared`).
* *Batches and answers.* `Batches` puts every text into one batch, in order
  (`BatchesCover`), an answer is put back into the order of its indices (`InInputOrder`).
  `VectorsStayAligned` needs `Staged`: the batches still to send cover the chunks from the
  first without a vector to the last (`Covers`).
* *The budget.* `BudgetIsRolling` needs `Paced`: the history variable `admitted` is what
  `LastMinute` keeps of the budget's own list. `MinuteRolls` is what makes it inductive: when
  time passes, what is left of the last minute is a part of what was in it, so it adds up to
  no more.

**SearchProofs.** `IndexIsCoherent`: the abstract index is well typed and
coherent, the invariant that `Search` starts from. `SInv` follows the search
statement by statement: what the queries found (`FoundInv`), its fusion (`RankedInv`),
the answer (`AnswerInv`), what was fetched (`FetchInv`), over `TypeOK` and
`Coherent` of the index. `OnlyRejectedHitsMix`: a row that a query has seen is coherent
with the chunks it has seen under it, or its document was rejected, whatever the
index does afterwards; `BothWin`, whose core is
the lemma `BothBeatOne` about 1/(K+r) + 1/(K+s) > 1/(K+t) for ranks up to K + 1;
`CandidatesOnce` (a candidate is neither dropped nor doubled); `NothingWeakIsAnswered`;
`EvaluationIsHonest`, by `PassedFollowsTheGate`: what passes is decided by the score
of the first hit, as the gate is; `FetchIsWhole`, where the second statement may see
a later index than the first.

**DriveSyncProofs.** `ChangesAreNotMissed`: `NothingMissed` says nothing of a listing
under way. `ListingInv` adds that a file which was visited and has not changed since
the listing began is described exactly as it is. `SyncIsCurrent`: a listing takes its
page token before it lists, so what it has no entry for was not there when the command
began, or has changed since; `SyncInv` follows a file from the listing to the list of files
to fetch, into the hands of the command and into the index. What is overtaken on the
way has a change later than `began`, and is not spoken of.

**WorkspaceProofs.** `TenantRowsAreScoped` is about a cascade that meets transactions which
have not committed, and `Scoped` says nothing of those. `HoldInv` says what a
transaction has locked where it relies on it: who is about to insert a document has
shared the row of its workspace, so that no deletion can have reached it, and is sure of
its connection, stored or about to be; who cascades has locked the workspace's key.
`Exclusive` says that the locks of two transactions never conflict. Together they
exclude a deletion under an insertion; `CascadeKeeps` shows that the cascade leaves
no connection, document or job of the workspace, `CascadeSparesOthers` that it takes away nothing that another
transaction relies on. `GrantReplaces` needs `GrantInv`: as long as no sync with
an older credential was under way when the last one was granted, every sync under way
has read that one and stores no other (a refresh belongs to the grant it came from).

**StackProofs.** `MInv` is the invariant of the runner: `AppliedOnce` and
`OnEarlierFiles` are not inductive, as they say nothing of a transaction under way.
`OpenCalls` adds what a call at its files has read is still recorded, what it has
executed is not recorded by anybody and was executed by no other open call, and
comes after all earlier files of its checkout. From it `RecordedIsExecuted`,
`FilesInOrder` and the refinement `RunnerUpgradesWhole`. `KInv` adds what the containers
know of the database (`ReadyInv`: a call that returned left its whole checkout
recorded, a service was made from a recorded image, and one that runs found a workspace
when it started), which gives `StackIsReady`, and
`StackKeepsTheSchema` carries the runner's theorems into the stack.

**BasiraProofs.** `ClosingIsAccepted`: what `close` has seen is in review with its outcome
and, as it loaded, its pull request (`LookedAt`). If the ticket still has those two when
it is written, it is valid when done, whatever else was changed (`CloseIsAccepted`): the tickets
that are blocked by the closed one lose nothing, as it is not open any more; what it was
blocked by was closed already; and its dates are in order, as the merge was not early.
For the mirror, `PassInv` says what a pass may still rely on of an index of records
that it read at its start:
an entry is about the ticket it is kept under and has the proofs that were attached
before, and a ticket the pass has yet to push has no record it did not see, unless two
passes had to push it (`paired`). That gives `OneRecordPerTicket` and `OwnersProofsStay`.
`QuietInv` adds, for a pass that nobody has disturbed, that the records of the tickets
it has yet to push are as it found them and those of the others are true
(`PassLeavesTrueRecords`).

*Only model-checked*: the liveness properties `EveryIngestEnds`, `EveryJobSettles`,
`GetsIndexed`, `EmbedEnds`, `Converges`, `TransactionsEnd` and `StackComesUp`. They need
the fairness of section 7, and the prover has no ENABLED. The three statements of the
documentation that the code does not keep (section 5) are refuted by TLC.

## 9. What is not modelled

* *The on-device embedding model* (`rag/embedding.py`) is a library call; so are the
  parsers of `extraction/`. The models take what they return as a choice or a constant.
* *Text*: the regular expressions and check sums of `security/pii.py`, `build_tsquery`,
  `select_window`, filters of a search. Which chunks match, and what is found in them,
  is a choice.
* *`list_documents`*, one statement that reads, and the searches with `rerank=False`.
* *Several budgets for one account*: each process paces itself; `EmbedPipeline` has
  one. Two of them exceed an allowance by construction, as nothing connects them.
* *The stack beyond init and its services*: health checks, the database container,
  LibreChat, and `smoke.py`, which asks a running stack and changes nothing in it.
* *BACKLOG.md*, a rendering of the tickets that `backlog check` compares with them, the
  text of a ticket, and `check --prs`, a report.
* *The mirror of one checkout by two passes at once*, and a request that the app executes
  after the pass has given it up.
* *A `.env` that changes between two `up`s*: services are made from their image alone.
* *MCP server, observability, configuration*: stateless wrappers, best-effort writes
  that nothing decides by, values that are read once.

The hazards that no property covers are in `PROJECT.json`, with a note each.

## 10. The plan

The order was: what several processes do to one index (Ingest, then JobQueue, then
both together in WorkerPool); what one pass does (Chunking, EmbedPipeline, Pii); what
readers see (Search); what comes from outside (DriveSync); the workspace all of it
lives in (Workspace); how it gets its schema and its containers (Migrations, Stack); and
the repository's own tickets and their mirror (Backlog, Basira). All of these are
modelled and checked, and their safety is proved. What is left:

| module | what it adds | properties |
|---|---|---|
| `Workspace`, one more run | a worker that outlives its workspace | a queued job of an existing workspace is taken |
| `Ingest` with `JobQueue` | the pool over the pipeline's own transactions instead of one step | `AloneIsCurrent` by composition: the pipeline's refinement of `SerialIndex` under the pool |
| a budget for each process | several workers that pace themselves against one account | how far N budgets can exceed an allowance |
