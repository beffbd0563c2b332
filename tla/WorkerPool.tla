----------------------------- MODULE WorkerPool -----------------------------
(***************************************************************************)
(* The queue at work: the workers of JobQueue, the files their jobs name   *)
(* and the index they fill.  Files are edited at any time; _run_one looks  *)
(* at the size, reads the bytes and ingests them in three steps, so what   *)
(* it stores may be older than the file.  ingest_document is one step      *)
(* here (Ingest has it in detail), and index[f] is the content_hash it     *)
(* leaves in the row of f, which every outcome of it sets.                 *)
(***************************************************************************)
EXTENDS JobQueue

CONSTANTS
  Files,     \* paths that are queued
  Contents,  \* byte strings a file may hold; also their digests
  Big        \* those above --max-size

ASSUME BigAssumption == Big \subseteq Contents

\* None of the markers below is a path or a byte string.
ASSUME MarkersAssumption ==
  "none" \notin Files \cup Contents /\ Contents \cap {"gone", "unseen", "fits"} = {}

VARIABLES
  disk,    \* disk[f]: what f holds, or "gone"
  path,    \* path[j]: payload["path"] of job j, or "none" for an unborn id
  read,    \* read[w]: the bytes _run_one has read, "unseen" before it has
           \* looked at the file and "fits" once its size is known
  index,   \* index[f]: documents.content_hash of f, or "none"
  asked,   \* the files queued since they were last edited
  raced    \* history: files two workers had in hand at once since they
           \* were last queued

pvars == <<vars, disk, path, read, index, asked, raced>>

PInit ==
  /\ Init
  /\ disk \in [Files -> Contents]
  /\ path = [j \in Ids |-> "none"]
  /\ read = [w \in Workers |-> "unseen"]
  /\ index = [f \in Files |-> "none"]
  /\ asked = {}
  /\ raced = {}

-----------------------------------------------------------------------------

\* Somebody writes or deletes a file.
Edit(f) ==
  /\ \E c \in (Contents \cup {"gone"}) \ {disk[f]} : disk' = [disk EXCEPT ![f] = c]
  /\ asked' = asked \ {f}
  /\ UNCHANGED <<vars, path, read, index, raced>>

\* enqueue_paths(paths): one job per file.
EnqueuePaths(n) ==
  /\ Enqueue(n)
  /\ \E paths \in [next..(next + n - 1) -> {f \in Files : disk[f] # "gone"}] :
       /\ path' = [j \in Ids |-> IF j \in DOMAIN paths THEN paths[j] ELSE path[j]]
       /\ asked' = asked \cup {paths[j] : j \in DOMAIN paths}
       /\ raced' = raced \ {paths[j] : j \in DOMAIN paths}
  /\ UNCHANGED <<disk, read, index>>

\* is_file() and stat(): the file may be gone, or too large.
Look(w) ==
  LET f == path[worker[w].job] IN
  /\ At(w, "running") /\ read[w] = "unseen"
  /\ \/ disk[f] = "gone" /\ RunEnds(w, TRUE) /\ UNCHANGED read
     \/ disk[f] \in Big /\ RunEnds(w, FALSE) /\ UNCHANGED read
     \/ disk[f] \in Contents \ Big /\ read' = [read EXCEPT ![w] = "fits"] /\ UNCHANGED vars
  /\ UNCHANGED <<disk, path, index, asked, raced>>

\* read_bytes(): by now the file may be another, or gone, which raises.
Read(w) ==
  LET c == disk[path[worker[w].job]] IN
  /\ At(w, "running") /\ read[w] = "fits"
  /\ \/ c = "gone" /\ RunEnds(w, TRUE) /\ read' = [read EXCEPT ![w] = "unseen"]
     \/ c # "gone" /\ read' = [read EXCEPT ![w] = c] /\ UNCHANGED vars
  /\ UNCHANGED <<disk, path, index, asked, raced>>

\* A slip: a path that is in the index already is not stored again.
IngestNewOnly(w) ==
  LET f == path[worker[w].job] IN
  /\ read[w] \in Contents
  /\ RunEnds(w, FALSE)
  /\ index' = [index EXCEPT ![f] = IF @ = "none" THEN read[w] ELSE @]
  /\ read' = [read EXCEPT ![w] = "unseen"]
  /\ UNCHANGED <<disk, path, asked, raced>>

\* ingest_document commits.
IngestBytes(w) ==
  /\ read[w] \in Contents
  /\ RunEnds(w, FALSE)
  /\ index' = [index EXCEPT ![path[worker[w].job]] = read[w]]
  /\ read' = [read EXCEPT ![w] = "unseen"]
  /\ UNCHANGED <<disk, path, asked, raced>>

\* Slips: the exception ends the worker; it is swallowed and the job is done.
IngestEscapes(w) ==
  /\ read[w] \in Contents
  /\ worker' = [worker EXCEPT ![w] = Stopped]
  /\ read' = [read EXCEPT ![w] = "unseen"]
  /\ UNCHANGED <<status, attempts, next, crashes, disk, path, index, asked, raced>>

IngestSwallows(w) ==
  /\ read[w] \in Contents
  /\ RunEnds(w, FALSE)
  /\ read' = [read EXCEPT ![w] = "unseen"]
  /\ UNCHANGED <<disk, path, index, asked, raced>>

\* ... or raises: run_worker makes the exception the job's error.
IngestRaises(w) ==
  /\ read[w] \in Contents
  /\ RunEnds(w, TRUE)
  /\ read' = [read EXCEPT ![w] = "unseen"]
  /\ UNCHANGED <<disk, path, index, asked, raced>>

Die(w) ==
  /\ Crash(w)
  /\ read' = [read EXCEPT ![w] = "unseen"]
  /\ UNCHANGED <<disk, path, index, asked, raced>>

\* The file w is about to claim a job of, when another worker has it in hand.
Beside(w) ==
  {f \in Files : /\ At(w, "locked") /\ path[worker[w].job] = f
                 /\ \E v \in Workers \ {w} : At(v, "running") /\ path[worker[v].job] = f}

\* The steps of JobQueue that concern no file.
Protocol(w) ==
  /\ \/ Start(w) \/ Begin(w) \/ Scan(w) \/ SkipLocked(w) \/ Lock(w) \/ FindNone(w)
     \/ Claim(w) \/ Finish(w)
  /\ raced' = raced \cup Beside(w)
  /\ UNCHANGED <<disk, path, read, index, asked>>

Tidy == Clear /\ UNCHANGED <<disk, path, read, index, asked, raced>>

RunOne(w) == Look(w) \/ Read(w) \/ IngestBytes(w) \/ IngestRaises(w)

PNext ==
  \/ \E f \in Files : Edit(f)
  \/ \E n \in Ids : EnqueuePaths(n)
  \/ Tidy
  \/ \E w \in Workers : Protocol(w) \/ RunOne(w) \/ Die(w)

PSpec == PInit /\ [][PNext]_pvars

\* A worker goes on with its loop and with its file, and is restarted.
PFairness == \A w \in Workers : WF_pvars(Protocol(w)) /\ WF_pvars(RunOne(w))

PFairSpec == PSpec /\ PFairness

-----------------------------------------------------------------------------
(* Properties. *)

PTypeOK ==
  /\ TypeOK
  /\ disk \in [Files -> Contents \cup {"gone"}]
  /\ path \in [Ids -> Files \cup {"none"}]
  /\ read \in [Workers -> Contents \cup {"unseen", "fits"}]
  /\ index \in [Files -> Contents \cup {"none"}]
  /\ asked \subseteq Files
  /\ raced \subseteq Files

\* The pool follows the protocol of the queue: whatever is proved of JobQueue
\* holds of workers that touch files and fail on them.
FollowsQueue == Spec

JobsOf(f) == {j \in Ids : path[j] = f}

\* The last job that names f has ended without an error.
LastJobDone(f) ==
  \E j \in JobsOf(f) : (\A i \in JobsOf(f) : i <= j) /\ status[j] \in {"done", "cleared"}

\* run_worker: "Drain the ingestion queue".  A file that was queued after its
\* last edit, and whose last job is done, is in the index as it is on the
\* disk: an older read of it must not be stored over a newer one.
\* cli.py, worker: "Safe to run more than one."
DrainedIsCurrent ==
  \A f \in asked : LastJobDone(f) /\ disk[f] \notin Big => index[f] = disk[f]

\* It is, whatever is edited, queued again or crashes meanwhile, for a file
\* that no two workers had in hand at the same time.
AloneIsCurrent ==
  \A f \in asked \ raced : LastJobDone(f) /\ disk[f] \notin Big => index[f] = disk[f]

\* A file that is queued and left alone gets there, unless its job fails, it
\* is too large, a worker dies on it, or two had it at once.
GetsIndexed ==
  \A f \in Files :
    f \in asked ~> \/ f \notin asked \ raced \/ index[f] = disk[f] \/ disk[f] \in Big
                   \/ \E j \in JobsOf(f) : status[j] = "failed" \/ Stranded(j)

=============================================================================
