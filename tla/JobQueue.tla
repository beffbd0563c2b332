------------------------------ MODULE JobQueue ------------------------------
(***************************************************************************)
(* The ingestion queue of one tenant: enqueue_paths and run_worker of      *)
(* go2/jobs/worker.py over the jobs table (claim_job, finish_job and       *)
(* clear_finished_jobs of go2/storage/repository.py).                      *)
(*                                                                         *)
(* A worker claims, ingests and finishes a job in three transactions.      *)
(* claim_job is one statement but not one step: its transaction begins,    *)
(* which is the time its now() gives; then it works on the rows its        *)
(* snapshot saw, meets them one by one in id order while other workers     *)
(* commit, locks the first that is still queued and unlocked, and only its *)
(* commit makes the row "running".                                         *)
(***************************************************************************)
EXTENDS Integers, FiniteSets

CONSTANTS
  Workers,     \* `go2 worker` processes
  Once,        \* those started with --once: they stop at an empty queue
  MaxJobs,     \* bound: ids the sequence of jobs.id hands out
  MaxCrashes   \* bound: times a worker dies

ASSUME OnceAssumption == Once \subseteq Workers
ASSUME BoundsAssumption == MaxJobs \in Nat /\ MaxCrashes \in Nat

VARIABLES
  status,    \* status[j]: the committed status of job j
  attempts,  \* attempts[j]: the committed column of that name
  next,      \* the next value of the id sequence
  worker,    \* what each worker is doing
  crashes    \* how often a worker has died

vars == <<status, attempts, next, worker, crashes>>

Ids == 1..MaxJobs

\* "unborn": the id is not handed out yet; "cleared": the row is deleted.
JobStatuses == {"unborn", "queued", "running", "done", "failed", "cleared"}
Settled     == {"done", "failed", "cleared"}

\* Where a worker is in its loop.
\*   idle     about to claim
\*   begun    the transaction of claim_job has begun: the jobs below upto
\*            were in the queue before
\*   scan     its statement is running: seen is what is left of the jobs its
\*            snapshot found queued and due
\*   locked   it has found and locked job, nothing is committed
\*   running  the claim is committed, _run_one is at work
\*   ran      _run_one is over, error says whether finish_job gets one
\*   stopped  the process has ended, or is not started yet
\*   drained  it ended because claim_job found nothing
Idle     == [pc |-> "idle"]
Stopped  == [pc |-> "stopped"]
Begun    == [pc : {"begun"}, upto : 1..MaxJobs + 1]
Scanning == [pc : {"scan"}, seen : SUBSET Ids, upto : 1..MaxJobs + 1]
Holding  == [pc : {"locked", "running"}, job : Ids]
Ran      == [pc : {"ran"}, job : Ids, error : BOOLEAN]
Drained  == [pc : {"drained"}, upto : 1..MaxJobs + 1]
WorkerStates == {Idle, Stopped} \cup Begun \cup Scanning \cup Holding \cup Ran \cup Drained

At(w, pc) == worker[w].pc = pc

Holds(w, j) == worker[w].pc \in {"locked", "running", "ran"} /\ worker[w].job = j

\* Another transaction has j locked: SKIP LOCKED steps over it.
LockedFor(w, j) == \E v \in Workers \ {w} : At(v, "locked") /\ worker[v].job = j

\* j is the first row of its snapshot a scanning worker has not dealt with.
Meets(w, j) == j \in worker[w].seen /\ \A i \in worker[w].seen : j <= i

Init ==
  /\ status = [j \in Ids |-> "unborn"]
  /\ attempts = [j \in Ids |-> 0]
  /\ next = 1
  /\ worker = [w \in Workers |-> Stopped]
  /\ crashes = 0

-----------------------------------------------------------------------------
(* The foreground: `go2 ingest --background` and `go2 jobs --clear`. *)

\* enqueue_paths: n jobs, all in one transaction.  ensure_connection takes
\* the row of the upload connection first, so two calls do not interleave.
Enqueue(n) ==
  /\ next + n <= MaxJobs + 1
  /\ status' = [j \in Ids |-> IF j \in next..(next + n - 1) THEN "queued" ELSE status[j]]
  /\ next' = next + n
  /\ UNCHANGED <<attempts, worker, crashes>>

\* clear_finished_jobs: the failures are kept for inspection.
Clear ==
  /\ \E j \in Ids : status[j] = "done"
  /\ status' = [j \in Ids |-> IF status[j] = "done" THEN "cleared" ELSE status[j]]
  /\ UNCHANGED <<attempts, next, worker, crashes>>

-----------------------------------------------------------------------------
(* One worker: run_worker. *)

\* A slip: a starting worker takes back whatever is "running".
StartRequeues(w) ==
  /\ At(w, "stopped") \/ At(w, "drained")
  /\ status' = [j \in Ids |-> IF status[j] = "running" THEN "queued" ELSE status[j]]
  /\ worker' = [worker EXCEPT ![w] = Idle]
  /\ UNCHANGED <<attempts, next, crashes>>

Start(w) ==
  /\ At(w, "stopped") \/ At(w, "drained")
  /\ worker' = [worker EXCEPT ![w] = Idle]
  /\ UNCHANGED <<status, attempts, next, crashes>>

\* The transaction of claim_job begins.
Begin(w) ==
  /\ At(w, "idle")
  /\ worker' = [worker EXCEPT ![w] = [pc |-> "begun", upto |-> next]]
  /\ UNCHANGED <<status, attempts, next, crashes>>

\* The snapshot of the SELECT, with run_after <= now().  run_after is the
\* now() of the transaction that queued the job: of the jobs committed since
\* this one began, those are due whose own transaction had begun by then.
Scan(w) ==
  /\ At(w, "begun")
  /\ \E due \in SUBSET (worker[w].upto..(next - 1)) :
       worker' = [worker EXCEPT ![w] =
         [pc |-> "scan", upto |-> @.upto,
          seen |-> {j \in Ids : status[j] = "queued" /\ (j < @.upto \/ j \in due)}]]
  /\ UNCHANGED <<status, attempts, next, crashes>>

\* Slips: the status is not checked again once the lock is had; one job at a
\* time for the whole tenant.
CanTakeStale(w, j) == ~LockedFor(w, j)
CanTakeAlone(w, j) == status[j] = "queued" /\ \A i \in Ids : status[i] # "running"

\* A row that another worker has locked, or claimed since the snapshot (the
\* WHERE clause is checked again on the newest version), is stepped over.
CanTake(w, j) == status[j] = "queued" /\ ~LockedFor(w, j)

\* A slip: LIMIT 1 before the lock, so a locked first row hides the rest.
SkipAll(w) ==
  /\ At(w, "scan")
  /\ \E j \in Ids : Meets(w, j) /\ ~CanTake(w, j)
  /\ worker' = [worker EXCEPT ![w].seen = {}]
  /\ UNCHANGED <<status, attempts, next, crashes>>

SkipLocked(w) ==
  /\ At(w, "scan")
  /\ \E j \in Ids :
       /\ Meets(w, j)
       /\ ~CanTake(w, j)
       /\ worker' = [worker EXCEPT ![w].seen = @ \ {j}]
  /\ UNCHANGED <<status, attempts, next, crashes>>

Lock(w) ==
  /\ At(w, "scan")
  /\ \E j \in Ids :
       /\ Meets(w, j)
       /\ CanTake(w, j)
       /\ worker' = [worker EXCEPT ![w] = [pc |-> "locked", job |-> j]]
  /\ UNCHANGED <<status, attempts, next, crashes>>

\* claim_job returns None: --once ends the loop, otherwise it polls again.
FindNone(w) ==
  /\ At(w, "scan")
  /\ worker[w].seen = {}
  /\ worker' = [worker EXCEPT ![w] =
       IF w \in Once THEN [pc |-> "drained", upto |-> @.upto] ELSE Idle]
  /\ UNCHANGED <<status, attempts, next, crashes>>

\* The UPDATE, and the commit on leaving connect().
Claim(w) ==
  LET j == worker[w].job IN
  /\ At(w, "locked")
  /\ status' = [status EXCEPT ![j] = "running"]
  /\ attempts' = [attempts EXCEPT ![j] = @ + 1]
  /\ worker' = [worker EXCEPT ![w].pc = "running"]
  /\ UNCHANGED <<next, crashes>>

\* _run_one: the file is gone or anything raised (error), or it was too
\* large or went through ingest_document, whatever came of that (no error).
RunEnds(w, error) ==
  /\ At(w, "running")
  /\ worker' = [worker EXCEPT ![w] = [pc |-> "ran", job |-> @.job, error |-> error]]
  /\ UNCHANGED <<status, attempts, next, crashes>>

Run(w) == \E error \in BOOLEAN : RunEnds(w, error)

\* Slips: a failed job is left as it is; the status is not of the enum.
FinishIfDone(w) ==
  LET t == worker[w] IN
  /\ At(w, "ran")
  /\ status' = [status EXCEPT ![t.job] = IF t.error THEN @ ELSE "done"]
  /\ worker' = [worker EXCEPT ![w] = Idle]
  /\ UNCHANGED <<attempts, next, crashes>>

\* finish_job: WHERE id = :job_id, whatever the status is by now.
Finish(w) ==
  LET t == worker[w] IN
  /\ At(w, "ran")
  /\ status' = [status EXCEPT ![t.job] = IF @ = "cleared" THEN @
                                         ELSE IF t.error THEN "failed" ELSE "done"]
  /\ worker' = [worker EXCEPT ![w] = Idle]
  /\ UNCHANGED <<attempts, next, crashes>>

\* The process dies: it is killed, ctrl-c ends it (KeyboardInterrupt is no
\* Exception), or the database is away when it claims or finishes.  What it
\* has locked is unlocked; what it has claimed stays claimed.
Crash(w) ==
  /\ ~At(w, "stopped") /\ ~At(w, "drained")
  /\ crashes < MaxCrashes
  /\ crashes' = crashes + 1
  /\ worker' = [worker EXCEPT ![w] = Stopped]
  /\ UNCHANGED <<status, attempts, next>>

-----------------------------------------------------------------------------

Work(w) ==
  \/ Begin(w) \/ Scan(w) \/ SkipLocked(w) \/ Lock(w) \/ FindNone(w)
  \/ Claim(w) \/ Run(w) \/ Finish(w)

Next ==
  \/ \E n \in Ids : Enqueue(n)
  \/ Clear
  \/ \E w \in Workers : Start(w) \/ Work(w) \/ Crash(w)

Spec == Init /\ [][Next]_vars

\* A live worker goes on; the service (restart: unless-stopped) starts a
\* polling worker again.  Nobody has to start a --once worker.
Fairness ==
  /\ \A w \in Workers : WF_vars(Work(w))
  /\ \A w \in Workers \ Once : WF_vars(Start(w))

FairSpec == Spec /\ Fairness

-----------------------------------------------------------------------------
(* Properties. *)

TypeOK ==
  /\ status \in [Ids -> JobStatuses]
  /\ attempts \in [Ids -> Nat]
  /\ next \in 1..MaxJobs + 1
  /\ worker \in [Workers -> WorkerStates]
  /\ crashes \in 0..MaxCrashes

\* claim_job: "no job is handed out twice", by two workers at once or by one
\* after another; a crash between the lock and the commit does not count.
HandedOutOnce ==
  /\ \A v, w \in Workers : \A j \in Ids : Holds(v, j) /\ Holds(w, j) => v = w
  /\ \A j \in Ids : attempts[j] <= 1

\* A job only ever goes queued, running, done or failed: finish_job names no
\* state it expects, and still never settles a job that is queued or already
\* settled.
NeverBackwards ==
  [][\A j \in Ids : status'[j] # status[j] =>
       <<status[j], status'[j]>> \in
         {<<"unborn", "queued">>, <<"queued", "running">>, <<"running", "done">>,
          <<"running", "failed">>, <<"done", "cleared">>}]_vars

\* Nobody will touch j again: it is "running" and its worker has died.
Stranded(j) == status[j] = "running" /\ ~\E w \in Workers : Holds(w, j)

\* Every death of a worker leaves at most one job "running" with nobody at
\* work on it, and nothing else does.
OneLostPerCrash == Cardinality({j \in Ids : Stranded(j)}) <= crashes

\* run_worker: "Stop when the queue empties".  A --once worker that stopped
\* left no job behind that was queued when its last claim began: what SKIP LOCKED
\* made it step over, another worker is taking (as long as none crashes).
NothingLeftBehind ==
  crashes = 0 =>
    \A w \in Workers : At(w, "drained") =>
      \A j \in Ids : j < worker[w].upto /\ status[j] = "queued" => LockedFor(w, j)

\* A queued job is taken and ends, unless the worker that took it dies: no
\* order of workers, crashes and rollbacks leaves it in the queue.
EveryJobSettles ==
  \A j \in Ids : status[j] = "queued" ~> (status[j] \in Settled \/ Stranded(j))

\* worker.py: "a crash mid-file leaves the job claimable again rather than
\* lost".
NoJobLost == \A j \in Ids : status[j] = "queued" ~> status[j] \in Settled

=============================================================================
