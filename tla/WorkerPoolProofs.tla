--------------------------- MODULE WorkerPoolProofs ---------------------------
(***************************************************************************)
(* Theorems about JobQueue and WorkerPool, for any number of workers,      *)
(* jobs, files and crashes.                                                *)
(*                                                                         *)
(* The inductive invariant of the queue says what a claim relies on at     *)
(* each of its steps: a job is held in the status that goes with its       *)
(* holder's step and by no other worker, and, until the first crash, a     *)
(* scanning worker has stepped over nothing but jobs that another worker   *)
(* has locked.  That of the pool adds what a worker may have in hand of a  *)
(* file.                                                                   *)
(***************************************************************************)
EXTENDS WorkerPool, TLAPS, FiniteSetTheorems

Unborn == \A j \in Ids : status[j] = "unborn" <=> j >= next

HeldRight(w) ==
  /\ At(w, "locked") => status[worker[w].job] = "queued"
  /\ At(w, "running") \/ At(w, "ran") => status[worker[w].job] = "running"

HeldStatus == \A w \in Workers : HeldRight(w)

Exclusive == \A v, w \in Workers : \A j \in Ids : Holds(v, j) /\ Holds(w, j) => v = w

Untried ==
  \A j \in Ids : attempts[j] = IF status[j] \in {"unborn", "queued"} THEN 0 ELSE 1

\* What a worker has looked at is behind it: queued rows below its snapshot's
\* limit are still ahead of it, or locked by another.
Behind(w, j) == j < worker[w].upto /\ status[j] = "queued"

SkipsOnlyLocked(w) ==
  /\ At(w, "begun") => worker[w].upto <= next
  /\ At(w, "scan") =>
       /\ worker[w].upto <= next
       /\ \A j \in Ids : Behind(w, j) => j \in worker[w].seen \/ LockedFor(w, j)
  /\ At(w, "drained") =>
       /\ worker[w].upto <= next
       /\ \A j \in Ids : Behind(w, j) => LockedFor(w, j)

SteppedOver == crashes = 0 => \A w \in Workers : SkipsOnlyLocked(w)

IInv == TypeOK /\ Unborn /\ HeldStatus /\ Exclusive /\ Untried /\ SteppedOver

-----------------------------------------------------------------------------
(* Helpers. *)

LEMMA Numbers == MaxJobs \in Nat /\ MaxCrashes \in Nat /\ Ids \subseteq Nat
BY BoundsAssumption DEF Ids

\* The fields of a worker state follow from its pc.
LEMMA Shapes ==
  ASSUME NEW s \in WorkerStates
  PROVE  /\ s.pc = "scan" => s.seen \in SUBSET Ids /\ s.upto \in 1..MaxJobs + 1
         /\ s.pc \in {"locked", "running", "ran"} => s.job \in Ids
         /\ s.pc = "ran" => s.error \in BOOLEAN
         /\ s.pc \in {"begun", "drained"} => s.upto \in 1..MaxJobs + 1
         /\ s.pc = "locked" => s = [pc |-> "locked", job |-> s.job]
         /\ s.pc = "scan" => s = [pc |-> "scan", seen |-> s.seen, upto |-> s.upto]
BY DEF WorkerStates, Idle, Stopped, Begun, Scanning, Holding, Ran, Drained

LEMMA Builds ==
  /\ Idle \in WorkerStates /\ Stopped \in WorkerStates
  /\ \A S \in SUBSET Ids, n \in 1..MaxJobs + 1 : [pc |-> "scan", seen |-> S, upto |-> n] \in WorkerStates
  /\ \A j \in Ids : [pc |-> "locked", job |-> j] \in WorkerStates
  /\ \A j \in Ids : [pc |-> "running", job |-> j] \in WorkerStates
  /\ \A j \in Ids, e \in BOOLEAN : [pc |-> "ran", job |-> j, error |-> e] \in WorkerStates
  /\ \A n \in 1..MaxJobs + 1 : [pc |-> "begun", upto |-> n] \in WorkerStates
  /\ \A n \in 1..MaxJobs + 1 : [pc |-> "drained", upto |-> n] \in WorkerStates
BY DEF WorkerStates, Idle, Stopped, Begun, Scanning, Holding, Ran, Drained

-----------------------------------------------------------------------------
(* The type invariant. *)

LEMMA TypeInit == Init => TypeOK
BY Numbers, Builds DEF Init, TypeOK, JobStatuses

LEMMA TypeStep == TypeOK /\ [Next]_vars => TypeOK'
<1> SUFFICES ASSUME TypeOK, [Next]_vars PROVE TypeOK'
  OBVIOUS
<1> USE Numbers
<1>1. ASSUME NEW n \in Ids, Enqueue(n) PROVE TypeOK'
  BY <1>1 DEF Enqueue, TypeOK, JobStatuses, Ids
<1>2. CASE Clear
  BY <1>2 DEF Clear, TypeOK, JobStatuses
<1>3. ASSUME NEW w \in Workers, Start(w) PROVE TypeOK'
  BY <1>3, Builds DEF Start, TypeOK
<1>4. ASSUME NEW w \in Workers, Scan(w) PROVE TypeOK'
  <2>1. worker[w] \in WorkerStates /\ worker[w].pc = "begun"
    BY <1>4 DEF Scan, TypeOK, At
  <2>2. worker[w].upto \in 1..MaxJobs + 1
    BY <2>1, Shapes
  <2>3. PICK due \in SUBSET (worker[w].upto..(next - 1)) :
          worker' = [worker EXCEPT ![w] =
            [pc |-> "scan", upto |-> worker[w].upto,
             seen |-> {j \in Ids : status[j] = "queued" /\ (j < worker[w].upto \/ j \in due)}]]
    BY <1>4 DEF Scan
  <2> DEFINE S == {j \in Ids : status[j] = "queued" /\ (j < worker[w].upto \/ j \in due)}
  <2>4. S \in SUBSET Ids
    OBVIOUS
  <2>5. [pc |-> "scan", upto |-> worker[w].upto, seen |-> S] \in WorkerStates
    <3> HIDE DEF S
    <3> QED BY <2>2, <2>4, Builds
  <2> QED BY <1>4, <2>3, <2>5 DEF Scan, TypeOK
<1>5. ASSUME NEW w \in Workers, SkipLocked(w) PROVE TypeOK'
  <2>1. PICK j \in Ids : worker' = [worker EXCEPT ![w].seen = @ \ {j}]
    BY <1>5 DEF SkipLocked
  <2>2. worker[w] \in WorkerStates /\ worker[w].pc = "scan"
    BY <1>5 DEF SkipLocked, TypeOK, At
  <2>3. [worker[w] EXCEPT !.seen = @ \ {j}] \in WorkerStates
    BY <2>2 DEF WorkerStates, Idle, Stopped, Begun, Scanning, Holding, Ran, Drained
  <2> QED BY <1>5, <2>1, <2>3 DEF SkipLocked, TypeOK
<1>6. ASSUME NEW w \in Workers, Lock(w) PROVE TypeOK'
  BY <1>6, Builds DEF Lock, TypeOK
<1>7. ASSUME NEW w \in Workers, FindNone(w) PROVE TypeOK'
  <2>1. worker[w] \in WorkerStates /\ worker[w].pc = "scan"
    BY <1>7 DEF FindNone, TypeOK, At
  <2>2. [pc |-> "drained", upto |-> worker[w].upto] \in WorkerStates
    BY <2>1, Shapes, Builds
  <2> QED BY <1>7, <2>2, Builds DEF FindNone, TypeOK
<1>8. ASSUME NEW w \in Workers, Claim(w) PROVE TypeOK'
  <2>1. worker[w] \in WorkerStates /\ worker[w].pc = "locked"
    BY <1>8 DEF Claim, TypeOK, At
  <2>2. [worker[w] EXCEPT !.pc = "running"] \in WorkerStates
    BY <2>1 DEF WorkerStates, Idle, Stopped, Begun, Scanning, Holding, Ran, Drained
  <2>3. worker' \in [Workers -> WorkerStates]
    BY <1>8, <2>2 DEF Claim, TypeOK
  <2>4. status' \in [Ids -> JobStatuses]
    BY <1>8 DEF Claim, TypeOK, JobStatuses
  <2>5. attempts' \in [Ids -> Nat]
    <3>1. worker[w].job \in Ids
      BY <2>1, Shapes
    <3> QED BY <1>8, <3>1 DEF Claim, TypeOK
  <2> QED BY <1>8, <2>3, <2>4, <2>5 DEF Claim, TypeOK
<1>9. ASSUME NEW w \in Workers, Run(w) PROVE TypeOK'
  <2>1. worker[w] \in WorkerStates /\ worker[w].job \in Ids
    BY <1>9, Shapes DEF Run, RunEnds, TypeOK, At
  <2> QED BY <1>9, <2>1, Builds DEF Run, RunEnds, TypeOK
<1>10. ASSUME NEW w \in Workers, Finish(w) PROVE TypeOK'
  BY <1>10, Builds DEF Finish, TypeOK, JobStatuses
<1>11. ASSUME NEW w \in Workers, Crash(w) PROVE TypeOK'
  BY <1>11, Builds DEF Crash, TypeOK
<1>12. ASSUME NEW w \in Workers, Begin(w) PROVE TypeOK'
  BY <1>12, Builds DEF Begin, TypeOK
<1>13. CASE UNCHANGED vars
  BY <1>13 DEF vars, TypeOK
<1> QED BY <1>1, <1>2, <1>3, <1>4, <1>5, <1>6, <1>7, <1>8, <1>9, <1>10, <1>11, <1>12, <1>13
       DEF Next, Work

\* Type correctness of the queue.
THEOREM Typing == Spec => []TypeOK
BY TypeInit, TypeStep, PTL DEF Spec

-----------------------------------------------------------------------------
(* The inductive invariant. *)

LEMMA InvInit == Init => IInv
<1> SUFFICES ASSUME Init PROVE IInv
  OBVIOUS
<1>1. TypeOK
  BY TypeInit
<1>2. Unborn
  BY Numbers DEF Init, Unborn, Ids
<1>3. HeldStatus /\ Exclusive /\ SteppedOver
  BY DEF Init, HeldStatus, HeldRight, Exclusive, SteppedOver, SkipsOnlyLocked, Holds, At, Stopped
<1>4. Untried
  BY DEF Init, Untried
<1> QED BY <1>1, <1>2, <1>3, <1>4 DEF IInv

\* The steps of the foreground change no worker and hold no job.
LEMMA EnqueueStep ==
  ASSUME IInv, TypeOK', NEW n \in Ids, Enqueue(n)
  PROVE  IInv'
<1> USE Numbers
<1>1. /\ next \in Nat /\ n \in Nat /\ worker' = worker /\ attempts' = attempts /\ crashes' = crashes
      /\ next' = next + n
      /\ \A j \in Ids : status'[j] = IF j >= next /\ j < next + n THEN "queued" ELSE status[j]
  BY DEF Enqueue, IInv, TypeOK, Ids
<1>2. \A j \in Ids : status[j] # "unborn" => status'[j] = status[j]
  BY <1>1 DEF IInv, Unborn
<1>3. Unborn'
  BY <1>1 DEF IInv, Unborn, Ids
<1>4. HeldStatus'
  <2> SUFFICES ASSUME NEW w \in Workers PROVE HeldRight(w)'
    BY DEF HeldStatus
  <2>1. worker[w] \in WorkerStates
    BY DEF IInv, TypeOK
  <2>2. worker[w].pc \in {"locked", "running", "ran"} => worker[w].job \in Ids
    BY <2>1, Shapes
  <2> QED BY <1>1, <1>2, <2>2 DEF IInv, HeldStatus, HeldRight, At
<1>5. Exclusive'
  BY <1>1 DEF IInv, Exclusive, Holds
<1>6. Untried'
  BY <1>1 DEF IInv, Untried, Unborn
<1>7. SteppedOver'
  <2> SUFFICES ASSUME crashes = 0, NEW w \in Workers PROVE SkipsOnlyLocked(w)'
    BY <1>1 DEF SteppedOver
  <2>1. worker[w] \in WorkerStates
    BY DEF IInv, TypeOK
  <2>2. \A j \in Ids : j < worker[w].upto /\ worker[w].upto <= next /\ worker[w].upto \in Nat
                         => status'[j] = status[j]
    BY <1>1, <1>2 DEF Ids
  <2>3. worker[w].pc \in {"begun", "scan", "drained"} => worker[w].upto \in Nat
    BY <2>1, Shapes
  <2>4. worker[w].pc \in {"begun", "scan", "drained"} => worker[w].upto <= next /\ next <= next'
    BY <1>1 DEF IInv, SteppedOver, SkipsOnlyLocked, At
  <2>5. /\ \A j \in Ids : LockedFor(w, j)' <=> LockedFor(w, j)
        /\ worker[w].pc \in {"scan", "drained"} => \A j \in Ids : Behind(w, j)' => Behind(w, j)
    BY <1>1, <2>2, <2>3, <2>4 DEF LockedFor, Behind, At
  <2>6. worker[w].pc \in {"begun", "scan", "drained"} => worker[w].upto <= next'
    BY <1>1, <2>3, <2>4
  <2> QED BY <1>1, <2>5, <2>6 DEF IInv, SteppedOver, SkipsOnlyLocked, At
<1> QED BY <1>3, <1>4, <1>5, <1>6, <1>7 DEF IInv

LEMMA ClearStep == ASSUME IInv, TypeOK', Clear PROVE IInv'
<1>1. /\ worker' = worker /\ attempts' = attempts /\ crashes' = crashes /\ next' = next
      /\ \A j \in Ids : status'[j] = IF status[j] = "done" THEN "cleared" ELSE status[j]
  BY DEF Clear
<1>2. Unborn' /\ Untried'
  BY <1>1 DEF IInv, Unborn, Untried
<1>3. HeldStatus'
  <2> SUFFICES ASSUME NEW w \in Workers PROVE HeldRight(w)'
    BY DEF HeldStatus
  <2>1. worker[w].pc \in {"locked", "running", "ran"} => worker[w].job \in Ids
    BY Shapes DEF IInv, TypeOK
  <2> QED BY <1>1, <2>1 DEF IInv, HeldStatus, HeldRight, At
<1>4. Exclusive' /\ SteppedOver'
  BY <1>1 DEF IInv, Exclusive, Holds, SteppedOver, SkipsOnlyLocked, Behind, LockedFor, At
<1> QED BY <1>2, <1>3, <1>4 DEF IInv

\* A step of worker w leaves the others where they are.
LEMMA Others ==
  ASSUME TypeOK, NEW w \in Workers, Start(w) \/ Work(w) \/ Crash(w),
         NEW v \in Workers, v # w
  PROVE  worker'[v] = worker[v]
BY DEF TypeOK, Start, Work, Crash, Begin, Scan, SkipLocked, Lock, FindNone, Claim, Run, RunEnds, Finish

\* Steps that touch no row and lock no job: w holds what it held, or nothing.
LEMMA QuietStep ==
  ASSUME IInv, TypeOK', NEW w \in Workers, UNCHANGED <<status, attempts, next, crashes>>,
         \A v \in Workers \ {w} : worker'[v] = worker[v],
         \A j \in Ids : Holds(w, j)' => Holds(w, j),
         ~At(w, "locked"), ~At(w, "locked")',
         worker'[w].pc = "ran" => worker[w].pc = "running" \/ worker[w].pc = "ran",
         worker'[w].pc # "running",
         crashes = 0 => SkipsOnlyLocked(w)'
  PROVE  IInv'
<1>1. \A v \in Workers, j \in Ids : Holds(v, j)' => Holds(v, j)
  BY DEF Holds
<1>2. Unborn' /\ Untried'
  BY DEF IInv, Unborn, Untried
<1>3. Exclusive'
  BY <1>1 DEF IInv, Exclusive
<1>4. HeldStatus'
  <2> SUFFICES ASSUME NEW v \in Workers PROVE HeldRight(v)'
    BY DEF HeldStatus
  <2>1. CASE v # w
    BY <2>1 DEF IInv, HeldStatus, HeldRight, At
  <2>2. CASE v = w
    <3>1. worker'[w].pc = "ran" => worker'[w].job \in Ids
      BY Shapes DEF TypeOK
    <3>2. worker'[w].pc = "ran" => Holds(w, worker'[w].job)
      BY <3>1 DEF Holds
    <3> QED BY <2>2, <3>2 DEF IInv, HeldStatus, HeldRight, At, Holds
  <2> QED BY <2>1, <2>2
<1>5. SteppedOver'
  <2> SUFFICES ASSUME crashes = 0, NEW v \in Workers, v # w PROVE SkipsOnlyLocked(v)'
    BY DEF SteppedOver
  <2>1. \A j \in Ids : LockedFor(v, j) => LockedFor(v, j)'
    BY DEF LockedFor, At
  <2> QED BY <2>1 DEF IInv, SteppedOver, SkipsOnlyLocked, Behind, At
<1> QED BY <1>2, <1>3, <1>4, <1>5 DEF IInv

LEMMA LockStep == ASSUME IInv, TypeOK', NEW w \in Workers, Lock(w) PROVE IInv'
<1>1. PICK j \in Ids : /\ Meets(w, j) /\ CanTake(w, j)
                       /\ worker' = [worker EXCEPT ![w] = [pc |-> "locked", job |-> j]]
  BY DEF Lock
<1>2. /\ UNCHANGED <<status, attempts, next, crashes>>
      /\ worker'[w] = [pc |-> "locked", job |-> j]
      /\ \A v \in Workers \ {w} : worker'[v] = worker[v]
  BY <1>1 DEF Lock, IInv, TypeOK
<1>3. \A v \in Workers : ~Holds(v, j)
  <2> SUFFICES ASSUME NEW v \in Workers, Holds(v, j) PROVE FALSE
    OBVIOUS
  <2>1. v # w
    BY DEF Lock, Holds, At
  <2>2. ~At(v, "locked")
    BY <1>1, <2>1 DEF CanTake, LockedFor, Holds
  <2>3. status[j] = "running"
    BY <2>2 DEF IInv, HeldStatus, HeldRight, Holds, At
  <2> QED BY <1>1, <2>3 DEF CanTake
<1>4. Unborn' /\ Untried'
  BY <1>2 DEF IInv, Unborn, Untried
<1>5. HeldStatus'
  BY <1>1, <1>2 DEF IInv, HeldStatus, HeldRight, At, CanTake
<1>6. Exclusive'
  BY <1>2, <1>3 DEF IInv, Exclusive, Holds
<1>7. SteppedOver'
  <2> SUFFICES ASSUME crashes = 0, NEW v \in Workers PROVE SkipsOnlyLocked(v)'
    BY <1>2 DEF SteppedOver
  <2>1. CASE v = w
    BY <1>2, <2>1 DEF SkipsOnlyLocked, At
  <2>2. CASE v # w
    <3>1. \A i \in Ids : LockedFor(v, i) => LockedFor(v, i)'
      BY <1>2 DEF LockedFor, At, Lock
    <3> QED BY <1>2, <2>2, <3>1 DEF IInv, SteppedOver, SkipsOnlyLocked, Behind, At
  <2> QED BY <2>1, <2>2
<1> QED BY <1>4, <1>5, <1>6, <1>7 DEF IInv

\* Claim and Finish change the status of the one job w holds, away from
\* "queued" or from "running" to a settled one, and unlock nothing else.
LEMMA OwnJobStep ==
  ASSUME IInv, TypeOK', NEW w \in Workers, NEW j \in Ids, Holds(w, j), NEW s,
         status' = [status EXCEPT ![j] = s], s # "unborn", s # "queued",
         status[j] # "unborn",
         next' = next, crashes' = crashes, Untried',
         \A v \in Workers \ {w} : worker'[v] = worker[v],
         \A i \in Ids : Holds(w, i)' => i = j,
         HeldRight(w)', ~At(w, "begun")', ~At(w, "scan")', ~At(w, "drained")'
  PROVE  IInv'
<1>1. status \in [Ids -> JobStatuses] /\ status'[j] = s /\ \A i \in Ids \ {j} : status'[i] = status[i]
  BY DEF IInv, TypeOK
<1>2. Unborn'
  BY <1>1 DEF IInv, Unborn
<1>3. \A v \in Workers, i \in Ids : Holds(v, i)' => Holds(v, i)
  BY DEF Holds
<1>4. Exclusive'
  BY <1>3 DEF IInv, Exclusive
<1>5. HeldStatus'
  <2> SUFFICES ASSUME NEW v \in Workers, v # w PROVE HeldRight(v)'
    BY DEF HeldStatus
  <2>1. worker[v].pc \in {"locked", "running", "ran"} => Holds(v, worker[v].job) /\ worker[v].job \in Ids
    BY Shapes DEF IInv, TypeOK, Holds
  <2>2. worker[v].pc \in {"locked", "running", "ran"} => worker[v].job # j
    BY <2>1 DEF IInv, Exclusive
  <2> QED BY <1>1, <2>1, <2>2 DEF IInv, HeldStatus, HeldRight, At
<1>6. SteppedOver'
  <2> SUFFICES ASSUME crashes = 0, NEW v \in Workers, v # w PROVE SkipsOnlyLocked(v)'
    BY DEF SteppedOver, SkipsOnlyLocked
  <2>1. \A i \in Ids : Behind(v, i)' => i # j /\ Behind(v, i)
    BY <1>1 DEF Behind
  <2>2. \A i \in Ids : i # j /\ LockedFor(v, i) => LockedFor(v, i)'
    BY DEF LockedFor, At, Holds
  <2> QED BY <2>1, <2>2 DEF IInv, SteppedOver, SkipsOnlyLocked, At
<1> QED BY <1>2, <1>4, <1>5, <1>6 DEF IInv

LEMMA CrashStep == ASSUME IInv, TypeOK', NEW w \in Workers, Crash(w) PROVE IInv'
<1>1. /\ UNCHANGED <<status, attempts, next>>
      /\ worker'[w] = Stopped
      /\ \A v \in Workers \ {w} : worker'[v] = worker[v]
      /\ crashes' # 0
  BY DEF Crash, IInv, TypeOK
<1>2. Unborn' /\ Untried'
  BY <1>1 DEF IInv, Unborn, Untried
<1>3. HeldStatus'
  BY <1>1 DEF IInv, HeldStatus, HeldRight, At, Stopped
<1>4. Exclusive'
  BY <1>1 DEF IInv, Exclusive, Holds, Stopped
<1>5. SteppedOver'
  BY <1>1 DEF SteppedOver
<1> QED BY <1>2, <1>3, <1>4, <1>5 DEF IInv

LEMMA InvStep == IInv /\ [Next]_vars => IInv'
<1> SUFFICES ASSUME IInv, [Next]_vars PROVE IInv'
  OBVIOUS
<1> USE Numbers
<1>0. TypeOK /\ TypeOK'
  BY TypeStep DEF IInv
<1>1. ASSUME NEW n \in Ids, Enqueue(n) PROVE IInv'
  BY <1>0, <1>1, EnqueueStep
<1>2. CASE Clear
  BY <1>0, <1>2, ClearStep
<1>3. ASSUME NEW w \in Workers, Start(w) PROVE IInv'
  <2>1. \A v \in Workers \ {w} : worker'[v] = worker[v]
    BY <1>0, <1>3, Others
  <2>2. worker'[w] = Idle
    BY <1>0, <1>3 DEF Start, TypeOK
  <2> QED BY <1>0, <1>3, <2>1, <2>2, QuietStep DEF Start, At, Holds, Idle, SkipsOnlyLocked
<1>4. ASSUME NEW w \in Workers, Scan(w) PROVE IInv'
  <2>1. \A v \in Workers \ {w} : worker'[v] = worker[v]
    BY <1>0, <1>4, Others DEF Work
  <2>2. PICK due \in SUBSET (worker[w].upto..(next - 1)) :
          worker'[w] = [pc |-> "scan", upto |-> worker[w].upto,
                        seen |-> {j \in Ids : status[j] = "queued" /\ (j < worker[w].upto \/ j \in due)}]
    BY <1>0, <1>4 DEF Scan, TypeOK
  <2>3. UNCHANGED <<status, attempts, next, crashes>> /\ At(w, "begun")
    BY <1>4 DEF Scan
  <2>4. crashes = 0 => SkipsOnlyLocked(w)'
    BY <2>2, <2>3 DEF IInv, SteppedOver, SkipsOnlyLocked, Behind, At
  <2> QED BY <1>0, <2>1, <2>2, <2>3, <2>4, QuietStep DEF At, Holds
<1>5. ASSUME NEW w \in Workers, SkipLocked(w) PROVE IInv'
  <2>1. \A v \in Workers \ {w} : worker'[v] = worker[v]
    BY <1>0, <1>5, Others DEF Work
  <2>2. PICK j \in Ids : ~CanTake(w, j) /\ worker' = [worker EXCEPT ![w].seen = @ \ {j}]
    BY <1>5 DEF SkipLocked
  <2>3. worker[w] \in WorkerStates /\ worker[w].pc = "scan" /\ UNCHANGED <<status, attempts, next, crashes>>
    BY <1>0, <1>5 DEF SkipLocked, TypeOK, At
  <2>4. worker'[w] = [pc |-> "scan", seen |-> worker[w].seen \ {j}, upto |-> worker[w].upto]
    <3>1. worker'[w] = [worker[w] EXCEPT !.seen = @ \ {j}]
      BY <1>0, <2>2 DEF TypeOK
    <3>2. worker[w] = [pc |-> "scan", seen |-> worker[w].seen, upto |-> worker[w].upto]
      BY <2>3, Shapes
    <3> DEFINE S == worker[w].seen
               n == worker[w].upto
    <3> HIDE DEF S, n
    <3>3. [[pc |-> "scan", seen |-> S, upto |-> n] EXCEPT !.seen = @ \ {j}]
             = [pc |-> "scan", seen |-> S \ {j}, upto |-> n]
      OBVIOUS
    <3> QED BY <3>1, <3>2, <3>3 DEF S, n
  <2>5. \A i \in Ids : LockedFor(w, i)' <=> LockedFor(w, i)
    BY <2>1 DEF LockedFor, At
  <2>6. crashes = 0 => SkipsOnlyLocked(w)'
    BY <2>2, <2>3, <2>4, <2>5 DEF IInv, SteppedOver, SkipsOnlyLocked, Behind, At, CanTake
  <2> QED BY <1>0, <2>1, <2>3, <2>4, <2>6, QuietStep DEF At, Holds
<1>6. ASSUME NEW w \in Workers, Lock(w) PROVE IInv'
  BY <1>0, <1>6, LockStep
<1>7. ASSUME NEW w \in Workers, FindNone(w) PROVE IInv'
  <2>1. \A v \in Workers \ {w} : worker'[v] = worker[v]
    BY <1>0, <1>7, Others DEF Work
  <2>2. /\ worker'[w] = IF w \in Once THEN [pc |-> "drained", upto |-> worker[w].upto] ELSE Idle
        /\ UNCHANGED <<status, attempts, next, crashes>> /\ At(w, "scan") /\ worker[w].seen = {}
    BY <1>0, <1>7 DEF FindNone, TypeOK
  <2>3. \A i \in Ids : LockedFor(w, i)' <=> LockedFor(w, i)
    BY <2>1 DEF LockedFor, At
  <2>4. crashes = 0 => SkipsOnlyLocked(w)'
    BY <2>2, <2>3 DEF IInv, SteppedOver, SkipsOnlyLocked, Behind, At, Idle
  <2> QED BY <1>0, <2>1, <2>2, <2>4, QuietStep DEF At, Holds, Idle
<1>8. ASSUME NEW w \in Workers, Claim(w) PROVE IInv'
  <2> DEFINE j == worker[w].job
  <2>1. \A v \in Workers \ {w} : worker'[v] = worker[v]
    BY <1>0, <1>8, Others DEF Work
  <2>2. worker[w] \in WorkerStates /\ worker[w].pc = "locked"
    BY <1>0, <1>8 DEF Claim, TypeOK, At
  <2>3. worker[w] = [pc |-> "locked", job |-> j] /\ j \in Ids
    BY <2>2, Shapes
  <2>4. worker'[w] = [pc |-> "running", job |-> j]
    BY <1>0, <1>8, <2>3 DEF Claim, TypeOK
  <2>5. status[j] = "queued" /\ attempts[j] = 0
    BY <2>2, <2>3 DEF IInv, HeldStatus, HeldRight, Untried, At
  <2>6. /\ status' = [status EXCEPT ![j] = "running"] /\ attempts' = [attempts EXCEPT ![j] = @ + 1]
        /\ next' = next /\ crashes' = crashes
    BY <1>8 DEF Claim
  <2>7. Untried'
    BY <1>0, <2>3, <2>5, <2>6 DEF IInv, Untried, TypeOK
  <2>8. HeldRight(w)' /\ Holds(w, j) /\ ~At(w, "begun")' /\ ~At(w, "scan")' /\ ~At(w, "drained")'
        /\ \A i \in Ids : Holds(w, i)' => i = j
    BY <1>0, <2>2, <2>3, <2>4, <2>6 DEF HeldRight, Holds, At, TypeOK
  <2> HIDE DEF j
  <2> QED BY <1>0, <2>1, <2>3, <2>5, <2>6, <2>7, <2>8, OwnJobStep
<1>9. ASSUME NEW w \in Workers, Run(w) PROVE IInv'
  <2>1. \A v \in Workers \ {w} : worker'[v] = worker[v]
    BY <1>0, <1>9, Others DEF Work
  <2>2. PICK e \in BOOLEAN : worker' = [worker EXCEPT ![w] = [pc |-> "ran", job |-> @.job, error |-> e]]
    BY <1>9 DEF Run, RunEnds
  <2>3. worker'[w] = [pc |-> "ran", job |-> worker[w].job, error |-> e]
    BY <1>0, <2>2 DEF TypeOK
  <2>4. UNCHANGED <<status, attempts, next, crashes>> /\ At(w, "running")
    BY <1>9 DEF Run, RunEnds
  <2> QED BY <1>0, <2>1, <2>3, <2>4, QuietStep DEF At, Holds, SkipsOnlyLocked
<1>10. ASSUME NEW w \in Workers, Finish(w) PROVE IInv'
  <2> DEFINE j == worker[w].job
             s == IF worker[w].error THEN "failed" ELSE "done"
  <2>1. \A v \in Workers \ {w} : worker'[v] = worker[v]
    BY <1>0, <1>10, Others DEF Work
  <2>2. worker[w].pc = "ran" /\ j \in Ids
    BY <1>0, <1>10, Shapes DEF Finish, TypeOK, At
  <2>3. status[j] = "running" /\ attempts[j] = 1
    BY <2>2 DEF IInv, HeldStatus, HeldRight, Untried, At
  <2>4. /\ status' = [status EXCEPT ![j] = s] /\ attempts' = attempts
        /\ next' = next /\ crashes' = crashes /\ worker'[w] = Idle
    BY <1>0, <1>10, <2>3 DEF Finish, TypeOK
  <2>5. s # "unborn" /\ s # "queued"
    OBVIOUS
  <2>6. Untried'
    BY <1>0, <2>2, <2>3, <2>4, <2>5 DEF IInv, Untried, TypeOK
  <2>7. HeldRight(w)' /\ Holds(w, j) /\ ~At(w, "begun")' /\ ~At(w, "scan")' /\ ~At(w, "drained")'
        /\ \A i \in Ids : Holds(w, i)' => i = j
    BY <2>2, <2>4 DEF HeldRight, Holds, At, Idle
  <2> HIDE DEF j, s
  <2> QED BY <1>0, <2>1, <2>2, <2>3, <2>4, <2>5, <2>6, <2>7, OwnJobStep
<1>11. ASSUME NEW w \in Workers, Crash(w) PROVE IInv'
  BY <1>0, <1>11, CrashStep
<1>12. ASSUME NEW w \in Workers, Begin(w) PROVE IInv'
  <2>1. \A v \in Workers \ {w} : worker'[v] = worker[v]
    BY <1>0, <1>12, Others DEF Work
  <2>2. worker'[w] = [pc |-> "begun", upto |-> next] /\ next \in Nat
    BY <1>0, <1>12 DEF Begin, TypeOK
  <2>3. UNCHANGED <<status, attempts, next, crashes>> /\ At(w, "idle")
    BY <1>12 DEF Begin
  <2>4. SkipsOnlyLocked(w)'
    BY <2>2, <2>3 DEF SkipsOnlyLocked, At
  <2> QED BY <1>0, <2>1, <2>2, <2>3, <2>4, QuietStep DEF At, Holds
<1>13. CASE UNCHANGED vars
  BY <1>13 DEF vars, IInv, TypeOK, Unborn, HeldStatus, HeldRight, Exclusive, Untried, SteppedOver,
               SkipsOnlyLocked, Behind, LockedFor, Holds, At
<1> QED BY <1>1, <1>2, <1>3, <1>4, <1>5, <1>6, <1>7, <1>8, <1>9, <1>10, <1>11, <1>12, <1>13
       DEF Next, Work

LEMMA Invariance == Spec => []IInv
BY InvInit, InvStep, PTL DEF Spec

-----------------------------------------------------------------------------
(* The promises of the queue. *)

\* No job is handed out twice, to two workers or to one after another.
THEOREM NoDoubleHandOut == Spec => []HandedOutOnce
<1>1. IInv => HandedOutOnce
  BY DEF IInv, Exclusive, Untried, HandedOutOnce
<1> QED BY <1>1, Invariance, PTL

\* A --once worker that ends has left no job behind, short of a crash.
THEOREM OnceDrains == Spec => []NothingLeftBehind
<1>1. IInv => NothingLeftBehind
  BY DEF IInv, SteppedOver, SkipsOnlyLocked, Behind, NothingLeftBehind
<1> QED BY <1>1, Invariance, PTL

\* finish_job, which checks no status, still never settles a job twice or
\* before it was claimed.
THEOREM StatusMovesForward == Spec => NeverBackwards
<1> DEFINE Forward ==
      \A j \in Ids : status'[j] # status[j] =>
        <<status[j], status'[j]>> \in
          {<<"unborn", "queued">>, <<"queued", "running">>, <<"running", "done">>,
           <<"running", "failed">>, <<"done", "cleared">>}
<1>1. IInv /\ [Next]_vars => [Forward]_vars
  <2> SUFFICES ASSUME IInv, Next PROVE Forward
    OBVIOUS
  <2>1. ASSUME NEW n \in Ids, Enqueue(n) PROVE Forward
    BY <2>1, Numbers DEF Enqueue, IInv, TypeOK, Unborn, Ids
  <2>2. CASE Clear
    BY <2>2 DEF Clear
  <2>3. ASSUME NEW w \in Workers, Claim(w) PROVE Forward
    <3>1. status[worker[w].job] = "queued"
      BY <2>3 DEF Claim, IInv, HeldStatus, HeldRight
    <3>2. \A j \in Ids : status'[j] = IF j = worker[w].job THEN "running" ELSE status[j]
      BY <2>3 DEF Claim, IInv, TypeOK
    <3> QED BY <3>1, <3>2
  <2>4. ASSUME NEW w \in Workers, Finish(w) PROVE Forward
    <3>1. status[worker[w].job] = "running"
      BY <2>4 DEF Finish, IInv, HeldStatus, HeldRight
    <3>2. \A j \in Ids : status'[j] = IF j = worker[w].job
                                     THEN IF worker[w].error THEN "failed" ELSE "done"
                                     ELSE status[j]
      BY <2>4, <3>1 DEF Finish, IInv, TypeOK
    <3> QED BY <3>1, <3>2
  <2>5. ASSUME status' = status PROVE Forward
    BY <2>5
  <2> QED BY <2>1, <2>2, <2>3, <2>4, <2>5
         DEF Next, Work, Start, Begin, Scan, SkipLocked, Lock, FindNone, Run, RunEnds, Crash
<1> QED BY <1>1, Invariance, PTL DEF Spec, NeverBackwards

-----------------------------------------------------------------------------
(* What a crash costs. *)

Lost == {j \in Ids : Stranded(j)}

\* Whoever holds a job that is "running" goes on holding it until it settles
\* it, unless it dies.
LEMMA NothingElseStrands ==
  ASSUME IInv, [Next]_vars, \A w \in Workers : ~Crash(w)
  PROVE  Lost' \subseteq Lost
<1> USE Numbers
<1> SUFFICES ASSUME NEW j \in Ids, status'[j] = "running", \A w \in Workers : ~Holds(w, j)'
             PROVE  status[j] = "running" /\ \A w \in Workers : ~Holds(w, j)
  BY DEF Lost, Stranded
<1>0. TypeOK
  BY DEF IInv
<1>1. ASSUME NEW n \in Ids, Enqueue(n) PROVE status[j] = "running" /\ worker' = worker
  BY <1>1 DEF Enqueue
<1>2. CASE Clear
  BY <1>2 DEF Clear, Holds
<1>3. ASSUME NEW w \in Workers, Start(w) \/ Begin(w) \/ Scan(w) \/ SkipLocked(w) \/ FindNone(w)
      PROVE  status[j] = "running" /\ \A v \in Workers : ~Holds(v, j)
  <2>1. status' = status /\ \A v \in Workers \ {w} : worker'[v] = worker[v]
    BY <1>0, <1>3, Others DEF Work, Start, Begin, Scan, SkipLocked, FindNone
  <2>2. ~Holds(w, j)
    BY <1>3 DEF Start, Begin, Scan, SkipLocked, FindNone, Holds, At
  <2> QED BY <2>1, <2>2 DEF Holds
<1>4. ASSUME NEW w \in Workers, Lock(w) \/ Run(w)
      PROVE  status[j] = "running" /\ \A v \in Workers : ~Holds(v, j)
  <2>1. status' = status /\ \A v \in Workers \ {w} : worker'[v] = worker[v]
    BY <1>0, <1>4, Others DEF Work, Lock, Run, RunEnds
  <2>2. ~Holds(w, j)
    BY <1>0, <1>4 DEF Lock, Run, RunEnds, Holds, At, TypeOK
  <2> QED BY <2>1, <2>2 DEF Holds
<1>5. ASSUME NEW w \in Workers, Claim(w)
      PROVE  status[j] = "running" /\ \A v \in Workers : ~Holds(v, j)
  <2>1. \A v \in Workers \ {w} : worker'[v] = worker[v]
    BY <1>0, <1>5, Others DEF Work
  <2>2. worker'[w].pc = "running" /\ worker'[w].job = worker[w].job
    BY <1>0, <1>5, Shapes DEF Claim, At, TypeOK
  <2>3. worker[w].job # j
    BY <2>2 DEF Holds
  <2> QED BY <1>0, <1>5, <2>1, <2>3 DEF Claim, Holds, TypeOK
<1>6. ASSUME NEW w \in Workers, Finish(w)
      PROVE  status[j] = "running" /\ \A v \in Workers : ~Holds(v, j)
  <2>1. \A v \in Workers \ {w} : worker'[v] = worker[v]
    BY <1>0, <1>6, Others DEF Work
  <2>2. worker[w].job # j
    BY <1>0, <1>6 DEF Finish, TypeOK
  <2> QED BY <1>0, <1>6, <2>1, <2>2 DEF Finish, Holds, TypeOK
<1>7. CASE UNCHANGED vars
  BY <1>7 DEF vars, Holds
<1> QED BY <1>1, <1>2, <1>3, <1>4, <1>5, <1>6, <1>7 DEF Next, Work, Holds

\* A death strands the one job its worker had in hand.
LEMMA CrashStrandsOne ==
  ASSUME IInv, NEW w \in Workers, Crash(w)
  PROVE  Lost' \subseteq Lost \cup {worker[w].job}
BY DEF IInv, TypeOK, Crash, Lost, Stranded, Holds

LEMMA LostIsFinite == IsFiniteSet(Lost) /\ Cardinality(Lost) \in Nat
<1>1. IsFiniteSet(Ids)
  BY Numbers, FS_Interval DEF Ids
<1>2. Lost \in SUBSET Ids
  BY DEF Lost
<1>3. IsFiniteSet(Lost)
  BY <1>1, <1>2, FS_Subset
<1> QED BY <1>3, FS_CardinalityType

\* Every death of a worker leaves at most one job running for ever, and
\* nothing else does: jobs are not lost in the claim, in finish_job or to
\* another worker.
THEOREM CrashesLoseOneEach == Spec => []OneLostPerCrash
<1> DEFINE Bound == Cardinality(Lost) <= crashes
<1>1. Init => Bound
  <2> SUFFICES ASSUME Init PROVE Bound
    OBVIOUS
  <2>1. Lost = {}
    BY DEF Init, Lost, Stranded
  <2> QED BY <2>1, FS_EmptySet DEF Init
<1>2. IInv /\ Bound /\ [Next]_vars => Bound'
  <2> SUFFICES ASSUME IInv, Bound, [Next]_vars PROVE Bound'
    OBVIOUS
  <2>0. crashes \in Nat /\ crashes' \in Nat
    <3>1. TypeOK /\ TypeOK'
      BY TypeStep DEF IInv
    <3> QED BY <3>1, Numbers DEF TypeOK
  <2>1. IsFiniteSet(Lost) /\ Cardinality(Lost) \in Nat
    BY LostIsFinite
  <2>2. ASSUME NEW w \in Workers, Crash(w) PROVE Bound'
    <3> DEFINE More == Lost \cup {worker[w].job}
    <3>1. Lost' \in SUBSET More
      BY <2>2, CrashStrandsOne
    <3>2. IsFiniteSet(More) /\ Cardinality(More) <= Cardinality(Lost) + 1
      <4>1. /\ IsFiniteSet(More)
            /\ Cardinality(More) = Cardinality(Lost) \/ Cardinality(More) = Cardinality(Lost) + 1
        <5> HIDE DEF Lost
        <5> QED BY ONLY <2>1, FS_AddElement
      <4> QED BY <2>1, <4>1
    <3>3. Cardinality(More) \in Nat
      BY <3>2, FS_CardinalityType
    <3>4. IsFiniteSet(Lost') /\ Cardinality(Lost') \in Nat /\ Cardinality(Lost') <= Cardinality(More)
      BY <3>1, <3>2, FS_Subset, FS_CardinalityType
    <3>5. crashes' = crashes + 1
      BY <2>2 DEF Crash
    <3> HIDE DEF More
    <3> QED BY <2>0, <2>1, <3>2, <3>3, <3>4, <3>5
  <2>3. ASSUME \A w \in Workers : ~Crash(w) PROVE Bound'
    <3>1. Lost' \in SUBSET Lost
      BY <2>3, NothingElseStrands
    <3>2. IsFiniteSet(Lost') /\ Cardinality(Lost') \in Nat /\ Cardinality(Lost') <= Cardinality(Lost)
      BY <2>1, <3>1, FS_Subset, FS_CardinalityType
    <3>3. crashes' = crashes
      BY <2>3 DEF Next, Work, Enqueue, Clear, Start, Begin, Scan, SkipLocked, Lock, FindNone, Claim,
                  Run, RunEnds, Finish, vars
    <3> QED BY <2>0, <2>1, <3>2, <3>3
  <2> QED BY <2>2, <2>3
<1>3. Bound => OneLostPerCrash
  BY DEF OneLostPerCrash, Lost
<1> HIDE DEF Bound
<1> QED BY <1>1, <1>2, <1>3, Invariance, PTL DEF Spec

-----------------------------------------------------------------------------
(* The pool implements the queue: every step of it is a step of JobQueue or
   leaves the queue alone.  What holds of the queue then holds of workers that
   read and store files. *)

LEMMA PoolStep == [PNext]_pvars => [Next]_vars
<1> SUFFICES ASSUME [PNext]_pvars PROVE [Next]_vars
  OBVIOUS
<1>1. ASSUME NEW f \in Files, Edit(f) PROVE UNCHANGED vars
  BY <1>1 DEF Edit
<1>2. ASSUME NEW n \in Ids, EnqueuePaths(n) PROVE Next
  BY <1>2 DEF EnqueuePaths, Next
<1>3. CASE Tidy
  BY <1>3 DEF Tidy, Next
<1>4. ASSUME NEW w \in Workers, Protocol(w) PROVE Next
  BY <1>4 DEF Protocol, Next, Work
<1>5. ASSUME NEW w \in Workers, RunOne(w) PROVE Next \/ UNCHANGED vars
  <2>1. Run(w) \/ UNCHANGED vars
    BY <1>5 DEF RunOne, Look, Read, IngestBytes, IngestRaises, Run
  <2> QED BY <2>1 DEF Next, Work
<1>6. ASSUME NEW w \in Workers, Die(w) PROVE Next
  BY <1>6 DEF Die, Next
<1>7. CASE UNCHANGED pvars
  BY <1>7 DEF pvars
<1> QED BY <1>1, <1>2, <1>3, <1>4, <1>5, <1>6, <1>7 DEF PNext

\* Every behaviour of the pool is a behaviour of the queue.
THEOREM PoolFollowsQueue == PSpec => FollowsQueue
<1>1. PInit => Init
  BY DEF PInit
<1> QED BY <1>1, PoolStep, PTL DEF PSpec, Spec, FollowsQueue

\* So no file is ingested for one job by two workers, or twice for one job.
THEOREM PoolHandsOutOnce == PSpec => []HandedOutOnce
BY PoolFollowsQueue, NoDoubleHandOut, PTL DEF FollowsQueue


-----------------------------------------------------------------------------
(* The files: what the index holds of one that no two workers had at once. *)

LastJob(f, j) == j \in JobsOf(f) /\ \A i \in JobsOf(f) : i <= j

\* Once the last job of f is claimed, nobody has other bytes of f in hand than
\* those it was queued with, and once that job is over, they are in the index.
\* A file that is too large by now is not in it, whatever was there.
Clean(f, j) ==
  /\ \A v \in Workers : At(v, "running") /\ path[worker[v].job] = f
                          => read[v] \in {"unseen", "fits", disk[f]}
  /\ disk[f] \notin Big =>
       /\ \A w \in Workers : At(w, "ran") /\ worker[w].job = j /\ ~worker[w].error
                               => index[f] = disk[f]
       /\ status[j] \in {"done", "cleared"} => index[f] = disk[f]

Named    == \A j \in Ids : path[j] = "none" <=> j >= next
HandsOff == \A w \in Workers : ~At(w, "running") => read[w] = "unseen"
Present  == \A f \in asked : disk[f] # "gone"
AllClean == \A f \in asked \ raced, j \in Ids :
              LastJob(f, j) /\ status[j] # "queued" => Clean(f, j)

PInv == IInv /\ PTypeOK /\ Named /\ HandsOff /\ Present /\ AllClean

LEMMA PoolTypeInit == PInit => PTypeOK
BY TypeInit, MarkersAssumption DEF PInit, PTypeOK

\* The bytes a worker has read are bytes of some file; the job it works on
\* names one.
LEMMA PathOfJob ==
  ASSUME IInv, PTypeOK, Named, NEW w \in Workers, At(w, "running") \/ At(w, "ran") \/ At(w, "locked")
  PROVE  /\ worker[w].job \in Ids /\ path[worker[w].job] \in Files
         /\ worker[w].job < next /\ status[worker[w].job] \in {"queued", "running"}
<1>1. worker[w].job \in Ids
  BY Shapes DEF PTypeOK, TypeOK, At
<1>2. status[worker[w].job] \in {"queued", "running"}
  BY DEF IInv, HeldStatus, HeldRight
<1>3. ~(worker[w].job >= next)
  BY <1>1, <1>2 DEF IInv, Unborn
<1>4. next \in Nat /\ worker[w].job \in Nat
  <2>1. next \in 1..MaxJobs + 1
    BY DEF PTypeOK, TypeOK
  <2>2. next \in Nat
    BY <2>1, Numbers
  <2>3. worker[w].job \in Nat
    BY <1>1, Numbers
  <2> QED BY <2>2, <2>3
<1>5. path[worker[w].job] # "none"
  BY <1>1, <1>3 DEF Named
<1> QED BY <1>1, <1>2, <1>3, <1>4, <1>5 DEF PTypeOK

LEMMA PoolTypeStep == PInv /\ [PNext]_pvars => PTypeOK'
<1> SUFFICES ASSUME PInv, [PNext]_pvars PROVE PTypeOK'
  OBVIOUS
<1>0. TypeOK'
  BY PoolStep, TypeStep DEF PInv, PTypeOK
<1>1. ASSUME NEW f \in Files, Edit(f) PROVE PTypeOK'
  BY <1>0, <1>1 DEF Edit, PInv, PTypeOK
<1>2. ASSUME NEW n \in Ids, EnqueuePaths(n) PROVE PTypeOK'
  <2>1. PICK paths \in [next..(next + n - 1) -> {f \in Files : disk[f] # "gone"}] :
          /\ path' = [j \in Ids |-> IF j \in DOMAIN paths THEN paths[j] ELSE path[j]]
          /\ asked' = asked \cup {paths[j] : j \in DOMAIN paths}
          /\ raced' = raced \ {paths[j] : j \in DOMAIN paths}
    BY <1>2 DEF EnqueuePaths
  <2> QED BY <1>0, <1>2, <2>1 DEF EnqueuePaths, PInv, PTypeOK
<1>3. CASE Tidy
  BY <1>0, <1>3 DEF Tidy, PInv, PTypeOK
<1>4. ASSUME NEW w \in Workers, Protocol(w) PROVE PTypeOK'
  BY <1>0, <1>4 DEF Protocol, Beside, PInv, PTypeOK
<1>5. ASSUME NEW w \in Workers, Look(w) PROVE PTypeOK'
  BY <1>0, <1>5 DEF Look, PInv, PTypeOK
<1>6. ASSUME NEW w \in Workers, Read(w) PROVE PTypeOK'
  <2>1. path[worker[w].job] \in Files
    BY <1>6, PathOfJob DEF Read, PInv
  <2> QED BY <1>0, <1>6, <2>1 DEF Read, PInv, PTypeOK
<1>7. ASSUME NEW w \in Workers, IngestBytes(w) PROVE PTypeOK'
  BY <1>0, <1>7 DEF IngestBytes, PInv, PTypeOK
<1>8. ASSUME NEW w \in Workers, IngestRaises(w) \/ Die(w) PROVE PTypeOK'
  BY <1>0, <1>8 DEF IngestRaises, Die, PInv, PTypeOK
<1>9. CASE UNCHANGED pvars
  BY <1>0, <1>9 DEF pvars, PInv, PTypeOK
<1> QED BY <1>1, <1>2, <1>3, <1>4, <1>5, <1>6, <1>7, <1>8, <1>9 DEF PNext, RunOne

LEMMA PoolInit == PInit => PInv
<1> SUFFICES ASSUME PInit PROVE PInv
  OBVIOUS
<1>1. IInv /\ PTypeOK
  BY InvInit, PoolTypeInit DEF PInit
<1>2. Named
  <2> SUFFICES ASSUME NEW j \in Ids PROVE path[j] = "none" <=> j >= next
    BY DEF Named
  <2>1. path[j] = "none" /\ next = 1 /\ j >= 1
    BY Numbers DEF PInit, Init, Ids
  <2> QED BY <2>1
<1> QED BY <1>1, <1>2 DEF PInit, PInv, HandsOff, Present, AllClean

\* What is left to show of a step.
Files4 == Named /\ HandsOff /\ Present /\ AllClean

LEMMA EditStep == ASSUME PInv, NEW f \in Files, Edit(f) PROVE Files4'
<1>1. /\ UNCHANGED <<vars, path, read, index, raced>> /\ asked' = asked \ {f}
      /\ \A g \in Files \ {f} : disk'[g] = disk[g]
  BY DEF Edit, PInv, PTypeOK
<1>2. Named' /\ HandsOff'
  BY <1>1 DEF PInv, Named, HandsOff, At, vars
<1>3. Present'
  BY <1>1 DEF PInv, PTypeOK, Present
<1>4. AllClean'
  <2> SUFFICES ASSUME NEW g \in asked' \ raced', NEW j \in Ids, LastJob(g, j)', status'[j] # "queued"
               PROVE  Clean(g, j)'
    BY DEF AllClean
  <2>1. g \in asked \ raced /\ disk'[g] = disk[g]
    BY <1>1 DEF PInv, PTypeOK
  <2>2. LastJob(g, j) /\ status[j] # "queued"
    BY <1>1 DEF LastJob, JobsOf, vars
  <2>3. Clean(g, j)
    BY <2>1, <2>2 DEF PInv, AllClean
  <2> QED BY <1>1, <2>1, <2>3 DEF Clean, At, vars
<1> QED BY <1>2, <1>3, <1>4 DEF Files4

LEMMA EnqueuePathsStep == ASSUME PInv, NEW n \in Ids, EnqueuePaths(n) PROVE Files4'
<1> USE Numbers
<1>1. PICK paths \in [next..(next + n - 1) -> {f \in Files : disk[f] # "gone"}] :
        /\ path' = [j \in Ids |-> IF j \in DOMAIN paths THEN paths[j] ELSE path[j]]
        /\ asked' = asked \cup {paths[j] : j \in DOMAIN paths}
        /\ raced' = raced \ {paths[j] : j \in DOMAIN paths}
  BY DEF EnqueuePaths
<1>2. /\ UNCHANGED <<disk, read, index, worker>> /\ next' = next + n /\ next \in Nat \ {0} /\ n \in Nat \ {0}
      /\ next + n <= MaxJobs + 1
      /\ \A j \in Ids : status'[j] = IF j \in next..(next + n - 1) THEN "queued" ELSE status[j]
  BY DEF EnqueuePaths, Enqueue, PInv, PTypeOK, TypeOK, Ids
<1>3. \A j \in Ids : path'[j] = IF j \in next..(next + n - 1) THEN paths[j] ELSE path[j]
  BY <1>1
<1>4. Named'
  <2> SUFFICES ASSUME NEW j \in Ids PROVE path'[j] = "none" <=> j >= next'
    BY DEF Named
  <2>1. CASE j \in next..(next + n - 1)
    <3>1. path'[j] \in Files
      BY <1>1, <1>3, <2>1
    <3> QED BY <1>2, <2>1, <3>1, MarkersAssumption
  <2>2. CASE j \notin next..(next + n - 1)
    BY <1>2, <1>3, <2>2 DEF PInv, Named
  <2> QED BY <2>1, <2>2
<1>5. HandsOff'
  BY <1>2 DEF PInv, HandsOff, At
<1>6. Present'
  BY <1>1, <1>2 DEF PInv, Present
<1>7. AllClean'
  <2> SUFFICES ASSUME NEW g \in asked' \ raced', NEW j \in Ids, LastJob(g, j)', status'[j] # "queued"
               PROVE  Clean(g, j)'
    BY DEF AllClean
  <2>0. g \in Files /\ g # "none"
    BY <1>1, MarkersAssumption DEF PInv, PTypeOK
  <2>1. j < next
    <3>1. j \notin next..(next + n - 1)
      BY <1>2
    <3>2. path'[j] = g
      BY DEF LastJob, JobsOf
    <3>3. ~(j >= next')
      BY <1>4, <2>0, <3>2 DEF Named
    <3> QED BY <1>2, <3>1, <3>3
  <2>2. \A i \in next..(next + n - 1) : paths[i] # g
    <3> SUFFICES ASSUME NEW i \in next..(next + n - 1), paths[i] = g PROVE FALSE
      OBVIOUS
    <3>1. i \in Ids /\ path'[i] = g
      BY <1>2, <1>3 DEF Ids
    <3>2. i <= j
      BY <3>1 DEF LastJob, JobsOf
    <3> QED BY <1>2, <2>1, <3>2
  <2>3. g \in asked \ raced
    BY <1>1, <2>2
  <2>4. LastJob(g, j) /\ status[j] # "queued" /\ status'[j] = status[j]
    <3>1. \A i \in Ids : path'[i] = g <=> path[i] = g
      <4> SUFFICES ASSUME NEW i \in Ids PROVE path'[i] = g <=> path[i] = g
        OBVIOUS
      <4>1. i \in next..(next + n - 1) => path[i] = "none" /\ path'[i] # g
        BY <1>2, <1>3, <2>2 DEF PInv, Named
      <4> QED BY <1>3, <2>0, <4>1
    <3> QED BY <1>2, <2>1, <3>1 DEF LastJob, JobsOf
  <2>5. Clean(g, j)
    BY <2>3, <2>4 DEF PInv, AllClean
  <2>6. \A v \in Workers : At(v, "running") => path'[worker[v].job] = path[worker[v].job]
    <3> SUFFICES ASSUME NEW v \in Workers, At(v, "running")
                 PROVE  path'[worker[v].job] = path[worker[v].job]
      OBVIOUS
    <3>1. worker[v].job \in Ids /\ worker[v].job < next
      BY PathOfJob DEF PInv
    <3>2. worker[v].job \notin next..(next + n - 1)
      BY <1>2, <3>1
    <3> QED BY <1>3, <3>1, <3>2
  <2> QED BY <1>2, <2>4, <2>5, <2>6 DEF Clean, At
<1> QED BY <1>4, <1>5, <1>6, <1>7 DEF Files4

LEMMA TidyStep == ASSUME PInv, Tidy PROVE Files4'
<1>1. /\ UNCHANGED <<disk, path, read, index, asked, raced, worker, next>>
      /\ \A j \in Ids : status'[j] = IF status[j] = "done" THEN "cleared" ELSE status[j]
  BY DEF Tidy, Clear
<1>2. Named' /\ HandsOff' /\ Present'
  BY <1>1 DEF PInv, Named, HandsOff, Present, At
<1>3. AllClean'
  <2> SUFFICES ASSUME NEW g \in asked' \ raced', NEW j \in Ids, LastJob(g, j)', status'[j] # "queued"
               PROVE  Clean(g, j)'
    BY DEF AllClean
  <2>1. LastJob(g, j) /\ status[j] # "queued" /\ g \in asked \ raced
    BY <1>1 DEF LastJob, JobsOf
  <2>2. Clean(g, j)
    BY <2>1 DEF PInv, AllClean
  <2> QED BY <1>1, <2>2 DEF Clean, At
<1> QED BY <1>2, <1>3 DEF Files4

\* Steps of one worker leave the files, the paths and what the others read.
LEMMA WorkerFrame ==
  ASSUME PInv, NEW w \in Workers, Protocol(w) \/ RunOne(w) \/ Die(w)
  PROVE  /\ UNCHANGED <<disk, path, asked, next>> /\ raced \subseteq raced'
         /\ \A v \in Workers \ {w} : worker'[v] = worker[v] /\ read'[v] = read[v]
         /\ Named' /\ Present'
<1>1. UNCHANGED <<disk, path, asked, next>> /\ raced \subseteq raced'
  BY DEF Protocol, RunOne, Die, Start, Begin, Scan, SkipLocked, Lock, FindNone, Claim, Finish,
         Crash, Look, Read, IngestBytes, IngestRaises, RunEnds, vars
<1>2. \A v \in Workers \ {w} : read'[v] = read[v]
  BY DEF PInv, PTypeOK, Protocol, RunOne, Die, Look, Read, IngestBytes, IngestRaises
<1>3. Start(w) \/ Work(w) \/ Crash(w) \/ UNCHANGED vars
  BY DEF Protocol, RunOne, Die, Look, Read, IngestBytes, IngestRaises, Run, Work
<1>4. \A v \in Workers \ {w} : worker'[v] = worker[v]
  BY <1>3, Others DEF PInv, PTypeOK, vars
<1> QED BY <1>1, <1>2, <1>4 DEF PInv, Named, Present

\* A step of w keeps every file clean that was so, if w does not come to hold
\* other bytes of it or to end a job of it without having stored them, and
\* stores nothing else.
LEMMA CleanKept ==
  ASSUME PInv, NEW w \in Workers, Protocol(w) \/ RunOne(w) \/ Die(w),
         NEW f \in asked' \ raced', NEW j \in Ids, LastJob(f, j)',
         status[j] # "queued", status'[j] \in {"done", "cleared"} => status[j] \in {"done", "cleared"},
         index'[f] = index[f] \/ index'[f] = disk[f],
         At(w, "running")' /\ path[worker'[w].job] = f => read'[w] \in {"unseen", "fits", disk[f]},
         disk[f] \notin Big /\ At(w, "ran")' /\ worker'[w].job = j => worker'[w].error \/ index'[f] = disk[f]
  PROVE  Clean(f, j)'
<1>1. /\ UNCHANGED <<disk, path, asked, next>> /\ raced \subseteq raced'
      /\ \A v \in Workers \ {w} : worker'[v] = worker[v] /\ read'[v] = read[v]
  BY WorkerFrame
<1>2. Clean(f, j)
  BY <1>1 DEF PInv, AllClean, LastJob, JobsOf
<1>3. \A v \in Workers : At(v, "running")' /\ path[worker'[v].job] = f
                           => read'[v] \in {"unseen", "fits", disk[f]}
  BY <1>1, <1>2 DEF Clean, At
<1>4. disk[f] \notin Big =>
        \A v \in Workers : At(v, "ran")' /\ worker'[v].job = j /\ ~worker'[v].error => index'[f] = disk[f]
  BY <1>1, <1>2 DEF Clean, At
<1> QED BY <1>1, <1>2, <1>3, <1>4 DEF Clean

LEMMA ProtocolStep == ASSUME PInv, IInv', PTypeOK', NEW w \in Workers, Protocol(w) PROVE Files4'
<1>1. /\ UNCHANGED <<disk, path, asked, next>> /\ raced \subseteq raced'
      /\ \A v \in Workers \ {w} : worker'[v] = worker[v] /\ read'[v] = read[v]
      /\ Named' /\ Present' /\ read' = read /\ index' = index
  BY WorkerFrame DEF Protocol
<1>2. ~At(w, "running")
  BY DEF Protocol, Start, Begin, Scan, SkipLocked, Lock, FindNone, Claim, Finish, At
<1>3. read'[w] = "unseen"
  BY <1>1, <1>2 DEF PInv, HandsOff
<1>4. HandsOff'
  BY <1>1, <1>3 DEF PInv, HandsOff, At
<1>5. AllClean'
  <2> SUFFICES ASSUME NEW f \in asked' \ raced', NEW j \in Ids, LastJob(f, j)', status'[j] # "queued"
               PROVE  Clean(f, j)'
    BY DEF AllClean
  <2>0. worker \in [Workers -> WorkerStates] /\ status \in [Ids -> JobStatuses]
    BY DEF PInv, PTypeOK, TypeOK
  <2>1. CASE Start(w) \/ Begin(w) \/ Scan(w) \/ SkipLocked(w) \/ Lock(w) \/ FindNone(w)
    <3>1. status' = status /\ ~At(w, "running")' /\ ~At(w, "ran")'
      <4>1. CASE SkipLocked(w)
        <5>1. PICK i \in Ids : worker' = [worker EXCEPT ![w].seen = @ \ {i}]
          BY <4>1 DEF SkipLocked
        <5>2. worker'[w].pc = worker[w].pc
          BY <2>0, <5>1 DEF WorkerStates, Idle, Stopped, Begun, Scanning, Holding, Ran, Drained
        <5> QED BY <4>1, <5>2 DEF SkipLocked, At
      <4>2. CASE Start(w) \/ Begin(w) \/ Scan(w) \/ Lock(w) \/ FindNone(w)
        BY <2>0, <4>2 DEF Start, Begin, Scan, Lock, FindNone, At, Idle
      <4> QED BY <2>1, <4>1, <4>2
    <3> QED BY <1>1, <3>1, CleanKept
  <2>2. CASE Claim(w)
    <3> DEFINE i == worker[w].job
    <3>1. /\ status' = [status EXCEPT ![i] = "running"] /\ i \in Ids /\ status[i] = "queued"
          /\ worker'[w].pc = "running" /\ worker'[w].job = i /\ At(w, "locked")
      BY <2>0, <2>2, Shapes DEF Claim, At, PInv, IInv, HeldStatus, HeldRight
    <3>2. CASE j # i
      <4>1. status'[j] = status[j]
        BY <2>0, <3>1, <3>2
      <4> QED BY <1>1, <1>3, <3>1, <4>1, CleanKept DEF At
    <3>3. CASE j = i
      <4>1. path[i] = f /\ status'[j] = "running"
        BY <1>1, <2>0, <3>1, <3>3 DEF LastJob, JobsOf
      <4>2. f \in Files /\ f \notin Beside(w)
        BY DEF Protocol, PInv, PTypeOK
      <4>3. \A v \in Workers \ {w} : ~(At(v, "running") /\ path[worker[v].job] = f)
        BY <3>1, <4>1, <4>2 DEF Beside
      <4>4. \A v \in Workers : At(v, "running")' /\ path'[worker'[v].job] = f => read'[v] = "unseen"
        BY <1>1, <1>3, <4>3 DEF At
      <4>5. \A v \in Workers : ~(At(v, "ran")' /\ worker'[v].job = j)
        <5> SUFFICES ASSUME NEW v \in Workers, At(v, "ran")', worker'[v].job = j PROVE FALSE
          OBVIOUS
        <5>1. v # w /\ At(v, "ran") /\ worker[v].job = j
          BY <1>1, <3>1 DEF At
        <5>2. status[j] = "running"
          BY <5>1 DEF PInv, IInv, HeldStatus, HeldRight
        <5> QED BY <3>1, <3>3, <5>2
      <4> QED BY <4>1, <4>4, <4>5 DEF Clean
    <3> QED BY <3>2, <3>3
  <2>3. CASE Finish(w)
    <3> DEFINE i == worker[w].job
    <3>1. worker'[w] = Idle /\ At(w, "ran") /\ i \in Ids /\ status[i] = "running"
      BY <2>0, <2>3, Shapes DEF Finish, At, PInv, IInv, HeldStatus, HeldRight
    <3>2. status' = [status EXCEPT ![i] = IF worker[w].error THEN "failed" ELSE "done"]
      BY <2>0, <2>3, <3>1 DEF Finish
    <3>3. ~At(w, "running")' /\ ~At(w, "ran")'
      BY <3>1 DEF At, Idle
    <3>4. CASE j # i
      <4>1. status'[j] = status[j]
        BY <2>0, <3>1, <3>2, <3>4
      <4> QED BY <1>1, <3>3, <4>1, CleanKept
    <3>5. CASE j = i
      <4>1. LastJob(f, j) /\ status[j] # "queued" /\ f \in asked \ raced
        BY <1>1, <3>1, <3>5 DEF LastJob, JobsOf
      <4>2. Clean(f, j)
        BY <4>1 DEF PInv, AllClean
      <4>3. status'[j] \in {"done", "cleared"} => ~worker[w].error
        BY <2>0, <3>1, <3>2, <3>5
      <4>4. disk[f] \notin Big /\ status'[j] \in {"done", "cleared"} => index[f] = disk[f]
        BY <3>1, <3>5, <4>2, <4>3 DEF Clean
      <4>5. \A v \in Workers : /\ At(v, "running")' => v # w /\ At(v, "running")
                               /\ At(v, "ran")' => v # w /\ At(v, "ran")
        BY <1>1, <3>3 DEF At
      <4> QED BY <1>1, <4>2, <4>4, <4>5 DEF Clean
    <3> QED BY <3>4, <3>5
  <2> QED BY <2>1, <2>2, <2>3 DEF Protocol
<1> QED BY <1>1, <1>4, <1>5 DEF Files4

LEMMA DieStep == ASSUME PInv, NEW w \in Workers, Die(w) PROVE Files4'
<1>1. /\ UNCHANGED <<disk, path, asked, next>>
      /\ \A v \in Workers \ {w} : worker'[v] = worker[v] /\ read'[v] = read[v]
      /\ Named' /\ Present'
  BY WorkerFrame
<1>2. /\ worker'[w] = Stopped /\ read'[w] = "unseen"
      /\ status' = status /\ index' = index /\ raced' = raced
  BY DEF Die, Crash, PInv, PTypeOK, TypeOK
<1>3. HandsOff'
  BY <1>1, <1>2 DEF PInv, HandsOff, At
<1>4. AllClean'
  <2> SUFFICES ASSUME NEW f \in asked' \ raced', NEW j \in Ids, LastJob(f, j)', status'[j] # "queued"
               PROVE  Clean(f, j)'
    BY DEF AllClean
  <2>1. ~At(w, "running")' /\ ~At(w, "ran")'
    BY <1>2 DEF At, Stopped
  <2> QED BY <1>1, <1>2, <2>1, CleanKept
<1> QED BY <1>1, <1>3, <1>4 DEF Files4

\* _run_one goes on with its file, or ends with or without an error.
LEMMA RunOneStep == ASSUME PInv, NEW w \in Workers, RunOne(w) PROVE Files4'
<1> DEFINE i == worker[w].job
           g == path[i]
<1>1. /\ UNCHANGED <<disk, path, asked, next>>
      /\ \A v \in Workers \ {w} : worker'[v] = worker[v] /\ read'[v] = read[v]
      /\ Named' /\ Present'
  BY WorkerFrame
<1>2. At(w, "running")
  BY DEF RunOne, Look, Read, IngestBytes, IngestRaises, RunEnds
<1>3. i \in Ids /\ g \in Files
  BY <1>2, PathOfJob DEF PInv
<1>4. /\ status' = status /\ raced' = raced
      /\ read \in [Workers -> Contents \cup {"unseen", "fits"}] /\ disk \in [Files -> Contents \cup {"gone"}]
      /\ worker \in [Workers -> WorkerStates] /\ index \in [Files -> Contents \cup {"none"}]
  BY DEF RunOne, Look, Read, IngestBytes, IngestRaises, RunEnds, PInv, PTypeOK, TypeOK, vars
\* What the step does to w.
<1>5. \/ /\ worker' = worker /\ index' = index /\ read'[w] \in {"fits", disk[g]}
      \/ /\ worker'[w] = [pc |-> "ran", job |-> i, error |-> TRUE]
         /\ index' = index /\ read'[w] = "unseen"
      \/ /\ worker'[w] = [pc |-> "ran", job |-> i, error |-> FALSE]
         /\ index' = index /\ disk[g] \in Big /\ read'[w] = "unseen"
      \/ /\ worker'[w] = [pc |-> "ran", job |-> i, error |-> FALSE]
         /\ index' = [index EXCEPT ![g] = read[w]] /\ read[w] \in Contents /\ read'[w] = "unseen"
  <2>1. CASE Look(w)
    BY <1>4, <2>1 DEF Look, RunEnds, vars
  <2>2. CASE Read(w)
    BY <1>4, <2>2 DEF Read, RunEnds, vars
  <2>3. CASE IngestBytes(w)
    BY <1>4, <2>3 DEF IngestBytes, RunEnds
  <2>4. CASE IngestRaises(w)
    BY <1>4, <2>4 DEF IngestRaises, RunEnds
  <2> QED BY <2>1, <2>2, <2>3, <2>4 DEF RunOne
<1>6. HandsOff'
  BY <1>1, <1>2, <1>5 DEF PInv, HandsOff, At
<1>7. AllClean'
  <2> SUFFICES ASSUME NEW f \in asked' \ raced', NEW j \in Ids, LastJob(f, j)', status'[j] # "queued"
               PROVE  Clean(f, j)'
    BY DEF AllClean
  <2>1. f \in Files /\ Clean(f, j)
    BY <1>1, <1>4 DEF PInv, PTypeOK, AllClean, LastJob, JobsOf
  <2>2. g = f => read[w] \in {"unseen", "fits", disk[f]}
    BY <1>2, <2>1 DEF Clean
  <2>3. index'[f] = index[f] \/ index'[f] = disk[f]
    <3>1. g = f /\ read[w] \in Contents => read[w] = disk[f]
      BY <2>2, MarkersAssumption
    <3> QED BY <1>3, <1>4, <1>5, <2>1, <3>1
  <2>4. At(w, "running")' /\ path[worker'[w].job] = f => read'[w] \in {"unseen", "fits", disk[f]}
    BY <1>5
  <2>5. disk[f] \notin Big /\ At(w, "ran")' /\ worker'[w].job = j => worker'[w].error \/ index'[f] = disk[f]
    <3> SUFFICES ASSUME disk[f] \notin Big, At(w, "ran")', worker'[w].job = j, ~worker'[w].error
                 PROVE  index'[f] = disk[f]
      OBVIOUS
    <3>1. /\ worker'[w] = [pc |-> "ran", job |-> i, error |-> FALSE]
          /\ \/ disk[g] \in Big
             \/ index' = [index EXCEPT ![g] = read[w]] /\ read[w] \in Contents
      BY <1>2, <1>5 DEF At
    <3>2. g = f
      BY <1>1, <3>1 DEF LastJob, JobsOf
    <3>3. read[w] \in Contents => read[w] = disk[f]
      BY <2>2, <3>2, MarkersAssumption
    <3> QED BY <1>3, <1>4, <3>1, <3>2, <3>3
  <2> HIDE DEF i, g
  <2> QED BY <1>4, <2>3, <2>4, <2>5, CleanKept
<1> QED BY <1>1, <1>6, <1>7 DEF Files4

LEMMA PoolInvStep == PInv /\ [PNext]_pvars => PInv'
<1> SUFFICES ASSUME PInv, [PNext]_pvars PROVE PInv'
  OBVIOUS
<1>1. IInv' /\ PTypeOK'
  BY PoolStep, InvStep, PoolTypeStep DEF PInv
<1>2. ASSUME UNCHANGED pvars PROVE Files4'
  <2>1. UNCHANGED <<status, next, worker, disk, path, read, index, asked, raced>>
    BY <1>2 DEF pvars, vars
  <2> QED BY <2>1 DEF Files4, PInv, Named, HandsOff, Present, AllClean, LastJob, JobsOf, Clean, At
<1>3. Files4'
  BY <1>1, <1>2, EditStep, EnqueuePathsStep, TidyStep, ProtocolStep, DieStep, RunOneStep DEF PNext
<1> QED BY <1>1, <1>3 DEF PInv, Files4

LEMMA PoolInvariance == PSpec => []PInv
BY PoolInit, PoolInvStep, PTL DEF PSpec

\* Type correctness of the pool.
THEOREM PoolTyping == PSpec => []PTypeOK
<1>1. PInv => PTypeOK
  BY DEF PInv
<1> QED BY <1>1, PoolInvariance, PTL

\* A file that no two workers had in hand at once is in the index as it was
\* queued when its last job is done, whatever is edited, queued again, raised
\* or killed: only two readers of one file can make the index stale.
THEOREM AloneStoresCurrent == PSpec => []AloneIsCurrent
<1>1. PInv => AloneIsCurrent
  <2> SUFFICES ASSUME PInv, NEW f \in asked \ raced, LastJobDone(f), disk[f] \notin Big
               PROVE  index[f] = disk[f]
    BY DEF AloneIsCurrent
  <2>1. PICK j \in Ids : LastJob(f, j) /\ status[j] \in {"done", "cleared"}
    BY DEF LastJobDone, LastJob, JobsOf
  <2> QED BY <2>1 DEF PInv, AllClean, Clean
<1> QED BY <1>1, PoolInvariance, PTL

=============================================================================
