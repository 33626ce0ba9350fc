----------------------------- MODULE WorkerPool -----------------------------
(***************************************************************************)
(* The persistent worker pool behind decrypt_par (src/pool.rs).            *)
(*                                                                         *)
(* A caller with two samples or more takes run_lock, publishes a job under *)
(* the job mutex and blocks until the job is finished.  Workers sleep on   *)
(* cv_job, take the job whose epoch differs from their own, and pull pairs *)
(* of samples off the job's atomic counter.  The one that retires the last *)
(* pair sets finished and signals cv_done.  A job holds raw pointers into  *)
(* its caller's stack frame: it may be dereferenced only while run() has   *)
(* not returned.                                                           *)
(*                                                                         *)
(* One step is one access to shared state.  A thread asleep on a condition *)
(* variable may be woken at any time (std's Condvar allows it).  Memory    *)
(* order is modelled by views: `seen` is what a worker knows to have been  *)
(* written, `released` what the release sequence of `pending` carries, and *)
(* `visible` what the store to `finished` publishes.                       *)
(***************************************************************************)
EXTENDS Integers, FiniteSets

CONSTANTS
  Callers,     \* threads that call decrypt_par
  Workers,     \* the threads Pool::new spawns
  Owner,       \* the thread that drops the Pool, if it is ever dropped
  NoThread,    \* the holder of a free mutex
  MaxCalls,    \* bound: jobs published in a behaviour
  MaxSamples,  \* bound: samples of one call
  Droppable    \* FALSE: the Pool lives in a static, as in the library

ASSUME ThreadsAssumption ==
  /\ Callers \cap Workers = {}
  /\ Owner \notin Callers \cup Workers
  /\ NoThread \notin Callers \cup Workers \cup {Owner}

\* Pool::new is given at least one worker (src/pool.rs:196).
ASSUME WorkersAssumption == Workers # {} /\ IsFiniteSet(Workers)

ASSUME BoundsAssumption ==
  /\ MaxCalls \in Nat \ {0}
  /\ MaxSamples \in Nat
  /\ Droppable \in BOOLEAN

VARIABLES
  poolUp,     \* POOL has been initialised
  runLock,    \* holder of run_lock
  jobLock,    \* holder of the job mutex between two steps
  doneLock,   \* holder of done_mutex
  slot,       \* the published job, 0 for None; a job is named by its epoch
  epoch,      \* Shared.epoch
  shutdown,   \* Shared.shutdown
  jobs,       \* the Job of each epoch
  pc,         \* where each thread is
  batch,      \* batch[c]: samples of the current call of c
  out,        \* out[c]: samples whose plaintext has been written for c
  job,        \* the Arc<Job> a thread holds, 0 for none
  pair,       \* pair[w]: the pair w has claimed
  seen,       \* seen[w]: pairs of job[w] whose writes happen before w's next step
  myEpoch     \* my_epoch of each worker

vars == <<poolUp, runLock, jobLock, doneLock, slot, epoch, shutdown, jobs, pc,
          batch, out, job, pair, seen, myEpoch>>

locks == <<runLock, jobLock, doneLock>>
shared == <<poolUp, slot, epoch, shutdown>>
callerVars == <<batch, out>>
workerVars == <<pair, seen, myEpoch>>

Threads == Callers \cup Workers \cup {Owner}

JobIds == 1 .. MaxCalls

NoJob == 0
NoPair == -1

CallerLabels ==
  {"idle", "enter", "lockRun", "publish", "notifyJob", "lockDone", "test",
   "waitDone", "blocked", "unlock", "return"}

WorkerLabels ==
  {"unborn", "lock", "check", "wait", "asleep", "claim", "decrypt", "retire",
   "finish", "notify", "exited"}

OwnerLabels == {"idle", "notifyDrop", "join", "dropped"}

\* A caller is inside run(), its pointers valid, between these two locks.
InRun ==
  {"publish", "notifyJob", "lockDone", "test", "waitDone", "blocked", "unlock"}

-----------------------------------------------------------------------------
(* The arithmetic of a job. *)

\* Samples are numbered from zero, as in the code.
Samples(n) == {s \in 0 .. MaxSamples : s < n}

NumPairsFloor(n) == n \div 2  \* mutant: the odd sample is forgotten

\* let pairs = (n + 1) / 2
NumPairs(n) == (n + 1) \div 2

Pairs(n) == {p \in 0 .. MaxSamples : p < NumPairs(n)}

\* Pair p is samples 2p and 2p + 1; the last pair of an odd batch has one.
SamplesOf(p, n) == {s \in Samples(n) : s = 2 * p \/ s = 2 * p + 1}

Job ==
  [owner : Callers \cup {NoThread},
   n : 0 .. MaxSamples,
   next : Nat,
   pending : 0 .. MaxSamples,
   finished : BOOLEAN,
   released : SUBSET (0 .. MaxSamples),
   visible : SUBSET (0 .. MaxSamples)]

NewJob(c, n) ==
  [owner |-> c, n |-> n, next |-> 0, pending |-> NumPairs(n),
   finished |-> FALSE, released |-> {}, visible |-> {}]

Unused ==
  [owner |-> NoThread, n |-> 0, next |-> 0, pending |-> 0,
   finished |-> FALSE, released |-> {}, visible |-> {}]

-----------------------------------------------------------------------------
Init ==
  /\ poolUp = FALSE
  /\ runLock = NoThread
  /\ jobLock = NoThread
  /\ doneLock = NoThread
  /\ slot = NoJob
  /\ epoch = 0
  /\ shutdown = FALSE
  /\ jobs = [j \in JobIds |-> Unused]
  /\ pc = [t \in Threads |-> IF t \in Workers THEN "unborn" ELSE "idle"]
  /\ batch = [c \in Callers |-> 0]
  /\ out = [c \in Callers |-> {}]
  /\ job = [t \in Callers \cup Workers |-> NoJob]
  /\ pair = [w \in Workers |-> NoPair]
  /\ seen = [w \in Workers |-> {}]
  /\ myEpoch = [w \in Workers |-> 0]

Goto(t, from, to) ==
  /\ pc[t] = from
  /\ pc' = [pc EXCEPT ![t] = to]

-----------------------------------------------------------------------------
(* Callers: par_decrypt_into and Pool::run. *)

\* A caller hands over n samples; MaxCalls bounds the jobs of a behaviour.
Call(c, n) ==
  /\ epoch < MaxCalls
  /\ ~shutdown
  /\ Goto(c, "idle", "enter")
  /\ batch' = [batch EXCEPT ![c] = n]
  /\ UNCHANGED <<locks, shared, jobs, out, job, workerVars>>

\* No sample, or one: the caller does it itself and the pool is not touched.
Inline(c) ==
  /\ batch[c] <= 1
  /\ Goto(c, "enter", "return")
  /\ out' = [out EXCEPT ![c] = Samples(batch[c])]
  /\ UNCHANGED <<locks, shared, jobs, batch, job, workerVars>>

\* pool(): the first caller to get here spawns the workers.
GetPool(c) ==
  /\ batch[c] >= 2
  /\ pc[c] = "enter"
  /\ poolUp' = TRUE
  /\ pc' = [t \in Threads |->
              IF t = c THEN "lockRun"
              ELSE IF pc[t] = "unborn" THEN "lock" ELSE pc[t]]
  /\ UNCHANGED <<locks, slot, epoch, shutdown, jobs, callerVars, job, workerVars>>

RunLockIgnored == TRUE  \* mutant: run() does not serialize its callers

RunLockFree == runLock = NoThread

\* run_lock is taken, the Job is built and its epoch drawn.
LockRun(c) ==
  /\ RunLockFree
  /\ epoch < MaxCalls
  /\ Goto(c, "lockRun", "publish")
  /\ runLock' = c
  /\ epoch' = epoch + 1
  /\ jobs' = [jobs EXCEPT ![epoch + 1] = NewJob(c, batch[c])]
  /\ job' = [job EXCEPT ![c] = epoch + 1]
  /\ UNCHANGED <<jobLock, doneLock, poolUp, slot, shutdown, callerVars, workerVars>>

JobLockIgnored == TRUE  \* mutant: the slot is written without the job mutex

JobLockFree == jobLock = NoThread

\* The slot is written under the job mutex; the old Arc in it is dropped.
Publish(c) ==
  /\ JobLockFree
  /\ Goto(c, "publish", "notifyJob")
  /\ slot' = job[c]
  /\ UNCHANGED <<locks, poolUp, epoch, shutdown, jobs, callerVars, job, workerVars>>

\* cv_job.notify_all(), after the mutex has been released.
NotifyJob(c) ==
  /\ pc[c] = "notifyJob"
  /\ pc' = [t \in Threads |->
              IF t = c THEN "lockDone"
              ELSE IF pc[t] = "asleep" THEN "lock" ELSE pc[t]]
  /\ UNCHANGED <<locks, shared, jobs, callerVars, job, workerVars>>

\* Taken the first time, and again when cv_done.wait returns.
LockDone(c) ==
  /\ doneLock = NoThread
  /\ Goto(c, "lockDone", "test")
  /\ doneLock' = c
  /\ UNCHANGED <<runLock, jobLock, shared, jobs, callerVars, job, workerVars>>

AnyWakeup(c) == TRUE  \* mutant: a wakeup is taken for the end of the job

IsFinished(c) == jobs[job[c]].finished

\* while !job.finished.load(Acquire)
TestFinished(c) ==
  /\ Goto(c, "test", "unlock")
  /\ IsFinished(c)
  /\ UNCHANGED <<locks, shared, jobs, callerVars, job, workerVars>>

TestUnfinished(c) ==
  /\ Goto(c, "test", "waitDone")
  /\ ~IsFinished(c)
  /\ UNCHANGED <<locks, shared, jobs, callerVars, job, workerVars>>

\* cv_done.wait(g): done_mutex is released and the caller sleeps.
WaitDone(c) ==
  /\ Goto(c, "waitDone", "blocked")
  /\ doneLock' = NoThread
  /\ UNCHANGED <<runLock, jobLock, shared, jobs, callerVars, job, workerVars>>

\* run() ends: both guards and the Arc are dropped.
Unlock(c) ==
  /\ Goto(c, "unlock", "return")
  /\ doneLock' = NoThread
  /\ runLock' = NoThread
  /\ job' = [job EXCEPT ![c] = NoJob]
  /\ UNCHANGED <<jobLock, shared, jobs, callerVars, workerVars>>

\* The caller has its plaintext; the buffer and the sample arrays are gone.
Return(c) ==
  /\ Goto(c, "return", "idle")
  /\ batch' = [batch EXCEPT ![c] = 0]
  /\ out' = [out EXCEPT ![c] = {}]
  /\ UNCHANGED <<locks, shared, jobs, job, workerVars>>

SpuriousDone(c) ==
  /\ Goto(c, "blocked", "lockDone")
  /\ UNCHANGED <<locks, shared, jobs, callerVars, job, workerVars>>

-----------------------------------------------------------------------------
(* Workers: worker_loop. *)

Lock(w) ==
  /\ jobLock = NoThread
  /\ Goto(w, "lock", "check")
  /\ jobLock' = w
  /\ UNCHANGED <<runLock, doneLock, shared, jobs, callerVars, job, workerVars>>

AnyJob(w) == slot # NoJob  \* mutant: the epochs are not compared

\* The slot holds a job whose epoch is not the one this worker did last.
HasNewJob(w) == slot # NoJob /\ slot # myEpoch[w]

\* The worker clones the Arc, releases the mutex and counts one epoch: one,
\* whatever the epoch of the job, so a worker that slept through a job takes
\* the same job again until its count has caught up.
TakeJob(w) ==
  /\ HasNewJob(w)
  /\ Goto(w, "check", "claim")
  /\ jobLock' = NoThread
  /\ job' = [job EXCEPT ![w] = slot]
  /\ myEpoch' = [myEpoch EXCEPT ![w] = @ + 1]
  /\ UNCHANGED <<runLock, doneLock, shared, jobs, callerVars, pair, seen>>

\* Nothing new and shutdown not set: the worker is about to wait.
NothingNew(w) ==
  /\ ~HasNewJob(w)
  /\ ~shutdown
  /\ Goto(w, "check", "wait")
  /\ UNCHANGED <<locks, shared, jobs, callerVars, job, workerVars>>

\* cv_job.wait(g): the mutex is released and the worker sleeps.
Sleep(w) ==
  /\ Goto(w, "wait", "asleep")
  /\ jobLock' = NoThread
  /\ UNCHANGED <<runLock, doneLock, shared, jobs, callerVars, job, workerVars>>

Exit(w) ==
  /\ ~HasNewJob(w)
  /\ shutdown
  /\ Goto(w, "check", "exited")
  /\ jobLock' = NoThread
  /\ UNCHANGED <<runLock, doneLock, shared, jobs, callerVars, job, workerVars>>

SpuriousJob(w) ==
  /\ Goto(w, "asleep", "lock")
  /\ UNCHANGED <<locks, shared, jobs, callerVars, job, workerVars>>

SameTicket(p) == p  \* mutant: the increment of fetch_add is lost

NextTicket(p) == p + 1

OffByOne(p, n) == p > NumPairs(n)  \* mutant: > for >=

Exhausted(p, n) == p >= NumPairs(n)

\* let p = job.next.fetch_add(1, Relaxed), and p is a pair
Claim(w) ==
  LET p == jobs[job[w]].next IN
  /\ Goto(w, "claim", "decrypt")
  /\ ~Exhausted(p, jobs[job[w]].n)
  /\ jobs' = [jobs EXCEPT ![job[w]].next = NextTicket(p)]
  /\ pair' = [pair EXCEPT ![w] = p]
  /\ UNCHANGED <<locks, shared, callerVars, job, seen, myEpoch>>

\* There is no pair left: the worker drops the Arc and goes for the mutex.
Leave(w) ==
  LET p == jobs[job[w]].next IN
  /\ Goto(w, "claim", "lock")
  /\ Exhausted(p, jobs[job[w]].n)
  /\ jobs' = [jobs EXCEPT ![job[w]].next = NextTicket(p)]
  /\ job' = [job EXCEPT ![w] = NoJob]
  /\ seen' = [seen EXCEPT ![w] = {}]
  /\ UNCHANGED <<locks, shared, callerVars, pair, myEpoch>>

\* The raw pointers of the job are dereferenced and the regions written.
Decrypt(w) ==
  LET j == jobs[job[w]] IN
  /\ Goto(w, "decrypt", "retire")
  /\ out' = [out EXCEPT ![j.owner] = @ \cup SamplesOf(pair[w], j.n)]
  /\ seen' = [seen EXCEPT ![w] = @ \cup {pair[w]}]
  /\ UNCHANGED <<locks, shared, jobs, batch, job, pair, myEpoch>>

LastIsTwo(p) == p = 2  \* mutant: the returned value is taken for the new one

IsLast(p) == p = 1

ReleaseOnly(w, r) == seen[w]  \* mutant: Release for AcqRel

\* What w knows after its AcqRel read-modify-write of pending.
Acquired(w, r) == seen[w] \cup r

\* if job.pending.fetch_sub(1, AcqRel) == 1
Retire(w) ==
  LET j == jobs[job[w]] IN
  /\ Goto(w, "retire", IF IsLast(j.pending) THEN "finish" ELSE "claim")
  /\ jobs' = [jobs EXCEPT ![job[w]].pending = @ - 1,
                          ![job[w]].released = @ \cup seen[w]]
  /\ seen' = [seen EXCEPT ![w] = Acquired(w, j.released)]
  /\ pair' = [pair EXCEPT ![w] = NoPair]
  /\ UNCHANGED <<locks, shared, callerVars, job, myEpoch>>

\* job.finished.store(true, Release)
Finish(w) ==
  /\ Goto(w, "finish", "notify")
  /\ jobs' = [jobs EXCEPT ![job[w]].finished = TRUE,
                          ![job[w]].visible = seen[w]]
  /\ UNCHANGED <<locks, shared, callerVars, job, workerVars>>

\* cv_done.notify_all(), with done_mutex not held.
NotifyDone(w) ==
  /\ pc[w] = "notify"
  /\ pc' = [t \in Threads |->
              IF t = w THEN "claim"
              ELSE IF pc[t] = "blocked" THEN "lockDone" ELSE pc[t]]
  /\ UNCHANGED <<locks, shared, jobs, callerVars, job, workerVars>>

-----------------------------------------------------------------------------
(* The owner of a Pool that is dropped: Drop for Pool takes &mut self, so no *)
(* caller is inside and none will come.                                      *)

StoreShutdown ==
  /\ Droppable
  /\ poolUp
  /\ \A c \in Callers : pc[c] = "idle"
  /\ Goto(Owner, "idle", "notifyDrop")
  /\ shutdown' = TRUE
  /\ UNCHANGED <<locks, poolUp, slot, epoch, jobs, callerVars, job, workerVars>>

NotifyDrop ==
  /\ pc[Owner] = "notifyDrop"
  /\ pc' = [t \in Threads |->
              IF t = Owner THEN "join"
              ELSE IF pc[t] = "asleep" THEN "lock" ELSE pc[t]]
  /\ UNCHANGED <<locks, shared, jobs, callerVars, job, workerVars>>

Join ==
  /\ \A w \in Workers : pc[w] = "exited"
  /\ Goto(Owner, "join", "dropped")
  /\ UNCHANGED <<locks, shared, jobs, callerVars, job, workerVars>>
-----------------------------------------------------------------------------
CallerStep(c) ==
  \/ Inline(c) \/ GetPool(c) \/ LockRun(c) \/ Publish(c) \/ NotifyJob(c)
  \/ LockDone(c) \/ TestFinished(c) \/ TestUnfinished(c) \/ WaitDone(c)
  \/ Unlock(c) \/ Return(c)

WorkerStep(w) ==
  \/ Lock(w) \/ TakeJob(w) \/ NothingNew(w) \/ Sleep(w) \/ Exit(w)
  \/ Claim(w) \/ Leave(w) \/ Decrypt(w) \/ Retire(w) \/ Finish(w) \/ NotifyDone(w)

OwnerStep == StoreShutdown \/ NotifyDrop \/ Join

Next ==
  \/ \E c \in Callers, n \in 0 .. MaxSamples : Call(c, n)
  \/ \E c \in Callers : CallerStep(c) \/ SpuriousDone(c)
  \/ \E w \in Workers : WorkerStep(w) \/ SpuriousJob(w)
  \/ OwnerStep

\* Threads keep running, and one that keeps asking for a mutex that is freed
\* again and again gets it in the end: hence SF; every other step, once it is
\* enabled, stays enabled.  Nobody has to call, to drop the pool or to wake
\* spuriously.
Fairness ==
  /\ \A c \in Callers : SF_vars(CallerStep(c))
  /\ \A w \in Workers : SF_vars(WorkerStep(w))
  /\ WF_vars(NotifyDrop \/ Join)

Spec == Init /\ [][Next]_vars

FairSpec == Spec /\ Fairness

-----------------------------------------------------------------------------
(* Properties. *)

\* Every variable has its type; an epoch never leaves the jobs there are.
TypeOK ==
  /\ poolUp \in BOOLEAN
  /\ runLock \in Callers \cup {NoThread}
  /\ jobLock \in Workers \cup {NoThread}
  /\ doneLock \in Callers \cup {NoThread}
  /\ slot \in 0 .. MaxCalls
  /\ epoch \in 0 .. MaxCalls
  /\ shutdown \in BOOLEAN
  /\ jobs \in [JobIds -> Job]
  /\ pc \in [Threads -> CallerLabels \cup WorkerLabels \cup OwnerLabels]
  /\ \A c \in Callers : pc[c] \in CallerLabels
  /\ \A w \in Workers : pc[w] \in WorkerLabels
  /\ pc[Owner] \in OwnerLabels
  /\ batch \in [Callers -> 0 .. MaxSamples]
  /\ out \in [Callers -> SUBSET (0 .. MaxSamples)]
  /\ job \in [Callers \cup Workers -> 0 .. MaxCalls]
  /\ pair \in [Workers -> 0 .. MaxSamples \cup {NoPair}]
  /\ seen \in [Workers -> SUBSET (0 .. MaxSamples)]
  /\ myEpoch \in [Workers -> 0 .. MaxCalls]

\* "run() blocks until finished" (pool.rs:40): whenever a worker is about to
\* dereference the pointers of a job, the caller they point into is still
\* inside run(), in the call that made the job, and has not seen it finished.
\* A worker that slept through jobs and comes back to an old one included.
BorrowsLive ==
  \A w \in Workers :
    pc[w] = "decrypt" =>
      LET c == jobs[job[w]].owner IN
      /\ c \in Callers
      /\ pc[c] \in InRun \ {"publish", "unlock"}
      /\ job[c] = job[w]

\* A caller that leaves its wait finds every sample of its batch in the
\* buffer, and the writes of all workers, not only of the one that set
\* finished, happen before its next read (pool.rs:131, :181, :182).
ReturnComplete ==
  \A c \in Callers :
    /\ pc[c] \in {"unlock", "return"} => out[c] = Samples(batch[c])
    /\ pc[c] = "unlock" => jobs[job[c]].visible = Pairs(batch[c])

\* "Each index is handled by exactly one worker" (pool.rs:12): no two workers
\* are on the same pair of a job, and none on samples already written.
ExclusivePairs ==
  \A w \in Workers :
    pc[w] = "decrypt" =>
      /\ SamplesOf(pair[w], jobs[job[w]].n) \cap out[jobs[job[w]].owner] = {}
      /\ \A v \in Workers \ {w} :
           pc[v] = "decrypt" /\ job[v] = job[w] => pair[v] # pair[w]

\* The slot never drops a job that is not finished: "a second concurrent call
\* would overwrite the first's job" (pool.rs:53).  Only the newest job may be
\* unfinished, and then its owner holds run_lock.
SingleJob ==
  \A j \in 1 .. epoch :
    ~jobs[j].finished => j = epoch /\ runLock = jobs[j].owner

\* A worker never sleeps on cv_job with a new job in the slot, unless the
\* caller that published it is still about to notify (pool.rs:126-129, :151).
NoLostJobWakeup ==
  \A w \in Workers :
    pc[w] = "asleep" /\ myEpoch[w] # slot =>
      \E c \in Callers : pc[c] = "notifyJob"

\* The epoch a worker counts for itself never overtakes the published one, or
\* it would find "a new job" for ever (pool.rs:144, :154).
EpochNotAhead ==
  \A w \in Workers : myEpoch[w] <= slot

\* No step of a worker touches the buffer of a caller that has stopped
\* waiting: what decrypt_par returned stays as it was.
ReturnedBufferStable ==
  [][\A c \in Callers :
       pc[c] \in {"unlock", "return"} /\ pc'[c] # "idle" => out'[c] = out[c]]_vars

\* Every published job is finished in the end, whichever workers wake late.
JobsFinish ==
  \A j \in JobIds : slot = j ~> jobs[j].finished

\* Every worker catches up with the published epoch in the end and stays
\* there: it neither sleeps through the last job nor retakes it for ever.
WorkersCatchUp ==
  \A w \in Workers : <>[](myEpoch[w] = slot)

\* "The caller blocks until pending == 0" (pool.rs:14): and no longer.  It
\* does not hold: finished is stored and cv_done notified without done_mutex.
RunReturns ==
  \A c \in Callers :
    (pc[c] \in InRun /\ jobs[epoch].finished) ~> pc[c] = "idle"

-----------------------------------------------------------------------------
(* The pool implements the batch service: a call is being served while its   *)
(* caller holds run_lock.                                                    *)

Phase(l) ==
  CASE l = "idle" -> "idle"
    [] l \in {"enter", "lockRun"} -> "called"
    [] l \in InRun -> "serving"
    [] l = "return" -> "done"

Service == INSTANCE BatchService WITH
  phase <- [c \in Callers |-> Phase(pc[c])],
  serving <- runLock

ServiceSpec == Service!Spec
=============================================================================
