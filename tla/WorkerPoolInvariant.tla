------------------------- MODULE WorkerPoolInvariant -------------------------
(***************************************************************************)
(* The inductive invariant of WorkerPool: why the raw pointers of a job    *)
(* are sound.  In one sentence: a pair that is claimed and not yet retired *)
(* is counted in `pending`, so the job of a worker that holds one is not   *)
(* finished, so it is the newest job and its caller still holds run_lock.  *)
(***************************************************************************)
EXTENDS WorkerPool

Working == {"claim", "decrypt", "retire", "finish", "notify"}

\* The workers between claiming a pair of job j and counting it off.
Holders(j) ==
  {w \in Workers : pc[w] \in {"decrypt", "retire"} /\ job[w] = j}

\* The samples of pair p of job j are in the buffer of its caller.
Written(j, p) ==
  \/ p \in jobs[j].released
  \/ \E w \in Holders(j) : pc[w] = "retire" /\ pair[w] = p

\* Who holds a mutex is where its program counter says.
LockInv ==
  /\ \A c \in Callers : runLock = c <=> pc[c] \in InRun
  /\ \A w \in Workers : jobLock = w <=> pc[w] \in {"check", "wait"}

\* The call that holds run_lock is the one that made the newest job.
CallerInv ==
  \A c \in Callers :
    /\ pc[c] = "lockRun" => batch[c] >= 2
    /\ pc[c] \in {"idle", "enter", "lockRun"} => out[c] = {}
    /\ pc[c] \in InRun =>
         /\ epoch >= 1
         /\ job[c] = epoch
         /\ jobs[epoch].owner = c
         /\ jobs[epoch].n = batch[c]
    /\ pc[c] = "publish" => jobs[epoch] = NewJob(c, batch[c])
    /\ pc[c] = "unlock" => jobs[epoch].finished
    /\ pc[c] = "return" => out[c] = Samples(batch[c])
    /\ shutdown => pc[c] = "idle"

\* The buffer of a call holds what the workers have written, and no more.
OutInv ==
  \A c \in Callers :
    pc[c] \in InRun =>
      \A s \in 0 .. MaxSamples :
        s \in out[c] <=>
          \E p \in Pairs(batch[c]) : Written(epoch, p) /\ s \in SamplesOf(p, batch[c])

\* The slot holds the newest job, but for the caller about to publish it.
SlotInv ==
  /\ \A c \in Callers : pc[c] = "publish" => slot = epoch - 1
  /\ slot = epoch \/ \E c \in Callers : pc[c] = "publish"

\* Pairs are retired once each, and pending counts those that are not.
JobInv ==
  \A j \in 1 .. epoch :
    /\ jobs[j].owner \in Callers
    /\ jobs[j].n >= 2
    /\ jobs[j].released \subseteq Pairs(jobs[j].n)
    /\ \A p \in jobs[j].released : p < jobs[j].next
    /\ jobs[j].pending + Cardinality(jobs[j].released) = NumPairs(jobs[j].n)
    /\ jobs[j].finished =>
         /\ jobs[j].released = Pairs(jobs[j].n)
         /\ jobs[j].visible = Pairs(jobs[j].n)

\* A worker with a pair to count off, or the last one on its way to finished.
WorkerInv ==
  \A w \in Workers :
    /\ pc[w] \in Working => job[w] \in 1 .. slot
    /\ pc[w] \in {"decrypt", "retire"} =>
         /\ pair[w] \in Pairs(jobs[job[w]].n) \ jobs[job[w]].released
         /\ pair[w] < jobs[job[w]].next
         /\ \A v \in Holders(job[w]) : pair[v] = pair[w] => v = w
    /\ pc[w] \notin Working => seen[w] = {}
    /\ pc[w] \in {"claim", "decrypt"} => seen[w] \subseteq jobs[job[w]].released
    /\ pc[w] = "retire" =>
         /\ seen[w] \subseteq jobs[job[w]].released \cup {pair[w]}
         /\ pair[w] \in seen[w]
    /\ pc[w] = "notify" => seen[w] \subseteq jobs[job[w]].released
    /\ pc[w] = "finish" =>
         /\ ~jobs[job[w]].finished
         /\ jobs[job[w]].released = Pairs(jobs[job[w]].n)
         /\ seen[w] = Pairs(jobs[job[w]].n)
         /\ \A v \in Workers : pc[v] = "finish" /\ job[v] = job[w] => v = w

\* What a worker knows of the slot before it sleeps.
SleepInv ==
  \A w \in Workers :
    /\ pc[w] \in {"wait", "exited"} => myEpoch[w] = slot
    /\ pc[w] = "exited" => shutdown

IInv ==
  /\ TypeOK
  /\ LockInv
  /\ CallerInv
  /\ OutInv
  /\ SlotInv
  /\ JobInv
  /\ WorkerInv
  /\ SleepInv
  /\ SingleJob
  /\ EpochNotAhead
  /\ NoLostJobWakeup
=============================================================================
