--------------------------- MODULE WorkerPoolProofs ---------------------------
(***************************************************************************)
(* Proofs about WorkerPool, for any finite set of workers, any callers and *)
(* any bound on the calls and on the samples of a call.                    *)
(*                                                                         *)
(* The inductive invariant IInv is kept by every action: first the actions *)
(* that only move threads about, in three groups, then those that change   *)
(* a job or the slot, one by one.  The properties follow from IInv, and so *)
(* does the step simulation that shows the pool to be a BatchService.      *)
(***************************************************************************)
EXTENDS WorkerPoolInvariant, FiniteSetTheorems, TLAPS

\* The labels of a caller that has published its job and not seen it finished.
Waiting == {"notifyJob", "lockDone", "test", "waitDone", "blocked"}

\* A step that only moves threads about, and neither into nor out of the labels
\* that the invariant speaks of.
LEMMA QuietStep ==
  ASSUME IInv, TypeOK',
         UNCHANGED <<runLock, slot, epoch, shutdown, jobs, batch, out, job,
                     pair, seen, myEpoch>>,
         \A c \in Callers :
           \/ pc'[c] = pc[c]
           \/ pc[c] \in Waiting /\ pc'[c] \in Waiting
           \/ pc[c] = "test" /\ pc'[c] = "unlock" /\ IsFinished(c)
           \/ pc[c] = "enter" /\ pc'[c] = "lockRun" /\ batch[c] >= 2,
         \A w \in Workers :
           \/ pc'[w] = pc[w]
           \/ pc[w] \notin Working /\ pc'[w] \notin Working
           \/ pc[w] = "notify" /\ pc'[w] = "claim"
  PROVE  /\ CallerInv' /\ OutInv' /\ SlotInv' /\ JobInv' /\ WorkerInv'
         /\ SingleJob' /\ EpochNotAhead'
         /\ \A c \in Callers : runLock' = c <=> pc'[c] \in InRun
<1>1. CallerInv'
  <2> SUFFICES ASSUME NEW c \in Callers
               PROVE  CallerInv!(c)'
    BY DEF CallerInv
  <2>1. CallerInv!(c)
    BY DEF IInv, CallerInv
  <2>2. shutdown => pc'[c] = pc[c]
    BY <2>1 DEF Waiting
  <2> QED
    BY <2>1, <2>2 DEF Waiting, InRun, IsFinished, IInv
<1>2. \A c \in Callers : pc'[c] \in InRun <=> pc[c] \in InRun
  BY DEF Waiting, InRun
<1>3. \A j : Holders(j)' = Holders(j)
  BY DEF Holders, Working
<1>4. \A j, p : Written(j, p)' <=> Written(j, p)
  BY <1>3 DEF Written, Holders, Working
<1>5. OutInv'
  BY <1>2, <1>4 DEF IInv, OutInv
<1>6. SlotInv'
  BY DEF IInv, SlotInv, Waiting
<1>7. JobInv'
  BY DEF IInv, JobInv
<1>8. WorkerInv'
  <2> SUFFICES ASSUME NEW w \in Workers
               PROVE  WorkerInv!(w)'
    BY DEF WorkerInv
  <2>1. WorkerInv!(w)
    BY DEF IInv, WorkerInv
  <2>2. CASE pc'[w] = pc[w]
    BY <1>3, <2>1, <2>2 DEF Working
  <2>3. CASE pc[w] \notin Working /\ pc'[w] \notin Working
    BY <2>1, <2>3 DEF Working
  <2>4. CASE pc[w] = "notify" /\ pc'[w] = "claim"
    BY <2>1, <2>4 DEF Working
  <2> QED
    BY <2>2, <2>3, <2>4
<1>9. SingleJob' /\ EpochNotAhead'
  BY DEF IInv, SingleJob, EpochNotAhead
<1> QED
  BY <1>1, <1>2, <1>5, <1>6, <1>7, <1>8, <1>9 DEF IInv, LockInv

\* The steps of run() that only wait, and the creation of the workers.
LEMMA CallerMoves ==
  ASSUME IInv, NEW c \in Callers,
         \/ GetPool(c) \/ NotifyJob(c) \/ LockDone(c) \/ TestFinished(c)
         \/ TestUnfinished(c) \/ WaitDone(c) \/ SpuriousDone(c)
  PROVE  IInv'
<1> USE ThreadsAssumption
        DEF GetPool, NotifyJob, LockDone, TestFinished, TestUnfinished, WaitDone,
            SpuriousDone, Goto, locks, shared, callerVars, workerVars, Threads
<1>1. TypeOK'
  <2>1. TypeOK
    BY DEF IInv
  <2>2. /\ pc' \in [Threads -> CallerLabels \cup WorkerLabels \cup OwnerLabels]
        /\ \A d \in Callers : pc'[d] \in CallerLabels
        /\ \A w \in Workers : pc'[w] \in WorkerLabels
        /\ pc'[Owner] \in OwnerLabels
    BY <2>1 DEF TypeOK, CallerLabels, WorkerLabels, OwnerLabels
  <2>3. poolUp' \in BOOLEAN /\ doneLock' \in Callers \cup {NoThread}
    BY <2>1 DEF TypeOK
  <2> QED
    BY <2>1, <2>2, <2>3 DEF TypeOK
<1>2. TypeOK
  BY DEF IInv
<1>3. /\ CallerInv' /\ OutInv' /\ SlotInv' /\ JobInv' /\ WorkerInv'
      /\ SingleJob' /\ EpochNotAhead'
      /\ \A d \in Callers : runLock' = d <=> pc'[d] \in InRun
  <2>1. UNCHANGED <<runLock, slot, epoch, shutdown, jobs, batch, out, job,
                    pair, seen, myEpoch>>
    OBVIOUS
  <2>2. \A d \in Callers :
          \/ pc'[d] = pc[d]
          \/ pc[d] \in Waiting /\ pc'[d] \in Waiting
          \/ pc[d] = "test" /\ pc'[d] = "unlock" /\ IsFinished(d)
          \/ pc[d] = "enter" /\ pc'[d] = "lockRun" /\ batch[d] >= 2
    BY <1>2 DEF TypeOK, Waiting, CallerLabels
  <2>3. \A w \in Workers :
          \/ pc'[w] = pc[w]
          \/ pc[w] \notin Working /\ pc'[w] \notin Working
          \/ pc[w] = "notify" /\ pc'[w] = "claim"
    BY <1>2 DEF TypeOK, Working
  <2> QED
    BY <1>1, <2>1, <2>2, <2>3, QuietStep
<1>4. LockInv'
  BY <1>2, <1>3 DEF TypeOK, IInv, LockInv
<1>5. SleepInv'
  BY <1>2 DEF TypeOK, IInv, SleepInv
<1>6. NoLostJobWakeup'
  <2> SUFFICES ASSUME NEW w \in Workers, pc'[w] = "asleep", myEpoch'[w] # slot'
               PROVE  \E d \in Callers : pc'[d] = "notifyJob"
    BY DEF NoLostJobWakeup
  <2>1. pc[w] = "asleep" /\ myEpoch[w] # slot /\ ~NotifyJob(c)
    BY <1>2 DEF TypeOK
  <2>2. PICK d \in Callers : pc[d] = "notifyJob"
    BY <2>1 DEF IInv, NoLostJobWakeup
  <2>3. pc'[d] = "notifyJob"
    BY <1>2, <2>1, <2>2 DEF TypeOK
  <2> QED
    BY <2>3
<1> QED
  BY <1>1, <1>3, <1>4, <1>5, <1>6 DEF IInv

\* The steps of a worker or of the owner that move threads about, but for the
\* one that falls asleep.
LEMMA WorkerMoves ==
  ASSUME IInv,
         \/ \E w \in Workers :
              \/ Lock(w) \/ NothingNew(w) \/ Sleep(w) \/ Exit(w)
              \/ NotifyDone(w) \/ SpuriousJob(w)
         \/ NotifyDrop \/ Join
  PROVE  IInv'
<1> USE ThreadsAssumption
        DEF Lock, NothingNew, Sleep, Exit, NotifyDone, SpuriousJob, NotifyDrop, Join,
            Goto, locks, shared, callerVars, workerVars, Threads
<1>1. TypeOK'
  BY DEF IInv, TypeOK, CallerLabels, WorkerLabels, OwnerLabels
<1>2. TypeOK
  BY DEF IInv
<1>3. /\ CallerInv' /\ OutInv' /\ SlotInv' /\ JobInv' /\ WorkerInv'
      /\ SingleJob' /\ EpochNotAhead'
      /\ \A d \in Callers : runLock' = d <=> pc'[d] \in InRun
  <2>1. UNCHANGED <<runLock, slot, epoch, shutdown, jobs, batch, out, job,
                    pair, seen, myEpoch>>
    OBVIOUS
  <2>2. \A d \in Callers :
          \/ pc'[d] = pc[d]
          \/ pc[d] \in Waiting /\ pc'[d] \in Waiting
          \/ pc[d] = "test" /\ pc'[d] = "unlock" /\ IsFinished(d)
          \/ pc[d] = "enter" /\ pc'[d] = "lockRun" /\ batch[d] >= 2
    BY <1>2 DEF TypeOK, Waiting, CallerLabels
  <2>3. \A w \in Workers :
          \/ pc'[w] = pc[w]
          \/ pc[w] \notin Working /\ pc'[w] \notin Working
          \/ pc[w] = "notify" /\ pc'[w] = "claim"
    BY <1>2 DEF TypeOK, Working
  <2> QED
    BY <1>1, <2>1, <2>2, <2>3, QuietStep
<1>4. LockInv'
  BY <1>2, <1>3 DEF TypeOK, IInv, LockInv
<1>5. SleepInv'
  BY <1>2 DEF TypeOK, IInv, SleepInv, HasNewJob, EpochNotAhead, NoJob
<1>6. NoLostJobWakeup'
  <2> SUFFICES ASSUME NEW w \in Workers, pc'[w] = "asleep", myEpoch'[w] # slot'
               PROVE  \E d \in Callers : pc'[d] = "notifyJob"
    BY DEF NoLostJobWakeup
  <2>1. pc[w] = "asleep" /\ myEpoch[w] # slot
    BY <1>2 DEF TypeOK, IInv, SleepInv
  <2>2. PICK d \in Callers : pc[d] = "notifyJob"
    BY <2>1 DEF IInv, NoLostJobWakeup
  <2>3. pc'[d] = "notifyJob"
    BY <1>2, <2>2 DEF TypeOK
  <2> QED
    BY <2>3
<1> QED
  BY <1>1, <1>3, <1>4, <1>5, <1>6 DEF IInv

\* The number of pairs, and why a full set of retired pairs is all of them.
LEMMA PairsFacts ==
  ASSUME NEW n \in 0 .. MaxSamples
  PROVE  /\ NumPairs(n) \in 0 .. MaxSamples
         /\ n >= 1 => NumPairs(n) >= 1
         /\ IsFiniteSet(Pairs(n))
         /\ Cardinality(Pairs(n)) = NumPairs(n)
<1>1. NumPairs(n) \in 0 .. MaxSamples /\ (n >= 1 => NumPairs(n) >= 1)
  BY BoundsAssumption DEF NumPairs
<1>2. Pairs(n) = 0 .. NumPairs(n) - 1
  BY <1>1, BoundsAssumption DEF Pairs
<1>3. IsFiniteSet(Pairs(n)) /\ Cardinality(Pairs(n)) = NumPairs(n)
  <2>1. \A a, b \in Int : /\ IsFiniteSet(a .. b)
                          /\ Cardinality(a .. b) = IF a > b THEN 0 ELSE b - a + 1
    BY FS_Interval
  <2>2. NumPairs(n) \in Int /\ NumPairs(n) - 1 \in Int /\ NumPairs(n) >= 0
    BY <1>1, BoundsAssumption
  <2> QED
    BY <1>2, <2>1, <2>2
<1> QED
  BY <1>1, <1>3

\* The samples of all pairs are the samples of the batch.
LEMMA PairsCover ==
  ASSUME NEW n \in 0 .. MaxSamples, NEW s \in Samples(n)
  PROVE  \E p \in Pairs(n) : s \in SamplesOf(p, n)
<1>1. s \div 2 \in Pairs(n) /\ s \in SamplesOf(s \div 2, n)
  BY BoundsAssumption DEF Samples, Pairs, NumPairs, SamplesOf
<1> QED
  BY <1>1

\* Outside run() a call has a buffer of its own and no job.
LEMMA OutsideMoves ==
  ASSUME IInv, NEW c \in Callers,
         \/ \E n \in 0 .. MaxSamples : Call(c, n)
         \/ Inline(c)
         \/ Return(c)
  PROVE  IInv'
<1> USE ThreadsAssumption
        DEF Call, Inline, Return, Goto, locks, shared, callerVars, workerVars, Threads
<1>1. TypeOK
  BY DEF IInv
<1>2. /\ \A d \in Callers \ {c} :
           pc'[d] = pc[d] /\ batch'[d] = batch[d] /\ out'[d] = out[d]
      /\ \A w \in Workers : pc'[w] = pc[w]
      /\ pc'[Owner] = pc[Owner]
      /\ pc[c] \notin InRun /\ pc'[c] \notin InRun
  BY <1>1 DEF TypeOK, InRun
<1>3. batch'[c] \in 0 .. MaxSamples /\ out'[c] \in SUBSET (0 .. MaxSamples)
  BY <1>1, BoundsAssumption DEF TypeOK, Samples
<1>4. TypeOK'
  <2>1. /\ pc' \in [Threads -> CallerLabels \cup WorkerLabels \cup OwnerLabels]
        /\ pc'[c] \in CallerLabels
    BY <1>1 DEF TypeOK, CallerLabels
  <2>2. /\ batch' \in [Callers -> 0 .. MaxSamples]
        /\ out' \in [Callers -> SUBSET (0 .. MaxSamples)]
    BY <1>1, <1>3 DEF TypeOK
  <2> QED
    BY <1>1, <1>2, <2>1, <2>2 DEF TypeOK
<1>5. UNCHANGED <<runLock, jobLock, slot, epoch, jobs, job, pair, seen, myEpoch, shutdown>>
  OBVIOUS
<1>6. LockInv'
  BY <1>2, <1>5 DEF IInv, LockInv
<1>7. CallerInv'
  <2>1. ASSUME NEW d \in Callers \ {c} PROVE CallerInv!(d)'
    BY <1>2, <1>5 DEF IInv, CallerInv
  <2>2. CallerInv!(c)'
    BY <1>1, <1>2 DEF IInv, CallerInv, TypeOK, InRun
  <2> QED
    BY <2>1, <2>2 DEF CallerInv
<1>8. \A j : Holders(j)' = Holders(j)
  BY <1>2, <1>5 DEF Holders
<1>9. \A j, p : Written(j, p)' <=> Written(j, p)
  BY <1>2, <1>5, <1>8 DEF Written, Holders
<1>10. OutInv'
  BY <1>2, <1>5, <1>9 DEF IInv, OutInv
<1>11. SlotInv'
  BY <1>2, <1>5 DEF IInv, SlotInv, InRun
<1>12. JobInv' /\ SingleJob' /\ EpochNotAhead'
  BY <1>5 DEF IInv, JobInv, SingleJob, EpochNotAhead
<1>13. WorkerInv'
  BY <1>2, <1>5, <1>8 DEF IInv, WorkerInv
<1>14. SleepInv' /\ NoLostJobWakeup'
  BY <1>2, <1>5 DEF IInv, SleepInv, NoLostJobWakeup, InRun
<1> QED
  BY <1>4, <1>6, <1>7, <1>10, <1>11, <1>12, <1>13, <1>14 DEF IInv

\* Nobody is in run() when the pool is dropped.
LEMMA StoreShutdownStep ==
  ASSUME IInv, StoreShutdown
  PROVE  IInv'
<1> USE ThreadsAssumption
        DEF StoreShutdown, Goto, locks, callerVars, workerVars, Threads
<1>1. TypeOK
  BY DEF IInv
<1>2. TypeOK'
  BY <1>1 DEF TypeOK, OwnerLabels
<1>3. \A t \in Callers \cup Workers : pc'[t] = pc[t]
  BY <1>1 DEF TypeOK
<1>4. UNCHANGED <<runLock, jobLock, slot, epoch, jobs, batch, out, job, pair, seen, myEpoch>>
  OBVIOUS
<1>5. LockInv' /\ CallerInv'
  BY <1>3, <1>4 DEF IInv, LockInv, CallerInv
<1>6. \A j : Holders(j)' = Holders(j)
  BY <1>3, <1>4 DEF Holders
<1>7. \A j, p : Written(j, p)' <=> Written(j, p)
  BY <1>3, <1>4, <1>6 DEF Written, Holders
<1>8. OutInv' /\ SlotInv'
  BY <1>3, <1>4, <1>7 DEF IInv, OutInv, SlotInv
<1>9. JobInv' /\ SingleJob' /\ EpochNotAhead'
  BY <1>4 DEF IInv, JobInv, SingleJob, EpochNotAhead
<1>10. WorkerInv'
  BY <1>3, <1>4, <1>6 DEF IInv, WorkerInv
<1>11. SleepInv' /\ NoLostJobWakeup'
  BY <1>3, <1>4 DEF IInv, SleepInv, NoLostJobWakeup
<1> QED
  BY <1>2, <1>5, <1>8, <1>9, <1>10, <1>11 DEF IInv

\* A new job: every older one is finished, and no worker knows of it.
LEMMA LockRunStep ==
  ASSUME IInv, NEW c \in Callers, LockRun(c)
  PROVE  IInv'
<1> USE ThreadsAssumption, BoundsAssumption
<1>1. TypeOK
  BY DEF IInv
<1>2. /\ runLock = NoThread /\ runLock' = c
      /\ epoch < MaxCalls /\ epoch' = epoch + 1
      /\ pc[c] = "lockRun" /\ pc'[c] = "publish"
      /\ job'[c] = epoch + 1
      /\ \A t \in Threads \ {c} : pc'[t] = pc[t]
      /\ \A t \in Callers \cup Workers : t # c => job'[t] = job[t]
      /\ UNCHANGED <<jobLock, doneLock, poolUp, slot, shutdown, batch, out,
                     pair, seen, myEpoch>>
  BY <1>1 DEF TypeOK, LockRun, RunLockFree, Goto, callerVars, workerVars, Threads
<1>3. slot = epoch /\ \A d \in Callers : pc[d] \notin InRun
  BY <1>2 DEF IInv, LockInv, SlotInv, InRun
<1>4. batch[c] \in 2 .. MaxSamples /\ out[c] = {}
  BY <1>1, <1>2 DEF IInv, CallerInv, TypeOK
<1>5. NewJob(c, batch[c]) \in Job
  BY <1>4, PairsFacts DEF NewJob, Job
<1>6. /\ jobs' \in [JobIds -> Job]
      /\ jobs'[epoch + 1] = NewJob(c, batch[c])
      /\ \A j \in 1 .. epoch : jobs'[j] = jobs[j]
  BY <1>1, <1>2, <1>5 DEF LockRun, TypeOK, JobIds
<1>7. \A j \in 1 .. epoch : jobs[j].finished
  BY <1>2 DEF IInv, SingleJob, JobInv
<1>8. \A w \in Workers : pc'[w] = pc[w] /\ job'[w] = job[w]
  BY <1>2 DEF Threads
<1>9. TypeOK'
  <2>1. pc' \in [Threads -> CallerLabels \cup WorkerLabels \cup OwnerLabels]
    BY <1>1 DEF TypeOK, LockRun, Goto, CallerLabels
  <2>2. job' \in [Callers \cup Workers -> 0 .. MaxCalls]
    BY <1>1, <1>2 DEF TypeOK, LockRun
  <2>3. \A d \in Callers : pc'[d] \in CallerLabels
    BY <1>1, <1>2 DEF TypeOK, CallerLabels, Threads
  <2>4. pc'[Owner] = pc[Owner]
    BY <1>2 DEF Threads
  <2>5. epoch' \in 0 .. MaxCalls /\ runLock' \in Callers \cup {NoThread}
    BY <1>1, <1>2 DEF TypeOK
  <2> QED
    BY <1>1, <1>2, <1>6, <1>8, <2>1, <2>2, <2>3, <2>4, <2>5 DEF TypeOK
<1>10. LockInv'
  BY <1>2, <1>3, <1>8 DEF IInv, LockInv, InRun, Threads
<1>11. CallerInv'
  <2>1. CallerInv!(c)'
    <3>1. ~shutdown
      BY <1>2 DEF IInv, CallerInv
    <3> QED
      BY <1>1, <1>2, <1>4, <1>6, <3>1 DEF InRun, NewJob, TypeOK
  <2>2. ASSUME NEW d \in Callers \ {c} PROVE CallerInv!(d)'
    <3>1. pc'[d] = pc[d] /\ pc[d] \notin InRun
      BY <1>2, <1>3 DEF Threads
    <3> QED
      BY <1>2, <3>1 DEF IInv, CallerInv, InRun
  <2> QED
    BY <2>1, <2>2 DEF CallerInv
<1>12. \A j \in 1 .. epoch : Holders(j)' = Holders(j)
  BY <1>8 DEF Holders
<1>13. Holders(epoch)' = {}
  <2>1. \A w \in Workers : pc[w] \in Working => job[w] # epoch'
    BY <1>1, <1>2, <1>3 DEF IInv, WorkerInv, TypeOK
  <2> QED
    BY <1>2, <1>8, <2>1 DEF Holders, Working
<1>14. OutInv'
  <2>1. \A p : ~Written(epoch, p)'
    BY <1>2, <1>6, <1>13 DEF Written, NewJob
  <2>2. \A d \in Callers : pc'[d] \in InRun => d = c
    BY <1>2, <1>3 DEF Threads
  <2> QED
    BY <1>2, <1>4, <2>1, <2>2 DEF OutInv
<1>15. SlotInv'
  BY <1>1, <1>2, <1>3, <1>10 DEF SlotInv, LockInv, InRun, TypeOK
<1>16. JobInv'
  <2>1. ASSUME NEW j \in 1 .. epoch PROVE JobInv!(j)'
    BY <1>6 DEF IInv, JobInv
  <2>2. ASSUME NEW j \in {epoch + 1} PROVE JobInv!(j)'
    <3>1. Cardinality({}) = 0
      BY FS_EmptySet
    <3>2. NumPairs(batch[c]) \in 0 .. MaxSamples
      BY <1>4, PairsFacts
    <3>3. /\ jobs'[j].owner = c
          /\ jobs'[j].n = batch[c]
          /\ jobs'[j].released = {}
          /\ jobs'[j].pending = NumPairs(batch[c])
          /\ ~jobs'[j].finished
      BY <1>6, <2>2 DEF NewJob
    <3> QED
      BY <1>4, <3>1, <3>2, <3>3
  <2>3. 1 .. epoch' = 1 .. epoch \cup {epoch + 1}
    BY <1>1, <1>2 DEF TypeOK
  <2> QED
    BY <2>1, <2>2, <2>3 DEF JobInv
<1>17. WorkerInv'
  <2> SUFFICES ASSUME NEW w \in Workers
               PROVE  WorkerInv!(w)'
    BY DEF WorkerInv
  <2>1. CASE pc[w] \notin Working
    BY <1>2, <1>8, <2>1 DEF IInv, WorkerInv, Working
  <2>2. CASE pc[w] \in Working
    <3>1. job[w] \in 1 .. epoch
      BY <1>3, <2>2 DEF IInv, WorkerInv
    <3> QED
      BY <1>2, <1>6, <1>8, <1>12, <3>1 DEF IInv, WorkerInv
  <2> QED
    BY <2>1, <2>2
<1>18. SleepInv' /\ EpochNotAhead' /\ NoLostJobWakeup'
  BY <1>2, <1>3, <1>8 DEF IInv, SleepInv, EpochNotAhead, NoLostJobWakeup, InRun
<1>19. SingleJob'
  BY <1>1, <1>2, <1>6, <1>7 DEF SingleJob, NewJob, TypeOK
<1> QED
  BY <1>9, <1>10, <1>11, <1>14, <1>15, <1>16, <1>17, <1>18, <1>19 DEF IInv

\* The slot changes while no worker is between its look at it and its sleep.
LEMMA PublishStep ==
  ASSUME IInv, NEW c \in Callers, Publish(c)
  PROVE  IInv'
<1> USE ThreadsAssumption
<1>1. TypeOK
  BY DEF IInv
<1>2. /\ jobLock = NoThread
      /\ pc[c] = "publish" /\ pc'[c] = "notifyJob"
      /\ slot' = job[c]
      /\ \A t \in Threads \ {c} : pc'[t] = pc[t]
      /\ UNCHANGED <<runLock, jobLock, doneLock, poolUp, epoch, shutdown, jobs,
                     batch, out, job, pair, seen, myEpoch>>
  BY <1>1 DEF TypeOK, Publish, JobLockFree, Goto, locks, callerVars, workerVars, Threads
<1>3. /\ slot = epoch - 1 /\ slot' = epoch /\ epoch >= 1
      /\ runLock = c /\ ~shutdown
  BY <1>2 DEF IInv, LockInv, SlotInv, CallerInv, InRun
<1>4. \A t \in Callers \cup Workers \cup {Owner} : t # c => pc'[t] = pc[t]
  BY <1>2 DEF Threads
<1>5. TypeOK'
  <2>1. pc' \in [Threads -> CallerLabels \cup WorkerLabels \cup OwnerLabels]
    BY <1>1 DEF TypeOK, Publish, Goto, CallerLabels
  <2>2. \A d \in Callers : pc'[d] \in CallerLabels
    BY <1>1, <1>2, <1>4 DEF TypeOK, CallerLabels
  <2>3. slot' \in 0 .. MaxCalls
    BY <1>1, <1>3 DEF TypeOK
  <2> QED
    BY <1>1, <1>2, <1>4, <2>1, <2>2, <2>3 DEF TypeOK
<1>6. LockInv'
  BY <1>2, <1>4 DEF IInv, LockInv, InRun
<1>7. CallerInv'
  BY <1>2, <1>3, <1>4 DEF IInv, CallerInv, InRun
<1>8. \A d \in Callers : pc[d] \in InRun => d = c
  BY <1>3 DEF IInv, LockInv
<1>9. SlotInv'
  BY <1>2, <1>3, <1>4, <1>8 DEF SlotInv, InRun
<1>10. \A j : Holders(j)' = Holders(j)
  BY <1>2, <1>4 DEF Holders
<1>11. \A j, p : Written(j, p)' <=> Written(j, p)
  BY <1>2, <1>4, <1>10 DEF Written, Holders
<1>12. OutInv'
  BY <1>2, <1>4, <1>11 DEF IInv, OutInv, InRun
<1>13. JobInv' /\ SingleJob'
  BY <1>2 DEF IInv, JobInv, SingleJob
<1>14. WorkerInv'
  <2> SUFFICES ASSUME NEW w \in Workers
               PROVE  WorkerInv!(w)'
    BY DEF WorkerInv
  <2>1. pc[w] \in Working => job[w] \in 1 .. slot'
    BY <1>1, <1>3 DEF IInv, WorkerInv, TypeOK
  <2> QED
    BY <1>2, <1>4, <1>10, <2>1 DEF IInv, WorkerInv
<1>15. SleepInv'
  BY <1>2, <1>3, <1>4 DEF IInv, SleepInv, LockInv
<1>16. EpochNotAhead'
  BY <1>1, <1>2, <1>3 DEF IInv, EpochNotAhead, TypeOK
<1>17. NoLostJobWakeup'
  BY <1>2 DEF NoLostJobWakeup
<1> QED
  BY <1>5, <1>6, <1>7, <1>9, <1>12, <1>13, <1>14, <1>15, <1>16, <1>17 DEF IInv

\* A finished job has all its pairs retired, so the buffer is full.
LEMMA FinishedIsFull ==
  ASSUME IInv, NEW c \in Callers, pc[c] \in InRun, jobs[epoch].finished
  PROVE  out[c] = Samples(batch[c])
<1>1. TypeOK /\ OutInv
  BY DEF IInv
<1>2. /\ epoch \in 1 .. epoch
      /\ jobs[epoch].n = batch[c]
      /\ batch[c] \in 0 .. MaxSamples
      /\ jobs[epoch].released = Pairs(batch[c])
  BY <1>1 DEF IInv, CallerInv, JobInv, TypeOK
<1>3. ASSUME NEW s \in out[c] PROVE s \in Samples(batch[c])
  BY <1>1 DEF OutInv, TypeOK, SamplesOf
<1>4. ASSUME NEW s \in Samples(batch[c]) PROVE s \in out[c]
  <2>1. PICK p \in Pairs(batch[c]) : s \in SamplesOf(p, batch[c])
    BY <1>2, PairsCover
  <2>2. Written(epoch, p)
    BY <1>2 DEF Written
  <2> QED
    BY <1>1, <2>1, <2>2 DEF OutInv, Samples
<1> QED
  BY <1>3, <1>4

\* run() ends, with the job finished and the buffer full.
LEMMA UnlockStep ==
  ASSUME IInv, NEW c \in Callers, Unlock(c)
  PROVE  IInv'
<1> USE ThreadsAssumption
<1>1. TypeOK
  BY DEF IInv
<1>2. /\ pc[c] = "unlock" /\ pc'[c] = "return"
      /\ runLock' = NoThread /\ doneLock' = NoThread
      /\ job'[c] = NoJob
      /\ \A t \in Callers \cup Workers : t # c => job'[t] = job[t]
      /\ \A t \in Threads \ {c} : pc'[t] = pc[t]
      /\ UNCHANGED <<jobLock, poolUp, slot, epoch, shutdown, jobs, batch, out,
                     pair, seen, myEpoch>>
  BY <1>1 DEF TypeOK, Unlock, Goto, shared, callerVars, workerVars, Threads
<1>3. \A t \in Callers \cup Workers \cup {Owner} : t # c => pc'[t] = pc[t]
  BY <1>2 DEF Threads
<1>4. \A w \in Workers : pc'[w] = pc[w] /\ job'[w] = job[w]
  BY <1>2, <1>3
<1>5. runLock = c /\ jobs[epoch].finished /\ ~shutdown /\ pc[c] \in InRun
  BY <1>2 DEF IInv, LockInv, CallerInv, InRun
<1>6. \A d \in Callers : pc[d] \in InRun => d = c
  BY <1>5 DEF IInv, LockInv
<1>7. TypeOK'
  <2>1. pc' \in [Threads -> CallerLabels \cup WorkerLabels \cup OwnerLabels]
    BY <1>1 DEF TypeOK, Unlock, Goto, CallerLabels
  <2>2. \A d \in Callers : pc'[d] \in CallerLabels
    BY <1>1, <1>2, <1>3 DEF TypeOK, CallerLabels
  <2>3. job' \in [Callers \cup Workers -> 0 .. MaxCalls]
    BY <1>1, BoundsAssumption DEF TypeOK, Unlock, NoJob
  <2> QED
    BY <1>1, <1>2, <1>3, <2>1, <2>2, <2>3 DEF TypeOK
<1>8. LockInv'
  BY <1>2, <1>3, <1>6 DEF IInv, LockInv, InRun
<1>9. CallerInv'
  <2>1. CallerInv!(c)'
    BY <1>2, <1>5, FinishedIsFull DEF InRun
  <2>2. ASSUME NEW d \in Callers \ {c} PROVE CallerInv!(d)'
    BY <1>2, <1>3, <1>6 DEF IInv, CallerInv, InRun
  <2> QED
    BY <2>1, <2>2 DEF CallerInv
<1>10. OutInv'
  BY <1>2, <1>3, <1>6 DEF OutInv, InRun
<1>11. SlotInv'
  BY <1>2, <1>3, <1>6 DEF IInv, SlotInv, InRun
<1>12. \A j : Holders(j)' = Holders(j)
  BY <1>4 DEF Holders
<1>13. JobInv' /\ EpochNotAhead'
  BY <1>2 DEF IInv, JobInv, EpochNotAhead
<1>14. SingleJob'
  BY <1>2, <1>5 DEF IInv, SingleJob
<1>15. WorkerInv'
  BY <1>2, <1>4, <1>12 DEF IInv, WorkerInv
<1>16. SleepInv'
  BY <1>2, <1>4 DEF IInv, SleepInv
<1>17. NoLostJobWakeup'
  BY <1>2, <1>3, <1>4 DEF IInv, NoLostJobWakeup
<1> QED
  BY <1>7, <1>8, <1>9, <1>10, <1>11, <1>13, <1>14, <1>15, <1>16, <1>17 DEF IInv

\* What the callers and the sleepers rely on, when a worker is busy with a job
\* that has been published.
LEMMA WorkFrame ==
  ASSUME IInv, NEW w \in Workers,
         \A t \in Threads \ {w} : pc'[t] = pc[t],
         pc'[w] \in Working \cup {"lock"},
         \A c \in Callers : job'[c] = job[c],
         UNCHANGED <<runLock, slot, epoch, shutdown, batch>>,
         \A v \in Workers \ {w} : myEpoch'[v] = myEpoch[v],
         \A j \in 1 .. epoch :
           /\ jobs'[j].owner = jobs[j].owner
           /\ jobs'[j].n = jobs[j].n
           /\ jobs[j].finished => jobs'[j].finished
           /\ j > slot => jobs'[j] = jobs[j],
         \A c \in Callers : pc[c] \notin InRun => out'[c] = out[c]
  PROVE  /\ CallerInv' /\ SlotInv' /\ SleepInv' /\ NoLostJobWakeup'
         /\ \A c \in Callers : runLock' = c <=> pc'[c] \in InRun
<1> USE ThreadsAssumption
<1>1. TypeOK
  BY DEF IInv
<1>2. \A c \in Callers : pc'[c] = pc[c]
  BY DEF Threads
<1>3. \A v \in Workers \ {w} : pc'[v] = pc[v]
  BY DEF Threads
<1>4. CallerInv'
  <2> SUFFICES ASSUME NEW c \in Callers
               PROVE  CallerInv!(c)'
    BY DEF CallerInv
  <2>1. pc[c] \in InRun => epoch \in 1 .. epoch
    BY <1>1 DEF IInv, CallerInv, TypeOK
  <2>2. pc[c] = "publish" => epoch > slot
    BY <1>1 DEF IInv, SlotInv, TypeOK
  <2> QED
    BY <1>2, <2>1, <2>2 DEF IInv, CallerInv, InRun
<1>5. SlotInv'
  BY <1>2 DEF IInv, SlotInv
<1>6. SleepInv'
  BY <1>3 DEF IInv, SleepInv, Working
<1>7. NoLostJobWakeup'
  BY <1>2, <1>3 DEF IInv, NoLostJobWakeup, Working
<1> QED
  BY <1>2, <1>4, <1>5, <1>6, <1>7 DEF IInv, LockInv

\* The job of a worker that is busy has been published, and if a pair of it is
\* held, it is not finished: it is the newest job and its caller is in run().
LEMMA BusyFacts ==
  ASSUME IInv, NEW w \in Workers, pc[w] \in Working
  PROVE  /\ job[w] \in 1 .. slot
         /\ job[w] \in 1 .. epoch
         /\ job[w] \in JobIds
         /\ jobs[job[w]] \in Job
         /\ pc[w] \in {"decrypt", "retire", "finish"} =>
              /\ ~jobs[job[w]].finished
              /\ job[w] = epoch
              /\ jobs[epoch].owner \in Callers
              /\ runLock = jobs[epoch].owner
              /\ pc[jobs[epoch].owner] \in InRun
<1>1. TypeOK /\ job[w] \in 1 .. slot
  BY DEF IInv, WorkerInv
<1>2. slot <= epoch /\ epoch <= MaxCalls
  BY <1>1 DEF IInv, SlotInv, TypeOK
<1>3. job[w] \in 1 .. epoch /\ job[w] \in JobIds /\ jobs[job[w]] \in Job
  BY <1>1, <1>2, BoundsAssumption DEF TypeOK, JobIds
<1>4. pc[w] \in {"decrypt", "retire", "finish"} => ~jobs[job[w]].finished
  BY <1>3 DEF IInv, WorkerInv, JobInv
<1> QED
  BY <1>1, <1>3, <1>4 DEF IInv, SingleJob, JobInv, LockInv

\* A worker takes a job it has not counted, and stays behind the slot.
LEMMA TakeJobStep ==
  ASSUME IInv, NEW w \in Workers, TakeJob(w)
  PROVE  IInv'
<1> USE ThreadsAssumption
<1>1. TypeOK
  BY DEF IInv
<1>2. /\ slot # NoJob /\ slot # myEpoch[w]
      /\ pc[w] = "check" /\ pc'[w] = "claim"
      /\ jobLock' = NoThread
      /\ job'[w] = slot
      /\ myEpoch'[w] = myEpoch[w] + 1
      /\ \A t \in Callers \cup Workers : t # w => job'[t] = job[t]
      /\ \A v \in Workers : v # w => myEpoch'[v] = myEpoch[v]
      /\ \A t \in Threads \ {w} : pc'[t] = pc[t]
      /\ UNCHANGED <<runLock, doneLock, poolUp, slot, epoch, shutdown, jobs, batch, out,
                     pair, seen>>
  BY <1>1 DEF TypeOK, TakeJob, HasNewJob, Goto, shared, callerVars, Threads
<1>3. \A t \in Callers \cup Workers \cup {Owner} : t # w => pc'[t] = pc[t]
  BY <1>2 DEF Threads
<1>4. slot \in 1 .. epoch /\ myEpoch[w] < slot /\ jobLock = w
  BY <1>1, <1>2 DEF IInv, TypeOK, SlotInv, EpochNotAhead, LockInv, NoJob
<1>5. TypeOK'
  <2>1. pc' \in [Threads -> CallerLabels \cup WorkerLabels \cup OwnerLabels]
    BY <1>1 DEF TypeOK, TakeJob, Goto, WorkerLabels
  <2>2. \A v \in Workers : pc'[v] \in WorkerLabels
    BY <1>1, <1>2, <1>3 DEF TypeOK, WorkerLabels
  <2>3. job' \in [Callers \cup Workers -> 0 .. MaxCalls]
    BY <1>1 DEF TypeOK, TakeJob
  <2>4. myEpoch[w] + 1 \in 0 .. MaxCalls
    BY <1>1, <1>4, BoundsAssumption DEF TypeOK
  <2>5. myEpoch' \in [Workers -> 0 .. MaxCalls]
    BY <1>1, <2>4 DEF TypeOK, TakeJob
  <2> QED
    BY <1>1, <1>2, <1>3, <2>1, <2>2, <2>3, <2>5 DEF TypeOK
<1>6. /\ CallerInv' /\ SlotInv' /\ SleepInv' /\ NoLostJobWakeup'
      /\ \A c \in Callers : runLock' = c <=> pc'[c] \in InRun
  BY <1>2, WorkFrame DEF Working
<1>7. LockInv'
  BY <1>2, <1>3, <1>4, <1>6 DEF IInv, LockInv
<1>8. \A j : Holders(j)' = Holders(j)
  BY <1>2, <1>3 DEF Holders
<1>9. \A j, p : Written(j, p)' <=> Written(j, p)
  BY <1>2, <1>3, <1>8 DEF Written, Holders
<1>10. OutInv'
  BY <1>2, <1>3, <1>9 DEF IInv, OutInv
<1>11. JobInv' /\ SingleJob'
  BY <1>2 DEF IInv, JobInv, SingleJob
<1>12. WorkerInv'
  <2>1. WorkerInv!(w)'
    BY <1>2, <1>4 DEF IInv, WorkerInv, Working, TypeOK
  <2>2. ASSUME NEW v \in Workers \ {w} PROVE WorkerInv!(v)'
    BY <1>2, <1>3, <1>8 DEF IInv, WorkerInv
  <2> QED
    BY <2>1, <2>2 DEF WorkerInv
<1>13. EpochNotAhead'
  BY <1>1, <1>2, <1>4 DEF IInv, EpochNotAhead, TypeOK
<1> QED
  BY <1>5, <1>6, <1>7, <1>10, <1>11, <1>12, <1>13 DEF IInv

\* A fetch_add on next that finds a pair: nobody else can get the same one.
LEMMA ClaimStep ==
  ASSUME IInv, NEW w \in Workers, Claim(w)
  PROVE  IInv'
<1> USE ThreadsAssumption
<1>1. TypeOK
  BY DEF IInv
<1> DEFINE k == job[w]
           p == jobs[k].next
<1>2. /\ pc[w] = "claim" /\ pc'[w] = "decrypt"
      /\ p < NumPairs(jobs[k].n)
      /\ pair'[w] = p
      /\ \A v \in Workers : v # w => pair'[v] = pair[v]
      /\ \A t \in Threads \ {w} : pc'[t] = pc[t]
      /\ UNCHANGED <<runLock, jobLock, doneLock, poolUp, slot, epoch, shutdown, batch,
                     out, job, seen, myEpoch>>
  <2>1. pc[w] = "claim" /\ ~Exhausted(p, jobs[k].n)
    BY DEF Claim, Goto
  <2>2. /\ k \in JobIds /\ jobs[k] \in Job
    BY <2>1, BusyFacts DEF Working
  <2>3. p \in Nat /\ jobs[k].n \in 0 .. MaxSamples /\ NumPairs(jobs[k].n) \in 0 .. MaxSamples
    BY <2>2, PairsFacts DEF Job
  <2>4. p < NumPairs(jobs[k].n)
    BY <2>1, <2>3, BoundsAssumption DEF Exhausted
  <2> QED
    BY <1>1, <2>1, <2>4
       DEF TypeOK, Claim, Goto, locks, shared, callerVars, Threads
<1>3. /\ k \in 1 .. slot /\ k \in 1 .. epoch /\ k \in JobIds /\ jobs[k] \in Job
      /\ jobs[k].n \in 0 .. MaxSamples /\ p \in Nat
      /\ NumPairs(jobs[k].n) \in 0 .. MaxSamples
  BY <1>2, BusyFacts, PairsFacts DEF Working, Job
<1>4. jobs' = [jobs EXCEPT ![k].next = p + 1]
  BY DEF Claim, NextTicket
<1>5. /\ jobs' \in [JobIds -> Job]
      /\ jobs'[k].next = p + 1
      /\ \A j \in JobIds : j # k => jobs'[j] = jobs[j]
      /\ \A j \in JobIds :
           /\ jobs'[j].owner = jobs[j].owner
           /\ jobs'[j].n = jobs[j].n
           /\ jobs'[j].pending = jobs[j].pending
           /\ jobs'[j].finished = jobs[j].finished
           /\ jobs'[j].released = jobs[j].released
           /\ jobs'[j].visible = jobs[j].visible
  <2> DEFINE r == [jobs[k] EXCEPT !.next = p + 1]
  <2>1. /\ r \in Job /\ r.next = p + 1
        /\ r.owner = jobs[k].owner /\ r.n = jobs[k].n
        /\ r.pending = jobs[k].pending /\ r.finished = jobs[k].finished
        /\ r.released = jobs[k].released /\ r.visible = jobs[k].visible
    BY <1>3 DEF Job
  <2>2. jobs' = [jobs EXCEPT ![k] = r]
    BY <1>4
  <2>3. /\ jobs' \in [JobIds -> Job]
        /\ jobs'[k] = r
        /\ \A j \in JobIds : j # k => jobs'[j] = jobs[j]
    BY <1>1, <1>3, <2>1, <2>2 DEF TypeOK
  <2> QED
    BY <2>1, <2>3
<1>6. \A t \in Callers \cup Workers \cup {Owner} : t # w => pc'[t] = pc[t]
  BY <1>2 DEF Threads
<1>7. \A j \in 1 .. epoch : j \in JobIds
  BY <1>1, BoundsAssumption DEF TypeOK, JobIds
<1>8. \A j \in JobIds : jobs'[j].next >= jobs[j].next /\ jobs[j].next \in Nat
  BY <1>1, <1>3, <1>5 DEF TypeOK, Job
<1>9. TypeOK'
  <2>1. pc' \in [Threads -> CallerLabels \cup WorkerLabels \cup OwnerLabels]
    BY <1>1 DEF TypeOK, Claim, Goto, WorkerLabels
  <2>2. \A v \in Workers : pc'[v] \in WorkerLabels
    BY <1>1, <1>2, <1>6 DEF TypeOK, WorkerLabels
  <2>3. p \in 0 .. MaxSamples
    BY <1>2, <1>3, BoundsAssumption
  <2>4. pair' \in [Workers -> 0 .. MaxSamples \cup {NoPair}]
    BY <1>1, <2>3 DEF TypeOK, Claim
  <2> QED
    BY <1>1, <1>2, <1>5, <1>6, <2>1, <2>2, <2>4 DEF TypeOK
<1>10. /\ CallerInv' /\ SlotInv' /\ SleepInv' /\ NoLostJobWakeup'
       /\ \A c \in Callers : runLock' = c <=> pc'[c] \in InRun
  <2>1. \A j \in 1 .. epoch : j > slot => jobs'[j] = jobs[j]
    BY <1>1, <1>3, <1>5, <1>7 DEF TypeOK
  <2> QED
    BY <1>2, <1>5, <1>7, <2>1, WorkFrame DEF Working
<1>11. LockInv'
  BY <1>2, <1>6, <1>10 DEF IInv, LockInv
<1>12. \A j, q : Written(j, q)' <=> Written(j, q)
  <2>1. \A j : jobs'[j].released = jobs[j].released
    BY <1>1, <1>3, <1>4, <1>5 DEF TypeOK
  <2> QED
    BY <1>2, <1>6, <2>1 DEF Written, Holders
<1>13. OutInv'
  BY <1>2, <1>6, <1>12 DEF IInv, OutInv
<1>14. JobInv'
  BY <1>2, <1>5, <1>7, <1>8 DEF IInv, JobInv, Job, TypeOK
<1>15. SingleJob' /\ EpochNotAhead'
  BY <1>2, <1>5, <1>7 DEF IInv, SingleJob, EpochNotAhead
<1>16. p \in Pairs(jobs[k].n) \ jobs[k].released
  BY <1>2, <1>3, BoundsAssumption DEF IInv, JobInv, Pairs
<1>17. \A v \in Holders(k) : v # w /\ pair[v] # p
  BY <1>2, <1>3 DEF Holders, IInv, WorkerInv, Working
<1>18. \A j : Holders(j)' \subseteq Holders(j) \cup {w}
  BY <1>2, <1>6 DEF Holders
<1>19. WorkerInv'
  <2>1. WorkerInv!(w)'
    <3>1. WorkerInv!(w)
      BY DEF IInv, WorkerInv
    <3>2. \A v \in Holders(job[w])' : pair'[v] = pair'[w] => v = w
      BY <1>2, <1>6, <1>17 DEF Holders
    <3>3. pair'[w] \in Pairs(jobs'[k].n) \ jobs'[k].released
      BY <1>2, <1>3, <1>5, <1>16
    <3>4. pair'[w] < jobs'[k].next
      BY <1>2, <1>3, <1>5
    <3> QED
      BY <1>2, <1>3, <1>5, <3>1, <3>2, <3>3, <3>4 DEF Working
  <2>2. ASSUME NEW v \in Workers \ {w} PROVE WorkerInv!(v)'
    <3>1. WorkerInv!(v)
      BY DEF IInv, WorkerInv
    <3>2. pc[v] \in Working => job[v] \in JobIds
      BY BusyFacts
    <3>3. pc[v] \in {"decrypt", "retire"} =>
            \A u \in Holders(job[v])' : pair'[u] = pair'[v] => u = v
      <4> SUFFICES ASSUME pc[v] \in {"decrypt", "retire"},
                          NEW u \in Holders(job[v])', pair'[u] = pair'[v]
                   PROVE  u = v
        OBVIOUS
      <4>1. CASE u = w
        <5>1. job[v] = k /\ v \in Holders(k)
          BY <1>2, <4>1 DEF Holders
        <5> QED
          BY <1>2, <1>17, <4>1, <5>1
      <4>2. CASE u # w
        BY <1>2, <1>18, <3>1, <4>2 DEF Holders
      <4> QED
        BY <4>1, <4>2
    <3>4. pc[v] \in Working => jobs'[job[v]].next >= jobs[job[v]].next /\ jobs[job[v]].next \in Nat
      BY <1>8, <3>2
    <3>5. pc[v] \in {"decrypt", "retire"} => pair[v] < jobs'[job[v]].next
      BY <1>1, <3>1, <3>2, <3>4, <1>5, BoundsAssumption DEF TypeOK, Working, Job, Pairs
    <3> QED
      BY <1>2, <1>5, <1>6, <3>1, <3>2, <3>3, <3>5 DEF Working
  <2> QED
    BY <2>1, <2>2 DEF WorkerInv
<1> QED
  BY <1>9, <1>10, <1>11, <1>13, <1>14, <1>15, <1>19 DEF IInv

\* A fetch_add on next that finds no pair left.
LEMMA LeaveStep ==
  ASSUME IInv, NEW w \in Workers, Leave(w)
  PROVE  IInv'
<1> USE ThreadsAssumption
<1>1. TypeOK
  BY DEF IInv
<1> DEFINE k == job[w]
           p == jobs[k].next
<1>2. /\ pc[w] = "claim" /\ pc'[w] = "lock"
      /\ job'[w] = NoJob /\ seen'[w] = {}
      /\ \A t \in Callers \cup Workers : t # w => job'[t] = job[t]
      /\ \A v \in Workers : v # w => seen'[v] = seen[v]
      /\ \A t \in Threads \ {w} : pc'[t] = pc[t]
      /\ UNCHANGED <<runLock, jobLock, doneLock, poolUp, slot, epoch, shutdown, batch,
                     out, pair, myEpoch>>
  BY <1>1 DEF TypeOK, Leave, Goto, locks, shared, callerVars, Threads
<1>3. /\ k \in 1 .. slot /\ k \in 1 .. epoch /\ k \in JobIds /\ jobs[k] \in Job
      /\ p \in Nat
  BY <1>2, BusyFacts DEF Working, Job
<1>4. jobs' = [jobs EXCEPT ![k].next = p + 1]
  BY DEF Leave, NextTicket
<1>5. /\ jobs' \in [JobIds -> Job]
      /\ jobs'[k].next = p + 1
      /\ \A j \in JobIds : j # k => jobs'[j] = jobs[j]
      /\ \A j \in JobIds :
           /\ jobs'[j].owner = jobs[j].owner
           /\ jobs'[j].n = jobs[j].n
           /\ jobs'[j].pending = jobs[j].pending
           /\ jobs'[j].finished = jobs[j].finished
           /\ jobs'[j].released = jobs[j].released
           /\ jobs'[j].visible = jobs[j].visible
  <2> DEFINE r == [jobs[k] EXCEPT !.next = p + 1]
  <2>1. /\ r \in Job /\ r.next = p + 1
        /\ r.owner = jobs[k].owner /\ r.n = jobs[k].n
        /\ r.pending = jobs[k].pending /\ r.finished = jobs[k].finished
        /\ r.released = jobs[k].released /\ r.visible = jobs[k].visible
    BY <1>3 DEF Job
  <2>2. jobs' = [jobs EXCEPT ![k] = r]
    BY <1>4
  <2>3. /\ jobs' \in [JobIds -> Job]
        /\ jobs'[k] = r
        /\ \A j \in JobIds : j # k => jobs'[j] = jobs[j]
    BY <1>1, <1>3, <2>1, <2>2 DEF TypeOK
  <2> QED
    BY <2>1, <2>3
<1>6. \A t \in Callers \cup Workers \cup {Owner} : t # w => pc'[t] = pc[t]
  BY <1>2 DEF Threads
<1>7. \A j \in 1 .. epoch : j \in JobIds
  BY <1>1, BoundsAssumption DEF TypeOK, JobIds
<1>8. \A j \in JobIds :
        jobs'[j].next >= jobs[j].next /\ jobs[j].next \in Nat /\ jobs'[j].next \in Nat
  BY <1>1, <1>3, <1>5 DEF TypeOK, Job
<1>9. TypeOK'
  <2>1. pc' \in [Threads -> CallerLabels \cup WorkerLabels \cup OwnerLabels]
    BY <1>1 DEF TypeOK, Leave, Goto, WorkerLabels
  <2>2. \A v \in Workers : pc'[v] \in WorkerLabels
    BY <1>1, <1>2, <1>6 DEF TypeOK, WorkerLabels
  <2>3. job' \in [Callers \cup Workers -> 0 .. MaxCalls]
    BY <1>1, BoundsAssumption DEF TypeOK, Leave, NoJob
  <2>4. seen' \in [Workers -> SUBSET (0 .. MaxSamples)]
    BY <1>1 DEF TypeOK, Leave
  <2> QED
    BY <1>1, <1>2, <1>5, <1>6, <2>1, <2>2, <2>3, <2>4 DEF TypeOK
<1>10. /\ CallerInv' /\ SlotInv' /\ SleepInv' /\ NoLostJobWakeup'
       /\ \A c \in Callers : runLock' = c <=> pc'[c] \in InRun
  <2>1. \A j \in 1 .. epoch : j > slot => jobs'[j] = jobs[j]
    BY <1>1, <1>3, <1>5, <1>7 DEF TypeOK
  <2> QED
    BY <1>2, <1>5, <1>7, <2>1, WorkFrame DEF Working
<1>11. LockInv'
  BY <1>2, <1>6, <1>10 DEF IInv, LockInv
<1>12. \A j : Holders(j)' = Holders(j)
  BY <1>2, <1>6 DEF Holders
<1>13. \A j, q : Written(j, q)' <=> Written(j, q)
  <2>1. \A j : jobs'[j].released = jobs[j].released
    BY <1>1, <1>3, <1>4, <1>5 DEF TypeOK
  <2> QED
    BY <1>2, <1>6, <2>1 DEF Written, Holders
<1>14. OutInv'
  BY <1>2, <1>6, <1>13 DEF IInv, OutInv
<1>15. JobInv'
  BY <1>2, <1>5, <1>7, <1>8 DEF IInv, JobInv, Job, TypeOK
<1>16. SingleJob' /\ EpochNotAhead'
  BY <1>2, <1>5, <1>7 DEF IInv, SingleJob, EpochNotAhead
<1>17. WorkerInv'
  <2>1. WorkerInv!(w)'
    BY <1>2 DEF Working
  <2>2. ASSUME NEW v \in Workers \ {w} PROVE WorkerInv!(v)'
    <3>1. WorkerInv!(v)
      BY DEF IInv, WorkerInv
    <3>2. pc[v] \in Working => job[v] \in JobIds
      BY BusyFacts
    <3>3. pc[v] \in {"decrypt", "retire"} => pair[v] < jobs'[job[v]].next
      BY <1>8, <3>1, <3>2, BoundsAssumption DEF Working, Pairs
    <3>4. pc[v] = "finish" =>
            \A u \in Workers : pc'[u] = "finish" /\ job'[u] = job'[v] => u = v
      BY <1>2, <1>6, <3>1
    <3> QED
      BY <1>2, <1>5, <1>6, <1>12, <3>1, <3>2, <3>3, <3>4 DEF Working
  <2> QED
    BY <2>1, <2>2 DEF WorkerInv
<1> QED
  BY <1>9, <1>10, <1>11, <1>14, <1>15, <1>16, <1>17 DEF IInv

\* The pointers of a job are followed: its caller is in run(), and the samples
\* of the pair were not in the buffer.
LEMMA DecryptStep ==
  ASSUME IInv, NEW w \in Workers, Decrypt(w)
  PROVE  IInv'
<1> USE ThreadsAssumption
<1>1. TypeOK
  BY DEF IInv
<1> DEFINE c == jobs[epoch].owner
           q == pair[w]
<1>2. pc[w] = "decrypt" /\ pc'[w] = "retire"
  BY <1>1 DEF Decrypt, Goto, TypeOK, Threads
<1>3. /\ job[w] = epoch /\ epoch \in 1 .. epoch
      /\ c \in Callers /\ pc[c] \in InRun /\ runLock = c
  BY <1>2, BusyFacts DEF Working
<1>4. /\ batch[c] = jobs[epoch].n
      /\ \A d \in Callers : pc[d] \in InRun => d = c
      /\ q \in Pairs(batch[c])
      /\ \A v \in Holders(epoch) : pair[v] = q => v = w
  BY <1>2, <1>3 DEF IInv, CallerInv, LockInv, WorkerInv
<1>5. /\ seen'[w] = seen[w] \cup {q}
      /\ \A v \in Workers : v # w => seen'[v] = seen[v]
      /\ out'[c] = out[c] \cup SamplesOf(q, batch[c])
      /\ \A d \in Callers : d # c => out'[d] = out[d]
      /\ \A t \in Threads \ {w} : pc'[t] = pc[t]
      /\ UNCHANGED <<runLock, jobLock, doneLock, poolUp, slot, epoch, shutdown, batch,
                     jobs, job, pair, myEpoch>>
  BY <1>1, <1>2, <1>3, <1>4 DEF TypeOK, Decrypt, Goto, locks, shared, Threads
<1>6. \A t \in Callers \cup Workers \cup {Owner} : t # w => pc'[t] = pc[t]
  BY <1>5 DEF Threads
<1>7. TypeOK'
  <2>1. pc' \in [Threads -> CallerLabels \cup WorkerLabels \cup OwnerLabels]
    BY <1>1 DEF TypeOK, Decrypt, Goto, WorkerLabels
  <2>2. \A v \in Workers : pc'[v] \in WorkerLabels
    BY <1>1, <1>2, <1>6 DEF TypeOK, WorkerLabels
  <2>3. out' \in [Callers -> SUBSET (0 .. MaxSamples)]
    BY <1>1 DEF TypeOK, Decrypt, SamplesOf, Samples
  <2>4. q \in 0 .. MaxSamples
    BY <1>4 DEF Pairs
  <2>5. seen' \in [Workers -> SUBSET (0 .. MaxSamples)]
    BY <1>1, <2>4 DEF TypeOK, Decrypt
  <2> QED
    BY <1>1, <1>2, <1>5, <1>6, <2>1, <2>2, <2>3, <2>5 DEF TypeOK
<1>8. /\ CallerInv' /\ SlotInv' /\ SleepInv' /\ NoLostJobWakeup'
      /\ \A d \in Callers : runLock' = d <=> pc'[d] \in InRun
  BY <1>2, <1>3, <1>5, WorkFrame DEF Working
<1>9. LockInv'
  BY <1>2, <1>5, <1>6, <1>8 DEF IInv, LockInv
<1>10. \A j : Holders(j)' = Holders(j)
  BY <1>2, <1>5, <1>6 DEF Holders
<1>11. \A p : Written(epoch, p)' <=> Written(epoch, p) \/ p = q
  <2>1. w \in Holders(epoch)' /\ pc'[w] = "retire" /\ pair'[w] = q
    BY <1>2, <1>3, <1>5 DEF Holders
  <2>2. \A v \in Workers : v # w => pc'[v] = pc[v] /\ pair'[v] = pair[v] /\ job'[v] = job[v]
    BY <1>5, <1>6
  <2> QED
    BY <1>2, <1>3, <1>5, <1>10, <2>1, <2>2 DEF Written, Holders
<1>12. OutInv'
  <2> SUFFICES ASSUME NEW d \in Callers, pc'[d] \in InRun, NEW s \in 0 .. MaxSamples
               PROVE  s \in out'[d] <=>
                        \E p \in Pairs(batch'[d]) :
                          Written(epoch, p)' /\ s \in SamplesOf(p, batch'[d])
    BY DEF OutInv
  <2>1. d = c
    BY <1>4, <1>6
  <2>2. s \in out[c] <=>
          \E p \in Pairs(batch[c]) : Written(epoch, p) /\ s \in SamplesOf(p, batch[c])
    BY <1>3 DEF IInv, OutInv
  <2> QED
    BY <1>4, <1>5, <1>11, <2>1, <2>2
<1>13. JobInv' /\ SingleJob' /\ EpochNotAhead'
  BY <1>5 DEF IInv, JobInv, SingleJob, EpochNotAhead
<1>14. WorkerInv'
  <2>1. WorkerInv!(w)'
    BY <1>2, <1>3, <1>5, <1>10 DEF IInv, WorkerInv, Working
  <2>2. ASSUME NEW v \in Workers \ {w} PROVE WorkerInv!(v)'
    <3>1. pc[v] = "finish" =>
            \A u \in Workers : pc'[u] = "finish" /\ job'[u] = job'[v] => u = v
      BY <1>2, <1>5, <1>6 DEF IInv, WorkerInv
    <3> QED
      BY <1>2, <1>5, <1>6, <1>10, <3>1 DEF IInv, WorkerInv
  <2> QED
    BY <2>1, <2>2 DEF WorkerInv
<1> QED
  BY <1>7, <1>8, <1>9, <1>12, <1>13, <1>14 DEF IInv

\* A pair is counted off.  It was not retired before, so the count goes down to
\* the number of pairs that are left, and to zero only with the last one.
LEMMA RetireStep ==
  ASSUME IInv, NEW w \in Workers, Retire(w)
  PROVE  IInv'
<1> USE ThreadsAssumption
<1>1. TypeOK
  BY DEF IInv
<1> DEFINE j == jobs[epoch]
           q == pair[w]
           c == j.owner
<1>2. pc[w] = "retire"
  BY DEF Retire, Goto
<1>3. /\ job[w] = epoch /\ epoch \in 1 .. slot /\ epoch \in 1 .. epoch
      /\ epoch \in JobIds /\ j \in Job /\ ~j.finished
      /\ c \in Callers /\ pc[c] \in InRun /\ runLock = c
  BY <1>2, BusyFacts DEF Working
<1>4. /\ j.released \subseteq Pairs(j.n)
      /\ \A p \in j.released : p < j.next
      /\ j.pending + Cardinality(j.released) = NumPairs(j.n)
      /\ j.n \in 0 .. MaxSamples /\ j.n >= 2
      /\ j.pending \in 0 .. MaxSamples /\ j.next \in Nat
  BY <1>3 DEF IInv, JobInv, Job
<1>5. /\ q \in Pairs(j.n) \ j.released
      /\ q < j.next
      /\ \A v \in Holders(epoch) : pair[v] = q => v = w
      /\ seen[w] \subseteq j.released \cup {q}
      /\ q \in seen[w]
  BY <1>2, <1>3 DEF IInv, WorkerInv
<1>6. j.released \cup seen[w] = j.released \cup {q}
  BY <1>5
<1>7. /\ IsFiniteSet(j.released)
      /\ Cardinality(j.released) \in Nat
      /\ Cardinality(j.released \cup {q}) = Cardinality(j.released) + 1
      /\ Cardinality(j.released) + 1 <= NumPairs(j.n)
      /\ Cardinality(j.released) + 1 = NumPairs(j.n) => j.released \cup {q} = Pairs(j.n)
  <2>1. IsFiniteSet(Pairs(j.n)) /\ Cardinality(Pairs(j.n)) = NumPairs(j.n)
    BY <1>4, PairsFacts
  <2>2. IsFiniteSet(j.released)
    BY <1>4, <2>1, FS_Subset
  <2>3. Cardinality(j.released \cup {q}) = Cardinality(j.released) + 1
    BY <1>5, <2>2, FS_AddElement
  <2>4. j.released \cup {q} \in SUBSET Pairs(j.n)
    BY <1>4, <1>5
  <2>5. /\ Cardinality(j.released \cup {q}) <= Cardinality(Pairs(j.n))
        /\ Cardinality(Pairs(j.n)) = Cardinality(j.released \cup {q}) =>
             Pairs(j.n) = j.released \cup {q}
    BY <2>1, <2>4, FS_Subset
  <2> QED
    BY <2>1, <2>2, <2>3, <2>5, FS_CardinalityType
<1>8. j.pending >= 1 /\ (j.pending = 1 => j.released \cup {q} = Pairs(j.n))
  BY <1>4, <1>7, PairsFacts, BoundsAssumption
<1>9. /\ pc'[w] = IF j.pending = 1 THEN "finish" ELSE "claim"
      /\ pair'[w] = NoPair
      /\ seen'[w] = j.released \cup {q}
      /\ \A v \in Workers : v # w => seen'[v] = seen[v] /\ pair'[v] = pair[v]
      /\ \A t \in Threads \ {w} : pc'[t] = pc[t]
      /\ UNCHANGED <<runLock, jobLock, doneLock, poolUp, slot, epoch, shutdown, batch,
                     out, job, myEpoch>>
  <2>1. seen[w] \cup j.released = j.released \cup {q}
    BY <1>6
  <2> QED
    BY <1>1, <1>3, <2>1
       DEF TypeOK, Retire, IsLast, Acquired, Goto, locks, shared, callerVars, Threads
<1>10. jobs' = [jobs EXCEPT ![epoch].pending = @ - 1, ![epoch].released = @ \cup {q}]
  BY <1>1, <1>3, <1>6 DEF Retire, TypeOK
<1>11. /\ jobs' \in [JobIds -> Job]
       /\ jobs'[epoch].pending = j.pending - 1
       /\ jobs'[epoch].released = j.released \cup {q}
       /\ \A i \in JobIds : i # epoch => jobs'[i] = jobs[i]
       /\ \A i \in JobIds :
            /\ jobs'[i].owner = jobs[i].owner
            /\ jobs'[i].n = jobs[i].n
            /\ jobs'[i].next = jobs[i].next
            /\ jobs'[i].finished = jobs[i].finished
            /\ jobs'[i].visible = jobs[i].visible
  <2> DEFINE r == [j EXCEPT !.pending = @ - 1, !.released = @ \cup {q}]
  <2>1. j.pending - 1 \in 0 .. MaxSamples /\ q \in 0 .. MaxSamples
    BY <1>4, <1>5, <1>8, BoundsAssumption DEF Pairs
  <2>2. /\ r \in Job /\ r.next = j.next
        /\ r.owner = j.owner /\ r.n = j.n
        /\ r.pending = j.pending - 1 /\ r.finished = j.finished
        /\ r.released = j.released \cup {q} /\ r.visible = j.visible
    BY <1>3, <2>1 DEF Job
  <2>3. jobs' = [jobs EXCEPT ![epoch] = r]
    BY <1>1, <1>3, <1>10 DEF TypeOK
  <2>4. /\ jobs' \in [JobIds -> Job]
        /\ jobs'[epoch] = r
        /\ \A i \in JobIds : i # epoch => jobs'[i] = jobs[i]
    BY <1>1, <1>3, <2>2, <2>3 DEF TypeOK
  <2> QED
    BY <2>2, <2>4
<1>12. \A t \in Callers \cup Workers \cup {Owner} : t # w => pc'[t] = pc[t]
  BY <1>9 DEF Threads
<1>13. \A i \in 1 .. epoch : i \in JobIds
  BY <1>1, BoundsAssumption DEF TypeOK, JobIds
<1>14. TypeOK'
  <2>1. pc' \in [Threads -> CallerLabels \cup WorkerLabels \cup OwnerLabels]
    BY <1>1 DEF TypeOK, Retire, Goto, WorkerLabels
  <2>2. \A v \in Workers : pc'[v] \in WorkerLabels
    BY <1>1, <1>9, <1>12 DEF TypeOK, WorkerLabels
  <2>3. j.released \cup {q} \in SUBSET (0 .. MaxSamples)
    BY <1>4, <1>5 DEF Pairs
  <2>4. seen' \in [Workers -> SUBSET (0 .. MaxSamples)]
    <3>1. DOMAIN seen' = Workers /\ seen' = [v \in Workers |-> seen'[v]]
      BY <1>1 DEF TypeOK, Retire
    <3> QED
      BY <1>1, <1>9, <2>3, <3>1 DEF TypeOK
  <2>5. pair' \in [Workers -> 0 .. MaxSamples \cup {NoPair}]
    BY <1>1 DEF TypeOK, Retire
  <2> QED
    BY <1>1, <1>9, <1>11, <1>12, <2>1, <2>2, <2>4, <2>5 DEF TypeOK
<1>15. /\ CallerInv' /\ SlotInv' /\ SleepInv' /\ NoLostJobWakeup'
       /\ \A d \in Callers : runLock' = d <=> pc'[d] \in InRun
  <2>1. \A i \in 1 .. epoch : i > slot => jobs'[i] = jobs[i]
    BY <1>1, <1>3, <1>11, <1>13 DEF TypeOK
  <2>2. pc'[w] \in Working
    BY <1>9 DEF Working
  <2> QED
    BY <1>9, <1>11, <1>13, <2>1, <2>2, WorkFrame
<1>16. LockInv'
  BY <1>2, <1>9, <1>12, <1>15 DEF IInv, LockInv
<1>17. w \notin Holders(epoch)' /\ \A i : Holders(i)' = Holders(i) \ {w}
  BY <1>2, <1>9, <1>12 DEF Holders
<1>18. \A p : Written(epoch, p)' <=> Written(epoch, p)
  <2>1. ASSUME NEW p, Written(epoch, p)' PROVE Written(epoch, p)
    BY <1>2, <1>3, <1>9, <1>11, <1>12, <2>1 DEF Written, Holders
  <2>2. ASSUME NEW p, Written(epoch, p) PROVE Written(epoch, p)'
    BY <1>2, <1>3, <1>9, <1>11, <1>12, <2>2 DEF Written, Holders
  <2> QED
    BY <2>1, <2>2
<1>19. OutInv'
  BY <1>9, <1>12, <1>18 DEF IInv, OutInv
<1>20. JobInv'
  <2>1. ASSUME NEW i \in 1 .. epoch, i # epoch PROVE JobInv!(i)'
    BY <1>11, <1>13, <2>1 DEF IInv, JobInv
  <2>2. JobInv!(epoch)'
    BY <1>3, <1>4, <1>5, <1>7, <1>9, <1>11, PairsFacts, BoundsAssumption
  <2> QED
    BY <1>9, <2>1, <2>2 DEF JobInv
<1>21. SingleJob' /\ EpochNotAhead'
  BY <1>9, <1>11, <1>13 DEF IInv, SingleJob, EpochNotAhead
<1>22. WorkerInv'
  <2>1. WorkerInv!(w)'
    <3>1. \A v \in Workers : v # w => ~(pc'[v] = "finish" /\ job'[v] = epoch)
      BY <1>3, <1>5, <1>9, <1>12 DEF IInv, WorkerInv
    <3>2. CASE j.pending = 1
      BY <1>3, <1>8, <1>9, <1>11, <3>1, <3>2 DEF Working
    <3>3. CASE j.pending # 1
      BY <1>3, <1>9, <1>11, <3>3 DEF Working
    <3> QED
      BY <3>2, <3>3
  <2>2. ASSUME NEW v \in Workers \ {w} PROVE WorkerInv!(v)'
    <3>1. WorkerInv!(v)
      BY DEF IInv, WorkerInv
    <3>2. pc[v] \in Working => job[v] \in JobIds
      BY BusyFacts
    <3>3. \A i \in JobIds : jobs[i].released \subseteq jobs'[i].released
      BY <1>11
    <3>4. pc[v] \in {"decrypt", "retire"} => pair[v] \notin jobs'[job[v]].released
      BY <1>5, <1>11, <3>1, <3>2 DEF Holders, Working
    <3>5. pc[v] = "finish" => job[v] # epoch
      BY <1>5, <3>1
    <3>6. pc[v] = "finish" =>
            \A u \in Workers : pc'[u] = "finish" /\ job'[u] = job'[v] => u = v
      BY <1>3, <1>9, <1>12, <3>1, <3>5
    <3>7. \A u \in Holders(job[v])' : pair'[u] = pair[u] /\ u \in Holders(job[v])
      BY <1>2, <1>9, <1>12 DEF Holders
    <3> QED
      BY <1>9, <1>11, <1>12, <1>17, <3>1, <3>2, <3>3, <3>4, <3>5, <3>6, <3>7 DEF Working
  <2> QED
    BY <2>1, <2>2 DEF WorkerInv
<1> QED
  BY <1>14, <1>15, <1>16, <1>19, <1>20, <1>21, <1>22 DEF IInv

\* The flag that lets the caller go: everything is retired, and the worker that
\* sets it has seen it all.
LEMMA FinishStep ==
  ASSUME IInv, NEW w \in Workers, Finish(w)
  PROVE  IInv'
<1> USE ThreadsAssumption
<1>1. TypeOK
  BY DEF IInv
<1> DEFINE j == jobs[epoch]
<1>2. pc[w] = "finish" /\ pc'[w] = "notify"
  BY <1>1 DEF Finish, Goto, TypeOK, Threads
<1>3. /\ job[w] = epoch /\ epoch \in 1 .. slot /\ epoch \in 1 .. epoch
      /\ epoch \in JobIds /\ j \in Job /\ ~j.finished
  BY <1>2, BusyFacts DEF Working
<1>4. /\ j.released = Pairs(j.n) /\ seen[w] = Pairs(j.n)
      /\ \A v \in Workers : pc[v] = "finish" /\ job[v] = epoch => v = w
  BY <1>2, <1>3 DEF IInv, WorkerInv
<1>5. /\ \A t \in Threads \ {w} : pc'[t] = pc[t]
      /\ UNCHANGED <<runLock, jobLock, doneLock, poolUp, slot, epoch, shutdown, batch,
                     out, job, pair, seen, myEpoch>>
  BY <1>1 DEF TypeOK, Finish, Goto, locks, shared, callerVars, workerVars, Threads
<1>6. jobs' = [jobs EXCEPT ![epoch].finished = TRUE, ![epoch].visible = Pairs(j.n)]
  BY <1>1, <1>3, <1>4 DEF Finish, TypeOK
<1>7. /\ jobs' \in [JobIds -> Job]
      /\ jobs'[epoch].finished /\ jobs'[epoch].visible = Pairs(j.n)
      /\ \A i \in JobIds : i # epoch => jobs'[i] = jobs[i]
      /\ \A i \in JobIds :
           /\ jobs'[i].owner = jobs[i].owner
           /\ jobs'[i].n = jobs[i].n
           /\ jobs'[i].next = jobs[i].next
           /\ jobs'[i].pending = jobs[i].pending
           /\ jobs'[i].released = jobs[i].released
  <2> DEFINE r == [j EXCEPT !.finished = TRUE, !.visible = Pairs(j.n)]
  <2>1. /\ r \in Job /\ r.next = j.next
        /\ r.owner = j.owner /\ r.n = j.n
        /\ r.pending = j.pending /\ r.finished
        /\ r.released = j.released /\ r.visible = Pairs(j.n)
    BY <1>3 DEF Job, Pairs
  <2>2. jobs' = [jobs EXCEPT ![epoch] = r]
    BY <1>1, <1>3, <1>6 DEF TypeOK
  <2>3. /\ jobs' \in [JobIds -> Job]
        /\ jobs'[epoch] = r
        /\ \A i \in JobIds : i # epoch => jobs'[i] = jobs[i]
    BY <1>1, <1>3, <2>1, <2>2 DEF TypeOK
  <2> QED
    BY <2>1, <2>3
<1>8. \A t \in Callers \cup Workers \cup {Owner} : t # w => pc'[t] = pc[t]
  BY <1>5 DEF Threads
<1>9. \A i \in 1 .. epoch : i \in JobIds
  BY <1>1, BoundsAssumption DEF TypeOK, JobIds
<1>10. TypeOK'
  <2>1. pc' \in [Threads -> CallerLabels \cup WorkerLabels \cup OwnerLabels]
    BY <1>1 DEF TypeOK, Finish, Goto, WorkerLabels
  <2>2. \A v \in Workers : pc'[v] \in WorkerLabels
    BY <1>1, <1>2, <1>8 DEF TypeOK, WorkerLabels
  <2> QED
    BY <1>1, <1>5, <1>7, <1>8, <2>1, <2>2 DEF TypeOK
<1>11. /\ CallerInv' /\ SlotInv' /\ SleepInv' /\ NoLostJobWakeup'
       /\ \A d \in Callers : runLock' = d <=> pc'[d] \in InRun
  <2>1. \A i \in 1 .. epoch : i > slot => jobs'[i] = jobs[i]
    BY <1>1, <1>3, <1>7, <1>9 DEF TypeOK
  <2>2. \A i \in 1 .. epoch : jobs[i].finished => jobs'[i].finished
    BY <1>3, <1>7, <1>9
  <2> QED
    BY <1>2, <1>5, <1>7, <1>9, <2>1, <2>2, WorkFrame DEF Working
<1>12. LockInv'
  BY <1>2, <1>5, <1>8, <1>11 DEF IInv, LockInv
<1>13. \A i : Holders(i)' = Holders(i)
  BY <1>2, <1>5, <1>8 DEF Holders
<1>14. \A p : Written(epoch, p)' <=> Written(epoch, p)
  BY <1>2, <1>3, <1>5, <1>7, <1>8 DEF Written, Holders
<1>15. OutInv'
  BY <1>5, <1>8, <1>14 DEF IInv, OutInv
<1>16. JobInv'
  <2>1. ASSUME NEW i \in 1 .. epoch, i # epoch PROVE JobInv!(i)'
    BY <1>7, <1>9, <2>1 DEF IInv, JobInv
  <2>2. JobInv!(epoch)'
    BY <1>3, <1>4, <1>5, <1>7 DEF IInv, JobInv
  <2> QED
    BY <1>5, <2>1, <2>2 DEF JobInv
<1>17. SingleJob' /\ EpochNotAhead'
  BY <1>5, <1>7, <1>9 DEF IInv, SingleJob, EpochNotAhead
<1>18. WorkerInv'
  <2>1. WorkerInv!(w)'
    BY <1>2, <1>3, <1>4, <1>5, <1>7 DEF Working
  <2>2. ASSUME NEW v \in Workers \ {w} PROVE WorkerInv!(v)'
    <3>1. WorkerInv!(v)
      BY DEF IInv, WorkerInv
    <3>2. pc[v] \in Working => job[v] \in JobIds
      BY BusyFacts
    <3>3. pc[v] = "finish" => job[v] # epoch
      BY <1>4
    <3>4. pc[v] = "finish" =>
            \A u \in Workers : pc'[u] = "finish" /\ job'[u] = job'[v] => u = v
      BY <1>2, <1>5, <1>8, <3>1
    <3> QED
      BY <1>5, <1>7, <1>8, <1>13, <3>1, <3>2, <3>3, <3>4 DEF Working
  <2> QED
    BY <2>1, <2>2 DEF WorkerInv
<1> QED
  BY <1>10, <1>11, <1>12, <1>15, <1>16, <1>17, <1>18 DEF IInv

\* The invariant holds before the pool exists.
LEMMA InitInvariant == Init => IInv
<1> SUFFICES ASSUME Init PROVE IInv
  OBVIOUS
<1> USE ThreadsAssumption, BoundsAssumption DEF Init, Threads
<1>1. TypeOK
  <2>1. Unused \in Job
    BY DEF Unused, Job
  <2>2. jobs \in [JobIds -> Job]
    BY <2>1
  <2>3. /\ pc \in [Threads -> CallerLabels \cup WorkerLabels \cup OwnerLabels]
        /\ \A c \in Callers : pc[c] \in CallerLabels
        /\ \A w \in Workers : pc[w] \in WorkerLabels
        /\ pc[Owner] \in OwnerLabels
    BY DEF CallerLabels, WorkerLabels, OwnerLabels
  <2>4. /\ batch \in [Callers -> 0 .. MaxSamples]
        /\ out \in [Callers -> SUBSET (0 .. MaxSamples)]
        /\ job \in [Callers \cup Workers -> 0 .. MaxCalls]
        /\ pair \in [Workers -> 0 .. MaxSamples \cup {NoPair}]
        /\ seen \in [Workers -> SUBSET (0 .. MaxSamples)]
        /\ myEpoch \in [Workers -> 0 .. MaxCalls]
    BY DEF NoJob
  <2>5. slot \in 0 .. MaxCalls /\ epoch \in 0 .. MaxCalls
    BY DEF NoJob
  <2> QED
    BY <2>2, <2>3, <2>4, <2>5 DEF TypeOK
<1>2. LockInv /\ CallerInv /\ OutInv /\ SlotInv
  BY DEF LockInv, CallerInv, OutInv, SlotInv, InRun, NoJob
<1>3. JobInv /\ SingleJob
  BY DEF JobInv, SingleJob
<1>4. WorkerInv /\ SleepInv /\ EpochNotAhead /\ NoLostJobWakeup
  BY DEF WorkerInv, SleepInv, EpochNotAhead, NoLostJobWakeup, Working, NoJob
<1> QED
  BY <1>1, <1>2, <1>3, <1>4 DEF IInv

\* A step that changes nothing keeps the invariant.
LEMMA StutterInvariant == IInv /\ UNCHANGED vars => IInv'
<1> SUFFICES ASSUME IInv, UNCHANGED vars PROVE IInv'
  OBVIOUS
<1> USE DEF vars
<1>1. /\ TypeOK' /\ LockInv' /\ CallerInv' /\ SlotInv' /\ JobInv'
      /\ SleepInv' /\ SingleJob' /\ EpochNotAhead' /\ NoLostJobWakeup'
  BY DEF IInv, TypeOK, LockInv, CallerInv, SlotInv, JobInv, SleepInv, SingleJob,
         EpochNotAhead, NoLostJobWakeup
<1>2. \A j : Holders(j)' = Holders(j)
  BY DEF Holders
<1>3. \A j, p : Written(j, p)' <=> Written(j, p)
  BY <1>2 DEF Written, Holders
<1>4. OutInv'
  BY <1>3 DEF IInv, OutInv
<1>5. WorkerInv'
  BY <1>2 DEF IInv, WorkerInv
<1> QED
  BY <1>1, <1>4, <1>5 DEF IInv

\* Every step keeps the invariant: the lemmas above, put together.
LEMMA NextInvariant == IInv /\ [Next]_vars => IInv'
<1> SUFFICES ASSUME IInv, [Next]_vars PROVE IInv'
  OBVIOUS
<1>1. ASSUME NEW c \in Callers,
             (\E n \in 0 .. MaxSamples : Call(c, n)) \/ Inline(c) \/ Return(c)
      PROVE  IInv'
  BY <1>1, OutsideMoves
<1>2. ASSUME NEW c \in Callers,
             \/ GetPool(c) \/ NotifyJob(c) \/ LockDone(c) \/ TestFinished(c)
             \/ TestUnfinished(c) \/ WaitDone(c) \/ SpuriousDone(c)
      PROVE  IInv'
  BY <1>2, CallerMoves
<1>3. ASSUME NEW c \in Callers, LockRun(c) \/ Publish(c) \/ Unlock(c)
      PROVE  IInv'
  BY <1>3, LockRunStep, PublishStep, UnlockStep
<1>4. ASSUME NEW w \in Workers,
             \/ Lock(w) \/ NothingNew(w) \/ Sleep(w) \/ Exit(w)
             \/ NotifyDone(w) \/ SpuriousJob(w)
      PROVE  IInv'
  BY <1>4, WorkerMoves
<1>5. ASSUME NEW w \in Workers, TakeJob(w) \/ Claim(w) \/ Leave(w) \/ Decrypt(w)
      PROVE  IInv'
  BY <1>5, TakeJobStep, ClaimStep, LeaveStep, DecryptStep
<1>6. ASSUME NEW w \in Workers, Retire(w) \/ Finish(w)
      PROVE  IInv'
  BY <1>6, RetireStep, FinishStep
<1>7. CASE OwnerStep
  BY <1>7, StoreShutdownStep, WorkerMoves DEF OwnerStep
<1>8. CASE UNCHANGED vars
  BY <1>8, StutterInvariant
<1> QED
  BY <1>1, <1>2, <1>3, <1>4, <1>5, <1>6, <1>7, <1>8
     DEF Next, CallerStep, WorkerStep

\* The inductive invariant holds in every behaviour of the pool.
THEOREM Invariance == Spec => []IInv
<1> QED
  BY InitInvariant, NextInvariant, PTL DEF Spec

\* Every variable has its type, for any number of callers, workers and calls.
THEOREM TypeCorrect == Spec => []TypeOK
<1>1. IInv => TypeOK
  BY DEF IInv
<1> QED
  BY <1>1, Invariance, PTL

\* A worker dereferences the pointers of a job only while the caller they point
\* into is inside run(): the SAFETY comment of Job (pool.rs:40).
THEOREM PointersAreLive == Spec => []BorrowsLive
<1>1. IInv => BorrowsLive
  <2> SUFFICES ASSUME IInv, NEW w \in Workers, pc[w] = "decrypt"
               PROVE  LET c == jobs[job[w]].owner IN
                      /\ c \in Callers
                      /\ pc[c] \in InRun \ {"publish", "unlock"}
                      /\ job[c] = job[w]
    BY DEF BorrowsLive
  <2> DEFINE c == jobs[epoch].owner
  <2>1. TypeOK
    BY DEF IInv
  <2>2. /\ job[w] = epoch /\ epoch \in 1 .. slot
        /\ c \in Callers /\ pc[c] \in InRun /\ ~jobs[epoch].finished
    BY BusyFacts DEF Working
  <2>3. pc[c] # "publish"
    BY <2>1, <2>2 DEF IInv, SlotInv, TypeOK
  <2>4. pc[c] # "unlock" /\ job[c] = epoch
    BY <2>2 DEF IInv, CallerInv
  <2> QED
    BY <2>2, <2>3, <2>4
<1> QED
  BY <1>1, Invariance, PTL

\* A caller that stops waiting has the whole of its plaintext, written by all
\* the workers, ordered before its next read.
THEOREM ResultsAreComplete == Spec => []ReturnComplete
<1>1. IInv => ReturnComplete
  <2> SUFFICES ASSUME IInv, NEW c \in Callers
               PROVE  /\ pc[c] \in {"unlock", "return"} => out[c] = Samples(batch[c])
                      /\ pc[c] = "unlock" => jobs[job[c]].visible = Pairs(batch[c])
    BY DEF ReturnComplete
  <2>1. CASE pc[c] = "unlock"
    <3>1. pc[c] \in InRun /\ jobs[epoch].finished /\ job[c] = epoch
      BY <2>1 DEF InRun, IInv, CallerInv
    <3>2. epoch \in 1 .. epoch /\ jobs[epoch].n = batch[c]
      BY <3>1 DEF IInv, CallerInv, TypeOK
    <3>3. jobs[epoch].visible = Pairs(batch[c])
      BY <3>1, <3>2 DEF IInv, JobInv
    <3> QED
      BY <3>1, <3>3, FinishedIsFull
  <2>2. CASE pc[c] = "return"
    BY <2>2 DEF IInv, CallerInv
  <2> QED
    BY <2>1, <2>2
<1> QED
  BY <1>1, Invariance, PTL

\* A sample in the buffer was written for a pair that is retired or about to be.
LEMMA ExclusiveFromInvariant == IInv => ExclusivePairs
<1> SUFFICES ASSUME IInv, NEW w \in Workers, pc[w] = "decrypt"
             PROVE  /\ SamplesOf(pair[w], jobs[job[w]].n) \cap out[jobs[job[w]].owner] = {}
                    /\ \A v \in Workers \ {w} :
                         pc[v] = "decrypt" /\ job[v] = job[w] => pair[v] # pair[w]
  BY DEF ExclusivePairs
<1> DEFINE c == jobs[epoch].owner
           n == jobs[epoch].n
           q == pair[w]
<1>1. /\ job[w] = epoch /\ c \in Callers /\ pc[c] \in InRun
  BY BusyFacts DEF Working
<1>2. /\ n = batch[c]
      /\ q \in Pairs(n) /\ q \notin jobs[epoch].released
      /\ \A v \in Holders(epoch) : pair[v] = q => v = w
  BY <1>1 DEF IInv, CallerInv, WorkerInv
<1>3. ~Written(epoch, q)
  BY <1>2 DEF Written
<1>4. ASSUME NEW s \in SamplesOf(q, n), s \in out[c]
      PROVE  FALSE
  <2>1. s \in 0 .. MaxSamples
    BY DEF SamplesOf, Samples
  <2>2. PICK p \in Pairs(n) : Written(epoch, p) /\ s \in SamplesOf(p, n)
    BY <1>1, <1>2, <1>4, <2>1 DEF IInv, OutInv
  <2>3. p = q
    BY <1>2, <2>1, <2>2, BoundsAssumption DEF SamplesOf, Pairs
  <2> QED
    BY <1>3, <2>2, <2>3
<1>5. \A v \in Workers \ {w} : pc[v] = "decrypt" /\ job[v] = job[w] => pair[v] # pair[w]
  BY <1>1, <1>2 DEF Holders
<1> QED
  BY <1>1, <1>4, <1>5

\* No pair is decrypted twice, by two workers or by one (pool.rs:12).
THEOREM PairsAreExclusive == Spec => []ExclusivePairs
<1> QED
  BY ExclusiveFromInvariant, Invariance, PTL

\* A published job is never overwritten before it is finished (pool.rs:53).
THEOREM OneJobAtATime == Spec => []SingleJob
<1>1. IInv => SingleJob
  BY DEF IInv
<1> QED
  BY <1>1, Invariance, PTL

\* No worker sleeps through a job that nobody is about to announce (pool.rs:151).
THEOREM WorkersKeepUp == Spec => []NoLostJobWakeup
<1>1. IInv => NoLostJobWakeup
  BY DEF IInv
<1> QED
  BY <1>1, Invariance, PTL

\* Only three actions write a buffer, and none of them the buffer of a caller
\* that has stopped waiting.
LEMMA OutWriters ==
  ASSUME IInv, NEW c \in Callers, pc[c] \in {"unlock", "return"},
         pc'[c] # "idle", [Next]_vars
  PROVE  out'[c] = out[c]
<1> USE ThreadsAssumption
<1>1. TypeOK
  BY DEF IInv
<1>2. CASE UNCHANGED out
  BY <1>2
<1>3. ASSUME NEW d \in Callers, Inline(d) PROVE out'[c] = out[c]
  BY <1>1, <1>3 DEF Inline, Goto, TypeOK
<1>4. ASSUME NEW d \in Callers, Return(d) PROVE out'[c] = out[c]
  <2>1. d # c
    BY <1>1, <1>4 DEF Return, Goto, TypeOK, Threads
  <2> QED
    BY <1>1, <1>4, <2>1 DEF Return, TypeOK
<1>5. ASSUME NEW w \in Workers, Decrypt(w) PROVE out'[c] = out[c]
  <2>1. pc[w] = "decrypt"
    BY <1>5 DEF Decrypt, Goto
  <2>2. /\ jobs[job[w]].owner \in Callers
        /\ ~jobs[epoch].finished
        /\ pc[jobs[job[w]].owner] \in InRun
    BY <2>1, BusyFacts DEF Working
  <2>3. jobs[job[w]].owner # c
    BY <2>2 DEF IInv, CallerInv, InRun
  <2> QED
    BY <1>1, <1>5, <2>3 DEF Decrypt, TypeOK
<1>6. UNCHANGED out \/ (\E d \in Callers : Inline(d) \/ Return(d))
        \/ (\E w \in Workers : Decrypt(w))
  <2>1. ASSUME NEW d \in Callers, CallerStep(d) \/ SpuriousDone(d)
        PROVE  UNCHANGED out \/ Inline(d) \/ Return(d)
    BY <2>1 DEF CallerStep, GetPool, LockRun, Publish, NotifyJob, LockDone,
                TestFinished, TestUnfinished, WaitDone, Unlock, SpuriousDone, callerVars
  <2>2. ASSUME NEW w \in Workers, WorkerStep(w) \/ SpuriousJob(w)
        PROVE  UNCHANGED out \/ Decrypt(w)
    BY <2>2 DEF WorkerStep, Lock, TakeJob, NothingNew, Sleep, Exit, Claim, Leave,
                Retire, Finish, NotifyDone, SpuriousJob, callerVars
  <2>3. ASSUME NEW d \in Callers, NEW n \in 0 .. MaxSamples, Call(d, n)
        PROVE  UNCHANGED out
    BY <2>3 DEF Call
  <2>4. CASE OwnerStep
    BY <2>4 DEF OwnerStep, StoreShutdown, NotifyDrop, Join, callerVars
  <2>5. CASE UNCHANGED vars
    BY <2>5 DEF vars
  <2> QED
    BY <2>1, <2>2, <2>3, <2>4, <2>5 DEF Next
<1> QED
  BY <1>2, <1>3, <1>4, <1>5, <1>6

\* What decrypt_par returned is not written any more.
THEOREM ReturnedBuffersAreStable == Spec => ReturnedBufferStable
<1>1. IInv /\ [Next]_vars =>
        [\A c \in Callers :
           pc[c] \in {"unlock", "return"} /\ pc'[c] # "idle" => out'[c] = out[c]]_vars
  BY OutWriters
<1> QED
  BY <1>1, Invariance, PTL DEF Spec, ReturnedBufferStable

-----------------------------------------------------------------------------
(* Refinement. *)

\* The phase of every label of a caller.
LEMMA PhaseValues ==
  /\ Phase("idle") = "idle" /\ Phase("enter") = "called" /\ Phase("lockRun") = "called"
  /\ Phase("return") = "done"
  /\ \A l \in InRun : Phase(l) = "serving"
<1> QED
  BY DEF Phase, InRun

\* The buffer gains the samples of one pair, none of which it had.
LEMMA DecryptDelivers ==
  ASSUME IInv, NEW w \in Workers, Decrypt(w)
  PROVE  \E c \in Callers : Service!Deliver(c)
<1> USE ThreadsAssumption
<1>1. TypeOK /\ ExclusivePairs
  BY ExclusiveFromInvariant DEF IInv
<1> DEFINE c == jobs[epoch].owner
           q == pair[w]
<1>2. pc[w] = "decrypt" /\ job[w] = epoch /\ c \in Callers /\ runLock = c /\ pc[c] \in InRun
  <2>1. pc[w] = "decrypt"
    BY DEF Decrypt, Goto
  <2> QED
    BY <2>1, BusyFacts DEF Working
<1>3. jobs[epoch].n = batch[c] /\ q \in Pairs(batch[c]) /\ batch[c] \in 0 .. MaxSamples
  BY <1>1, <1>2 DEF IInv, CallerInv, WorkerInv, TypeOK
<1>4. SamplesOf(q, batch[c]) \cap out[c] = {}
  BY <1>1, <1>2, <1>3 DEF ExclusivePairs
<1>5. 2 * q \in SamplesOf(q, batch[c])
  BY <1>3, BoundsAssumption DEF Pairs, NumPairs, SamplesOf, Samples
<1>6. SamplesOf(q, batch[c]) \in (SUBSET (Service!Samples(batch[c]) \ out[c])) \ {{}}
  <2>1. SamplesOf(q, batch[c]) \subseteq Service!Samples(batch[c])
    BY DEF SamplesOf, Samples, Service!Samples
  <2>2. SamplesOf(q, batch[c]) # {}
    BY <1>5
  <2>3. SamplesOf(q, batch[c]) \subseteq Service!Samples(batch[c]) \ out[c]
    BY <1>4, <2>1
  <2> QED
    BY <2>2, <2>3
<1>7. out' = [out EXCEPT ![c] = @ \cup SamplesOf(q, batch[c])]
  BY <1>2, <1>3 DEF Decrypt
<1>8. UNCHANGED <<batch, runLock>> /\ \A d \in Callers : pc'[d] = pc[d]
  BY <1>1 DEF Decrypt, Goto, locks, TypeOK, Threads
<1>9. UNCHANGED [d \in Callers |-> Phase(pc[d])]
  BY <1>8
<1>10. Service!Deliver(c)
  BY <1>2, <1>6, <1>7, <1>8, <1>9 DEF Service!Deliver
<1> QED
  BY <1>2, <1>10

\* Every step of the pool is a step of the service, or none.
LEMMA StepRefines ==
  ASSUME IInv, [Next]_vars
  PROVE  [Service!Next]_Service!vars
<1> USE ThreadsAssumption, PhaseValues
<1>1. TypeOK
  BY DEF IInv
<1> DEFINE phases == [c \in Callers |-> Phase(pc[c])]
<1>2. ASSUME NEW c \in Callers, NEW n \in 0 .. MaxSamples, Call(c, n)
      PROVE  Service!Call(c, n)
  <2>1. pc[c] = "idle" /\ \A d \in Callers : pc'[d] = IF d = c THEN "enter" ELSE pc[d]
    BY <1>1, <1>2 DEF Call, Goto, TypeOK, Threads
  <2>2. phases' = [phases EXCEPT ![c] = "called"]
    BY <2>1
  <2> QED
    BY <1>2, <2>1, <2>2 DEF Call, locks, Service!Call
<1>3. ASSUME NEW c \in Callers, Inline(c)
      PROVE  Service!ServeInline(c)
  <2>1. pc[c] = "enter" /\ \A d \in Callers : pc'[d] = IF d = c THEN "return" ELSE pc[d]
    BY <1>1, <1>3 DEF Inline, Goto, TypeOK, Threads
  <2>2. phases' = [phases EXCEPT ![c] = "done"]
    BY <2>1
  <2> QED
    BY <1>3, <2>1, <2>2 DEF Inline, locks, Samples, Service!ServeInline, Service!Samples
<1>4. ASSUME NEW c \in Callers, LockRun(c)
      PROVE  Service!Begin(c)
  <2>1. pc[c] = "lockRun" /\ \A d \in Callers : pc'[d] = IF d = c THEN "publish" ELSE pc[d]
    BY <1>1, <1>4 DEF LockRun, Goto, TypeOK, Threads
  <2>2. phases' = [phases EXCEPT ![c] = "serving"]
    BY <2>1 DEF InRun
  <2>3. batch[c] >= 2
    BY <2>1 DEF IInv, CallerInv
  <2> QED
    BY <1>4, <2>1, <2>2, <2>3 DEF LockRun, RunLockFree, callerVars, Service!Begin
<1>5. ASSUME NEW c \in Callers, Unlock(c)
      PROVE  Service!End(c)
  <2>1. pc[c] = "unlock" /\ \A d \in Callers : pc'[d] = IF d = c THEN "return" ELSE pc[d]
    BY <1>1, <1>5 DEF Unlock, Goto, TypeOK, Threads
  <2>2. phases' = [phases EXCEPT ![c] = "done"]
    BY <2>1
  <2>3. runLock = c /\ jobs[epoch].finished /\ pc[c] \in InRun
    BY <2>1 DEF IInv, CallerInv, LockInv, InRun
  <2>4. out[c] = Service!Samples(batch[c])
    BY <2>3, FinishedIsFull DEF Samples, Service!Samples
  <2> QED
    BY <1>5, <2>1, <2>2, <2>3, <2>4 DEF Unlock, callerVars, Service!End
<1>6. ASSUME NEW c \in Callers, Return(c)
      PROVE  Service!Return(c)
  <2>1. pc[c] = "return" /\ \A d \in Callers : pc'[d] = IF d = c THEN "idle" ELSE pc[d]
    BY <1>1, <1>6 DEF Return, Goto, TypeOK, Threads
  <2>2. phases' = [phases EXCEPT ![c] = "idle"]
    BY <2>1
  <2> QED
    BY <1>6, <2>1, <2>2 DEF Return, locks, Service!Return
<1>7. ASSUME UNCHANGED <<batch, out, runLock>>,
             \A d \in Callers : Phase(pc'[d]) = Phase(pc[d])
      PROVE  UNCHANGED Service!vars
  BY <1>7 DEF Service!vars
<1>8. ASSUME NEW c \in Callers,
             \/ GetPool(c) \/ NotifyJob(c) \/ LockDone(c) \/ TestFinished(c)
             \/ TestUnfinished(c) \/ WaitDone(c) \/ SpuriousDone(c) \/ Publish(c)
      PROVE  UNCHANGED Service!vars
  <2>1. UNCHANGED <<batch, out, runLock>>
    BY <1>8 DEF GetPool, NotifyJob, LockDone, TestFinished, TestUnfinished, WaitDone,
                SpuriousDone, Publish, locks, callerVars
  <2>2. \A d \in Callers :
          \/ pc'[d] = pc[d]
          \/ pc[d] \in InRun /\ pc'[d] \in InRun
          \/ pc[d] = "enter" /\ pc'[d] = "lockRun"
    BY <1>1, <1>8 DEF GetPool, NotifyJob, LockDone, TestFinished, TestUnfinished, WaitDone,
                SpuriousDone, Publish, Goto, InRun, TypeOK, CallerLabels, Threads
  <2> QED
    BY <1>7, <2>1, <2>2
<1>9. ASSUME \/ \E w \in Workers :
                  \/ Lock(w) \/ TakeJob(w) \/ NothingNew(w) \/ Sleep(w) \/ Exit(w)
                  \/ Claim(w) \/ Leave(w) \/ Retire(w) \/ Finish(w) \/ NotifyDone(w)
                  \/ SpuriousJob(w)
             \/ OwnerStep
      PROVE  UNCHANGED Service!vars
  <2>1. UNCHANGED <<batch, out, runLock>>
    BY <1>9 DEF Lock, TakeJob, NothingNew, Sleep, Exit, Claim, Leave, Retire, Finish,
                NotifyDone, SpuriousJob, OwnerStep, StoreShutdown, NotifyDrop, Join,
                locks, callerVars
  <2>2. \A d \in Callers : pc'[d] = pc[d] \/ (pc[d] \in InRun /\ pc'[d] \in InRun)
    <3>1. ASSUME NEW w \in Workers,
                 \/ Lock(w) \/ TakeJob(w) \/ NothingNew(w) \/ Sleep(w) \/ Exit(w)
                 \/ Claim(w) \/ Leave(w) \/ Retire(w) \/ Finish(w) \/ SpuriousJob(w)
          PROVE  \A d \in Callers : pc'[d] = pc[d]
      <4>1. \A t \in Threads \ {w} : pc'[t] = pc[t]
        <5>1. \E from, to : Goto(w, from, to)
          BY <3>1 DEF Lock, TakeJob, NothingNew, Sleep, Exit, Claim, Leave, Retire,
                      Finish, SpuriousJob
        <5> QED
          BY <5>1, <1>1 DEF Goto, TypeOK
      <4> QED
        BY <4>1 DEF Threads
    <3>2. ASSUME NEW w \in Workers, NotifyDone(w)
          PROVE  \A d \in Callers : pc'[d] = pc[d] \/ (pc[d] \in InRun /\ pc'[d] \in InRun)
      BY <3>2 DEF NotifyDone, InRun, Threads
    <3>3. ASSUME OwnerStep
          PROVE  \A d \in Callers : pc'[d] = pc[d]
      <4>1. CASE StoreShutdown \/ Join
        BY <1>1, <4>1 DEF StoreShutdown, Join, Goto, TypeOK, Threads
      <4>2. CASE NotifyDrop
        BY <1>1, <4>2 DEF NotifyDrop, TypeOK, CallerLabels, Threads
      <4> QED
        BY <3>3, <4>1, <4>2 DEF OwnerStep
    <3> QED
      BY <1>9, <3>1, <3>2, <3>3
  <2> QED
    BY <1>7, <2>1, <2>2
<1>10. CASE UNCHANGED vars
  BY <1>7, <1>10 DEF vars
<1> QED
  BY <1>2, <1>3, <1>4, <1>5, <1>6, <1>8, <1>9, <1>10, DecryptDelivers
     DEF Next, CallerStep, WorkerStep, Service!Next

\* The pool implements the batch service: what a caller observes of the threads,
\* the locks and the epochs is a batch served once, on its own, in full.
THEOREM PoolImplementsService == Spec => ServiceSpec
<1>1. Init => Service!Init
  BY ThreadsAssumption, PhaseValues DEF Init, Threads, Service!Init
<1>2. IInv /\ [Next]_vars => [Service!Next]_Service!vars
  BY StepRefines
<1> QED
  BY <1>1, <1>2, Invariance, PTL DEF Spec, ServiceSpec, Service!Spec
=============================================================================
