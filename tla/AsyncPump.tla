------------------------------ MODULE AsyncPump ------------------------------
(***************************************************************************)
(* Python's aiter(): a pump thread reads the stream with the blocking loop *)
(* of StreamBinding and hands plaintexts, a chunk at a time, to the event  *)
(* loop, where the application iterates.                                   *)
(*                                                                         *)
(* The pump may not touch the queue: it asks the loop to call put_nowait,  *)
(* which raises if the queue is full.  A semaphore that counts the free    *)
(* places keeps the pump from asking too early.                            *)
(*                                                                         *)
(* The application may leave the iteration; the pump is then left alone.   *)
(***************************************************************************)
EXTENDS StreamBinding, SequencesExt

CONSTANTS
  Pump,    \* the pump thread, the only reader
  MaxQ,    \* places of the queue
  Chunk    \* plaintexts handed over at a time

ASSUME PumpAssumption ==
  /\ Readers = {Pump}
  /\ MaxQ \in Nat \ {0}
  /\ Chunk \in Nat \ {0}

VARIABLES
  at,         \* where the pump is
  batch,      \* its batch
  space,      \* the semaphore
  scheduled,  \* put_nowait calls the loop has yet to make
  queue,      \* the asyncio.Queue
  consumer,   \* where the application is
  item,       \* what is left of the chunk it iterates over
  yielded     \* history: the samples it was given, in order

pumpVars == <<at, batch, space, scheduled, queue>>
consumerVars == <<consumer, item, yielded>>
vars == <<bindingVars, pumpVars, consumerVars>>

\* A chunk is never empty, so that the empty one can stand for the sentinel.
Sentinel == <<>>

Init ==
  /\ BindingInit
  /\ at = "call"
  /\ batch = <<>>
  /\ space = MaxQ
  /\ scheduled = <<>>
  /\ queue = <<>>
  /\ consumer = "get"
  /\ item = <<>>
  /\ yielded = <<>>

-----------------------------------------------------------------------------
(* The pump. *)

FullTooLate(b) == Len(b) > Chunk  \* mutant: > for >=

\* len(batch) >= CHUNK
ChunkFull(b) == Len(b) >= Chunk

ForgetRest(b) == "sentinel"  \* mutant: no hand-over of the last chunk

\* if batch: after the loop
AfterLoop(b) == IF b = <<>> THEN "sentinel" ELSE "rest"

\* v = self._next_optional()
PumpCalls ==
  /\ at = "call"
  /\ CallNext(Pump)
  /\ at' = "read"
  /\ UNCHANGED <<batch, space, scheduled, queue, consumerVars>>

\* The call has returned a plaintext: batch.append(v).
PumpAppends ==
  /\ at = "read"
  /\ call[Pump] = "none"
  /\ result[Pump] = "data"
  /\ batch' = Append(batch, Last(received[Pump]).sample)
  /\ at' = IF ChunkFull(batch') THEN "chunk" ELSE "call"
  /\ UNCHANGED <<bindingVars, space, scheduled, queue, consumerVars>>

\* The call has returned None: break.
PumpBreaks ==
  /\ at = "read"
  /\ call[Pump] = "none"
  /\ result[Pump] = "end"
  /\ at' = AfterLoop(batch)
  /\ UNCHANGED <<bindingVars, batch, space, scheduled, queue, consumerVars>>

NoSemaphore == TRUE  \* mutant: no acquire

HasSpace == space > 0

\* space.acquire(); loop.call_soon_threadsafe(queue.put_nowait, x)
Hand(x) ==
  /\ HasSpace
  /\ space' = space - 1
  /\ scheduled' = Append(scheduled, x)

KeepBatch == UNCHANGED batch  \* mutant: the batch is not renewed

\* batch = []
NewBatch == batch' = <<>>

HandChunk ==
  /\ at \in {"chunk", "rest"}
  /\ Hand(batch)
  /\ NewBatch
  /\ at' = IF at = "chunk" THEN "call" ELSE "sentinel"
  /\ UNCHANGED <<bindingVars, queue, consumerVars>>

HandSentinel ==
  /\ at = "sentinel"
  /\ Hand(Sentinel)
  /\ at' = "exited"
  /\ UNCHANGED <<bindingVars, batch, queue, consumerVars>>

-----------------------------------------------------------------------------
(* The event loop. *)

\* put_nowait raises on a full queue, and what it was to put is gone.
PutNowait ==
  /\ scheduled # <<>>
  /\ scheduled' = Tail(scheduled)
  /\ queue' = IF Len(queue) < MaxQ THEN Append(queue, Head(scheduled)) ELSE queue
  /\ UNCHANGED <<bindingVars, at, batch, space, consumerVars>>

KeepSpace == UNCHANGED space  \* mutant: no release

ReleaseTwice == space' = space + 2  \* mutant: released for the item and its place

Release == space' = space + 1

\* item = await queue.get(); space.release()
Get ==
  /\ consumer = "get"
  /\ queue # <<>>
  /\ queue' = Tail(queue)
  /\ item' = Head(queue)
  /\ Release
  /\ consumer' = IF Head(queue) = Sentinel THEN "done" ELSE "yield"
  /\ UNCHANGED <<bindingVars, at, batch, scheduled, yielded>>

\* for p in item: yield p
Yield ==
  /\ consumer = "yield"
  /\ yielded' = Append(yielded, Head(item))
  /\ item' = Tail(item)
  /\ consumer' = IF Tail(item) = <<>> THEN "get" ELSE "yield"
  /\ UNCHANGED <<bindingVars, pumpVars>>

\* The application breaks out of its loop, or is cancelled while it waits.
Abandon ==
  /\ consumer \in {"get", "yield"}
  /\ consumer' = "gone"
  /\ UNCHANGED <<bindingVars, pumpVars, item, yielded>>

-----------------------------------------------------------------------------
\* What the pump thread does.
PumpStep ==
  \/ PumpCalls \/ PumpAppends \/ PumpBreaks \/ HandChunk \/ HandSentinel
  \/ NextStep(Pump) /\ UNCHANGED <<pumpVars, consumerVars>>

Application == Get \/ Yield

Next ==
  \/ PumpStep
  \/ PutNowait
  \/ Application
  \/ Abandon
  \/ Writer /\ UNCHANGED <<pumpVars, consumerVars>>

\* The pump thread, the stream under it and the event loop run, and the
\* application iterates until it has had enough.  Nobody has to submit, finish
\* or leave.
Fairness ==
  /\ WF_vars(PumpStep)
  /\ WF_vars(PutNowait)
  /\ WF_vars(Application)

Spec == Init /\ [][Next]_vars

FairSpec == Spec /\ Fairness

-----------------------------------------------------------------------------
(* Properties. *)

PumpLabels == {"call", "read", "chunk", "rest", "sentinel", "exited"}

\* Every variable has its type; the semaphore never counts more places than the
\* queue has.
TypeOK ==
  /\ BindingTypeOK
  /\ at \in PumpLabels
  /\ batch \in Seq(Nat)
  /\ space \in 0 .. MaxQ
  /\ scheduled \in Seq(Seq(Nat))
  /\ queue \in Seq(Seq(Nat))
  /\ Len(queue) <= MaxQ
  /\ consumer \in {"get", "yield", "done", "gone"}
  /\ item \in Seq(Nat)
  /\ yielded \in Seq(Nat)

\* put_nowait never raises QueueFull (__init__.py:346): there is a place for
\* whatever the loop has been asked to put.
NeverQueueFull == Len(queue) + Len(scheduled) <= MaxQ

PumpReceived == [k \in DOMAIN received[Pump] |-> received[Pump][k].sample]

\* The plaintext the pump's call has returned and the pump not yet appended.
InHand ==
  IF at = "read" /\ call[Pump] = "none" /\ result[Pump] = "data"
  THEN <<Last(received[Pump]).sample>>
  ELSE <<>>

\* Every plaintext the pump got is in one place between its own stack and the
\* application, in order: chunks neither overtake nor lose one another on their
\* way through the loop.
HandedOverInOrder ==
  PumpReceived =
    yielded \o item \o FlattenSeq(queue) \o FlattenSeq(scheduled) \o batch \o InHand

\* An iteration that ends by itself has yielded everything the pump got.
IterationComplete == consumer = "done" => yielded = PumpReceived

\* The bounded queue bounds what is read ahead of a slow application: a queue of
\* chunks, the chunk it iterates over and the one that waits for a place.
ReadAheadBounded == Len(received[Pump]) - Len(yielded) <= (MaxQ + 2) * Chunk

\* When the input is closed, an application that keeps iterating gets to the
\* end: the sentinel finds a place, the last partial chunk before it.
IterationEnds == ~open ~> consumer \in {"done", "gone"}
=============================================================================
