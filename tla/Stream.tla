------------------------------- MODULE Stream -------------------------------
(***************************************************************************)
(* The streaming decryptor (src/stream.rs): a bounded channel in, one      *)
(* coordinator thread that batches and decrypts, an unbounded channel out. *)
(*                                                                         *)
(* A producer holds the mutex around the sender for as long as it waits    *)
(* for room in the channel, so other producers and finish() wait behind    *)
(* it.  The coordinator waits at most an idle window for a sample and then *)
(* decrypts what it has.  The stream ends when the coordinator has drained *)
(* the closed channel and dropped its end of the channel out.              *)
(*                                                                         *)
(* Clients call through ffi.rs, from several threads.  try_submit is not   *)
(* exported there and a StreamDecryptor is not Sync, so its caller is the  *)
(* only client.  A sample is named by its place in the order of            *)
(* acceptance; its plaintext has the same name.  Time is not modelled: an  *)
(* idle window may elapse whenever the channel is empty.  The pool is seen *)
(* through its service: decrypt_par_into returns with the batch complete,  *)
(* or, if Fallible, panics because the pool's threads cannot be spawned.   *)
(***************************************************************************)
EXTENDS Integers, Sequences, FiniteSets

CONSTANTS
  Producers,   \* threads that submit and finish
  Consumers,   \* threads that receive
  Owner,       \* the thread that drops the stream
  NoThread,    \* the holder of a free mutex
  Batch,       \* batch_size.max(1)
  MaxSamples,  \* bound: samples accepted in a behaviour
  Fallible     \* TRUE: the first use of the pool may panic

ASSUME ClientsAssumption ==
  /\ Producers \cap Consumers = {}
  /\ Owner \notin Producers \cup Consumers
  /\ NoThread \notin Producers \cup Consumers \cup {Owner}

ASSUME SizesAssumption ==
  /\ Batch \in Nat \ {0}
  /\ MaxSamples \in Nat
  /\ Fallible \in BOOLEAN

VARIABLES
  txLock,     \* holder of the mutex around tx_in
  txOpen,     \* tx_in is Some: the sender is alive
  closed,     \* the AtomicBool that is_finished reads
  inq,        \* the channel in
  outq,       \* the channel out
  cpc,        \* where the coordinator is
  inputOpen,  \* its input_open
  buffer,     \* its buffer
  sent,       \* plaintexts of buffer already sent out
  pc,         \* where each client is
  reply,      \* what the last submit to return returned
  answer,     \* what the last receive to return returned
  accepted,   \* history: number of samples accepted
  got         \* history: plaintexts received, in order

vars == <<txLock, txOpen, closed, inq, outq, cpc, inputOpen, buffer, sent, pc,
          reply, answer, accepted, got>>

sender == <<txLock, txOpen, closed>>
coordinator == <<cpc, inputOpen, buffer, sent>>
clients == <<pc, reply, answer>>
history == <<accepted, got>>

Clients == Producers \cup Consumers \cup {Owner}

ProducerLabels == {"idle", "submit", "send", "finish", "flag"}
ConsumerLabels == {"idle", "recv"}
OwnerLabels == {"idle", "join", "dropped"}
CoordinatorLabels == {"first", "more", "decrypt", "send", "exited", "panicked"}

\* mpsc::sync_channel(batch * 2)
Capacity == 2 * Batch

-----------------------------------------------------------------------------
Init ==
  /\ txLock = NoThread
  /\ txOpen = TRUE
  /\ closed = FALSE
  /\ inq = <<>>
  /\ outq = <<>>
  /\ cpc = "first"
  /\ inputOpen = TRUE
  /\ buffer = <<>>
  /\ sent = 0
  /\ pc = [t \in Clients |-> "idle"]
  /\ reply = "none"
  /\ answer = "none"
  /\ accepted = 0
  /\ got = <<>>

Goto(t, from, to) ==
  /\ pc[t] = from
  /\ pc' = [pc EXCEPT ![t] = to]

GoneOnReturn == cpc = "exited"  \* mutant: unwinding leaves its channel ends open

\* The receiver of the channel in, and the sender of the channel out, are
\* local to the coordinator: they go when it returns or unwinds.
CoordinatorGone == cpc \in {"exited", "panicked"}

\* The stream is a handle its clients share until the owner drops it.
InUse == pc[Owner] = "idle"

-----------------------------------------------------------------------------
(* Producers: submit, try_submit, finish. *)

\* MaxSamples bounds what is accepted and what is on its way.
Submitting == {p \in Producers : pc[p] \in {"submit", "send"}}

CallSubmit(p) ==
  /\ InUse
  /\ accepted + Cardinality(Submitting) < MaxSamples
  /\ Goto(p, "idle", "submit")
  /\ UNCHANGED <<sender, inq, outq, coordinator, reply, answer, history>>

LockIgnored == TRUE  \* mutant: finish does not wait for the mutex

LockFree == txLock = NoThread

\* tx_in is Some: the guard lives until send has returned.
LockToSend(p) ==
  /\ txLock = NoThread
  /\ txOpen
  /\ Goto(p, "submit", "send")
  /\ txLock' = p
  /\ UNCHANGED <<txOpen, closed, inq, outq, coordinator, reply, answer, history>>

\* tx_in is None.
RefuseClosed(p) ==
  /\ txLock = NoThread
  /\ ~txOpen
  /\ Goto(p, "submit", "idle")
  /\ reply' = "closed"
  /\ UNCHANGED <<sender, inq, outq, coordinator, answer, history>>

RoomForOneMore == Len(inq) <= Capacity  \* mutant: <= for <

RoomForResults ==  \* mutant: results nobody received yet take up room
  Len(inq) + Len(outq) < Capacity

HasRoom == Len(inq) < Capacity

\* tx.send(sample) puts the sample into the channel.
Accept ==
  /\ ~CoordinatorGone
  /\ HasRoom
  /\ inq' = Append(inq, accepted + 1)
  /\ accepted' = accepted + 1

\* send blocks, the mutex held, until there is room.
Send(p) ==
  /\ Accept
  /\ Goto(p, "send", "idle")
  /\ txLock' = NoThread
  /\ reply' = "ok"
  /\ UNCHANGED <<txOpen, closed, outq, coordinator, answer, got>>

\* The receiver is gone: send returns an error, mapped to Closed.
SendFails(p) ==
  /\ CoordinatorGone
  /\ Goto(p, "send", "idle")
  /\ txLock' = NoThread
  /\ reply' = "closed"
  /\ UNCHANGED <<txOpen, closed, inq, outq, coordinator, answer, history>>

\* Nobody else is in a call.
Alone(p) == \A t \in Clients \ {p} : pc[t] = "idle"

TrySend(p) ==
  /\ Alone(p)
  /\ accepted < MaxSamples
  /\ pc[p] = "idle"
  /\ txOpen
  /\ Accept
  /\ reply' = "ok"
  /\ UNCHANGED <<sender, outq, coordinator, pc, answer, got>>

\* None, a full channel and a receiver that is gone are all mapped to Closed.
TrySendFails(p) ==
  /\ Alone(p)
  /\ pc[p] = "idle"
  /\ ~txOpen \/ CoordinatorGone \/ ~HasRoom
  /\ reply' = "closed"
  /\ UNCHANGED <<sender, inq, outq, coordinator, pc, answer, history>>

CallFinish(p) ==
  /\ InUse
  /\ Goto(p, "idle", "finish")
  /\ UNCHANGED <<sender, inq, outq, coordinator, reply, answer, history>>

\* *self.tx_in.lock().unwrap() = None
DropSender(p) ==
  /\ LockFree
  /\ Goto(p, "finish", "flag")
  /\ txOpen' = FALSE
  /\ UNCHANGED <<txLock, closed, inq, outq, coordinator, reply, answer, history>>

\* self.closed.store(true, Release)
SetClosed(p) ==
  /\ Goto(p, "flag", "idle")
  /\ closed' = TRUE
  /\ UNCHANGED <<txLock, txOpen, inq, outq, coordinator, reply, answer, history>>

-----------------------------------------------------------------------------
(* Consumers: next, which blocks, and try_next. *)

CallNext(c) ==
  /\ InUse
  /\ Goto(c, "idle", "recv")
  /\ UNCHANGED <<sender, inq, outq, coordinator, reply, answer, history>>

TakeHead ==
  /\ outq # <<>>
  /\ outq' = Tail(outq)
  /\ got' = Append(got, Head(outq))
  /\ answer' = "data"

\* The channel is empty and the coordinator has dropped its sender.
SeeEnd ==
  /\ outq = <<>>
  /\ CoordinatorGone
  /\ answer' = "end"

NextData(c) ==
  /\ TakeHead
  /\ Goto(c, "recv", "idle")
  /\ UNCHANGED <<sender, inq, coordinator, reply, accepted>>

NextEnd(c) ==
  /\ SeeEnd
  /\ Goto(c, "recv", "idle")
  /\ UNCHANGED <<sender, inq, outq, coordinator, reply, history>>

TryNextData(c) ==
  /\ InUse
  /\ pc[c] = "idle"
  /\ TakeHead
  /\ UNCHANGED <<sender, inq, coordinator, pc, reply, accepted>>

TryNextEnd(c) ==
  /\ InUse
  /\ pc[c] = "idle"
  /\ SeeEnd
  /\ UNCHANGED <<sender, inq, outq, coordinator, pc, reply, history>>

TryNextEmpty(c) ==
  /\ InUse
  /\ pc[c] = "idle"
  /\ outq = <<>>
  /\ ~CoordinatorGone
  /\ answer' = "empty"
  /\ UNCHANGED <<sender, inq, outq, coordinator, pc, reply, history>>

-----------------------------------------------------------------------------
(* Drop takes &mut self: no client is inside, and none will come. *)

KeepSender == UNCHANGED txOpen  \* mutant: the sender lives until the join is over

\* *self.tx_in.get_mut().unwrap() = None
CloseInput == txOpen' = FALSE

BeginDrop ==
  /\ Alone(Owner)
  /\ Goto(Owner, "idle", "join")
  /\ CloseInput
  /\ UNCHANGED <<txLock, closed, inq, outq, coordinator, reply, answer, history>>

\* join() returns whether the coordinator returned or panicked; then the
\* channel out goes, and what nobody received with it.
Join ==
  /\ CoordinatorGone
  /\ Goto(Owner, "join", "dropped")
  /\ outq' = <<>>
  /\ UNCHANGED <<sender, inq, coordinator, reply, answer, history>>

-----------------------------------------------------------------------------
(* The coordinator. *)

LeaveEarly(open) == IF txOpen THEN "first" ELSE "exited"  \* mutant: is_finished for input_open

\* while input_open || !buffer.is_empty(), with the buffer empty
LoopHead(open) == IF open THEN "first" ELSE "exited"

FillTooMuch(n) == IF n <= Batch THEN "more" ELSE "decrypt"  \* mutant: <= for <

\* while buffer.len() < batch && input_open
FillOrDecrypt(n) == IF n < Batch THEN "more" ELSE "decrypt"

\* A sample arrives within the idle window.
Receive ==
  /\ cpc \in {"first", "more"}
  /\ inq # <<>>
  /\ inq' = Tail(inq)
  /\ buffer' = Append(buffer, Head(inq))
  /\ cpc' = FillOrDecrypt(Len(buffer) + 1)
  /\ UNCHANGED <<sender, outq, inputOpen, sent, clients, history>>

\* The window elapses before the first sample: the inner loop waits again.
IdleFirst ==
  /\ cpc = "first"
  /\ inq = <<>>
  /\ txOpen
  /\ cpc' = "more"
  /\ UNCHANGED <<sender, inq, outq, inputOpen, buffer, sent, clients, history>>

\* The window elapses in the inner loop: flush what there is.
IdleMore ==
  /\ cpc = "more"
  /\ inq = <<>>
  /\ txOpen
  /\ cpc' = IF buffer = <<>> THEN LoopHead(inputOpen) ELSE "decrypt"
  /\ UNCHANGED <<sender, inq, outq, inputOpen, buffer, sent, clients, history>>

NotDrained == ~txOpen  \* mutant: a closed channel is taken for an empty one

\* A channel is disconnected when the sender is gone and nothing is left.
Drained == ~txOpen /\ inq = <<>>

Disconnect ==
  /\ cpc \in {"first", "more"}
  /\ Drained
  /\ inputOpen' = FALSE
  /\ cpc' = IF buffer = <<>> THEN LoopHead(FALSE) ELSE "decrypt"
  /\ UNCHANGED <<sender, inq, outq, buffer, sent, clients, history>>

\* decrypt_par_into, on the whole buffer.
Decrypt ==
  /\ cpc = "decrypt"
  /\ cpc' = "send"
  /\ UNCHANGED <<sender, inq, outq, inputOpen, buffer, sent, clients, history>>

\* The pool is needed for two samples or more.  If its threads cannot be
\* spawned the coordinator unwinds: its buffer and both channel ends go.
Panic ==
  /\ Fallible
  /\ cpc = "decrypt"
  /\ Len(buffer) >= 2
  /\ cpc' = "panicked"
  /\ buffer' = <<>>
  /\ inq' = <<>>
  /\ UNCHANGED <<sender, outq, inputOpen, sent, clients, history>>

OutHasRoom == Len(outq) < Batch  \* mutant: the channel out is bounded too

\* tx_out never blocks.
OutUnbounded == TRUE

KeepBuffer ==  \* mutant: the buffer is not cleared
  /\ sent' = 0
  /\ UNCHANGED buffer

\* buffer.clear()
ClearBuffer ==
  /\ sent' = 0
  /\ buffer' = <<>>

\* tx_out.send(..), one plaintext after another; after the last one the
\* buffer is cleared.
SendOut ==
  /\ cpc = "send"
  /\ OutUnbounded
  /\ outq' = Append(outq, buffer[sent + 1])
  /\ IF sent + 1 < Len(buffer)
     THEN sent' = sent + 1 /\ UNCHANGED <<cpc, buffer>>
     ELSE cpc' = LoopHead(inputOpen) /\ ClearBuffer
  /\ UNCHANGED <<sender, inq, inputOpen, clients, history>>

-----------------------------------------------------------------------------
Coordinator ==
  \/ Receive \/ IdleFirst \/ IdleMore \/ Disconnect
  \/ Decrypt \/ Panic \/ SendOut

\* What a producer does inside a call it has begun.
ProducerStep(p) ==
  \/ LockToSend(p) \/ RefuseClosed(p) \/ Send(p) \/ SendFails(p)
  \/ DropSender(p) \/ SetClosed(p)

ConsumerStep(c) == NextData(c) \/ NextEnd(c)

Next ==
  \/ \E p \in Producers :
       \/ CallSubmit(p) \/ TrySend(p) \/ TrySendFails(p) \/ CallFinish(p)
       \/ ProducerStep(p)
  \/ \E c \in Consumers :
       \/ CallNext(c) \/ TryNextData(c) \/ TryNextEnd(c) \/ TryNextEmpty(c)
       \/ ConsumerStep(c)
  \/ Coordinator
  \/ BeginDrop
  \/ Join

\* The coordinator runs; a producer that waits for a mutex freed again and
\* again gets it, hence SF.  Nobody has to call or to drop the stream.
Fairness ==
  /\ WF_vars(Coordinator)
  /\ \A p \in Producers : SF_vars(ProducerStep(p))
  /\ \A c \in Consumers : SF_vars(ConsumerStep(c))
  /\ WF_vars(Join)

Spec == Init /\ [][Next]_vars

FairSpec == Spec /\ Fairness

-----------------------------------------------------------------------------
(* Properties. *)

\* Every variable has its type; the buffer is empty exactly where the loop
\* starts over, and never longer than a batch.
TypeOK ==
  /\ txLock \in Producers \cup {NoThread}
  /\ txOpen \in BOOLEAN
  /\ closed \in BOOLEAN
  /\ inq \in Seq(Nat)
  /\ outq \in Seq(Nat)
  /\ cpc \in CoordinatorLabels
  /\ inputOpen \in BOOLEAN
  /\ buffer \in Seq(Nat)
  /\ Len(buffer) <= Batch
  /\ sent \in Nat
  /\ sent <= Len(buffer)
  /\ pc \in [Clients -> ProducerLabels \cup ConsumerLabels \cup OwnerLabels]
  /\ \A p \in Producers : pc[p] \in ProducerLabels
  /\ \A c \in Consumers : pc[c] \in ConsumerLabels
  /\ pc[Owner] \in OwnerLabels
  /\ reply \in {"none", "ok", "closed"}
  /\ answer \in {"none", "data", "empty", "end"}
  /\ accepted \in Nat
  /\ got \in Seq(Nat)

\* The samples of s are those that follow the first n, in order.
Follows(s, n) == \A i \in DOMAIN s : s[i] = n + i

Delivered == Len(got) + Len(outq)

\* Accepted and not yet sent out.
Pending == Len(buffer) - sent + Len(inq)

\* "plaintexts in submission order" (stream.rs:5): what came out, and what is
\* ready to, is the beginning of what was accepted, even if the coordinator
\* panicked half-way.
InOrder ==
  /\ Follows(got, 0)
  /\ pc[Owner] # "dropped" => Follows(outq, Len(got))

\* Every accepted sample is in exactly one place, and the places, in the
\* order channel out, buffer, channel in, hold them in the order of
\* acceptance: nothing is lost, doubled or overtaken between two threads.
NothingLost ==
  pc[Owner] # "dropped" /\ cpc # "panicked" =>
    /\ Follows(buffer, Delivered - sent)
    /\ Follows(inq, Delivered + Len(buffer) - sent)
    /\ accepted = Delivered + Pending

\* Backpressure: producers are ahead of the decryptor by a full channel and a
\* full buffer at most, 3 * batch, whatever the consumer does.  (The comment
\* at stream.rs:61 says `batch`.)
BoundedLag == Pending <= 3 * Batch

\* "Returns None once the stream is closed and everything is consumed"
\* (stream.rs:91): a receiver that is told there is no more has been told so
\* after the last accepted sample was received, and none is accepted later.
EndMeansConsumed ==
  answer = "end" => ~txOpen /\ Len(got) = accepted

\* Once finish() has set its flag no submit is accepted, not even one that
\* was blocked on a full channel when finish() was called.
FinishSeals == [][closed => UNCHANGED accepted]_vars

\* submit and finish return, whether or not anybody receives: neither waits
\* for a consumer, since the channel out is unbounded, and a blocked submit
\* that holds the mutex finish() needs gets its room.  They return after a
\* panic of the coordinator as well.
CallsReturn == \A p \in Producers : pc[p] # "idle" ~> pc[p] = "idle"

\* Every accepted sample comes out of the decryptor, a lone one in a partial
\* batch and those still in the channel when the input is closed included.
AllDecrypted ==
  \A k \in 1 .. MaxSamples :
    accepted >= k ~> Delivered >= k \/ cpc = "panicked" \/ pc[Owner] = "dropped"

\* A receiver blocked in next() is released when the input is closed, and also
\* when the coordinator unwinds with the input still open: nobody has to call
\* finish() for the receiver to get out.
NextReturns ==
  \A c \in Consumers :
    pc[c] = "recv" /\ (~txOpen \/ cpc = "panicked") ~> pc[c] = "idle"

\* Dropping the stream joins the coordinator, with samples left in every
\* queue and nobody to receive them.
DropReturns == pc[Owner] = "join" ~> pc[Owner] = "dropped"

-----------------------------------------------------------------------------
(* The stream implements the ordered stream. *)

Ordered == INSTANCE OrderedStream WITH
  delivered <- got,
  open <- txOpen,
  ended <- answer = "end"

OrderedSpec == Ordered!Spec
=============================================================================
