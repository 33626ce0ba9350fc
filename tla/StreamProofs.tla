---------------------------- MODULE StreamProofs ----------------------------
(***************************************************************************)
(* Proofs about Stream, for any producers, receivers and batch size.       *)
(*                                                                         *)
(* The invariant SInv is kept by every action.  Its parts fall into two:   *)
(* where the threads are (LockInv to EndInv) and what the queues hold      *)
(* (InOrder, NothingLost, CountInv).  The properties follow from it, and   *)
(* so does the simulation by OrderedStream if the pool never panics.       *)
(***************************************************************************)
EXTENDS StreamInvariant, SequenceTheorems, TLAPS

-----------------------------------------------------------------------------
(* Queues whose samples are numbered in a row. *)

\* A sample numbered next to the last keeps the row.
LEMMA FollowsAppend ==
  ASSUME NEW s \in Seq(Nat), NEW n \in Int, Follows(s, n),
         NEW e \in Nat, e = n + Len(s) + 1
  PROVE  /\ Append(s, e) \in Seq(Nat)
         /\ Len(Append(s, e)) = Len(s) + 1
         /\ Append(s, e) # <<>>
         /\ Follows(Append(s, e), n)
<1>1. /\ Append(s, e) \in Seq(Nat)
      /\ Len(Append(s, e)) = Len(s) + 1
      /\ Append(s, e) # <<>>
      /\ \A i \in 1 .. Len(s) : Append(s, e)[i] = s[i]
      /\ Append(s, e)[Len(s) + 1] = e
  BY AppendProperties
<1>2. /\ DOMAIN s = 1 .. Len(s)
      /\ DOMAIN Append(s, e) = 1 .. Len(s) + 1
      /\ Len(s) \in Nat
  BY <1>1, LenProperties
<1>3. ASSUME NEW i \in 1 .. Len(s) + 1
      PROVE  Append(s, e)[i] = n + i
  <2>1. CASE i = Len(s) + 1
    BY <1>1, <1>2, <2>1
  <2>2. CASE i \in 1 .. Len(s)
    BY <1>1, <1>2, <2>2 DEF Follows
  <2> QED
    BY <1>2, <2>1, <2>2
<1> QED
  BY <1>1, <1>2, <1>3 DEF Follows

\* The head of a row comes next, and the tail goes on from there.
LEMMA FollowsTail ==
  ASSUME NEW s \in Seq(Nat), s # <<>>, NEW n \in Int, Follows(s, n)
  PROVE  /\ Head(s) = n + 1
         /\ Head(s) \in Nat
         /\ Tail(s) \in Seq(Nat)
         /\ Len(s) \in Nat \ {0}
         /\ Len(Tail(s)) = Len(s) - 1
         /\ Follows(Tail(s), n + 1)
<1>1. /\ Tail(s) \in Seq(Nat)
      /\ Len(Tail(s)) = Len(s) - 1
      /\ \A i \in 1 .. Len(Tail(s)) : Tail(s)[i] = s[i + 1]
  BY HeadTailProperties
<1>2. /\ DOMAIN s = 1 .. Len(s)
      /\ DOMAIN Tail(s) = 1 .. Len(s) - 1
      /\ Len(s) \in Nat \ {0}
  BY <1>1, LenProperties, EmptySeq
<1>3. Head(s) = s[1]
  OBVIOUS
<1>4. ASSUME NEW i \in 1 .. Len(s) - 1
      PROVE  Tail(s)[i] = n + 1 + i
  BY <1>1, <1>2 DEF Follows
<1> QED
  BY <1>1, <1>2, <1>3, <1>4 DEF Follows

\* An empty queue is in any row.
LEMMA FollowsEmpty == ASSUME NEW n PROVE Follows(<<>>, n)
  BY DEF Follows

-----------------------------------------------------------------------------
(* Types. *)

\* A client that keeps to its own labels leaves pc well typed.
LEMMA PcType ==
  ASSUME TypeOK, NEW t \in Clients, NEW to, pc' = [pc EXCEPT ![t] = to],
         \/ t \in Producers /\ to \in ProducerLabels
         \/ t \in Consumers /\ to \in ConsumerLabels
         \/ t = Owner /\ to \in OwnerLabels
  PROVE  /\ pc' \in [Clients -> ProducerLabels \cup ConsumerLabels \cup OwnerLabels]
         /\ \A p \in Producers : pc'[p] \in ProducerLabels
         /\ \A c \in Consumers : pc'[c] \in ConsumerLabels
         /\ pc'[Owner] \in OwnerLabels
  BY ClientsAssumption DEF TypeOK, Clients

\* A plaintext moves from the channel out to the receiver.
LEMMA TakeHeadType ==
  ASSUME TypeOK, TakeHead
  PROVE  outq' \in Seq(Nat) /\ got' \in Seq(Nat) /\ answer' = "data"
<1>1. Head(outq) \in Nat /\ Tail(outq) \in Seq(Nat)
  BY HeadTailProperties DEF TypeOK, TakeHead
<1>2. Append(got, Head(outq)) \in Seq(Nat)
  BY <1>1, AppendProperties DEF TypeOK
<1> QED
  BY <1>1, <1>2 DEF TakeHead

\* A sample enters the channel in.
LEMMA AcceptType ==
  ASSUME TypeOK, Accept
  PROVE  inq' \in Seq(Nat) /\ accepted' \in Nat
<1>1. accepted + 1 \in Nat
  BY DEF TypeOK
<1>2. Append(inq, accepted + 1) \in Seq(Nat)
  BY <1>1, AppendProperties DEF TypeOK
<1> QED
  BY <1>1, <1>2 DEF Accept

LEMMA TypeStep ==
  ASSUME SInv, [Next]_vars
  PROVE  TypeOK'
<1> USE ClientsAssumption, SizesAssumption
<1>1. TypeOK /\ LoopInv /\ LockInv
  BY DEF SInv
<1>2. ASSUME NEW p \in Producers,
             \/ CallSubmit(p) \/ LockToSend(p) \/ RefuseClosed(p) \/ SendFails(p)
             \/ CallFinish(p) \/ DropSender(p) \/ SetClosed(p)
      PROVE  TypeOK'
  <2>1. \E to \in ProducerLabels : pc' = [pc EXCEPT ![p] = to]
    BY <1>2 DEF CallSubmit, LockToSend, RefuseClosed, SendFails, CallFinish, DropSender,
                SetClosed, Goto, ProducerLabels
  <2>2. /\ pc' \in [Clients -> ProducerLabels \cup ConsumerLabels \cup OwnerLabels]
        /\ \A q \in Producers : pc'[q] \in ProducerLabels
        /\ \A c \in Consumers : pc'[c] \in ConsumerLabels
        /\ pc'[Owner] \in OwnerLabels
    BY <1>1, <2>1, PcType DEF Clients
  <2>3. /\ txLock' \in Producers \cup {NoThread} /\ txOpen' \in BOOLEAN
        /\ closed' \in BOOLEAN /\ reply' \in {"none", "ok", "closed"}
        /\ UNCHANGED <<inq, outq, coordinator, answer, history>>
    BY <1>1, <1>2 DEF CallSubmit, LockToSend, RefuseClosed, SendFails, CallFinish,
                      DropSender, SetClosed, TypeOK, sender
  <2> QED
    BY <1>1, <2>2, <2>3 DEF TypeOK, coordinator, history
<1>3. ASSUME NEW p \in Producers, Send(p)
      PROVE  TypeOK'
  <2>1. /\ pc' \in [Clients -> ProducerLabels \cup ConsumerLabels \cup OwnerLabels]
        /\ \A q \in Producers : pc'[q] \in ProducerLabels
        /\ \A c \in Consumers : pc'[c] \in ConsumerLabels
        /\ pc'[Owner] \in OwnerLabels
    BY <1>1, <1>3, PcType DEF Clients, Send, Goto, ProducerLabels
  <2>2. inq' \in Seq(Nat) /\ accepted' \in Nat
    BY <1>1, <1>3, AcceptType DEF Send
  <2> QED
    BY <1>1, <1>3, <2>1, <2>2 DEF TypeOK, Send, coordinator
<1>4. ASSUME NEW p \in Producers, TrySend(p) \/ TrySendFails(p)
      PROVE  TypeOK'
  <2>1. inq' \in Seq(Nat) /\ accepted' \in Nat /\ reply' \in {"ok", "closed"}
    <3>1. CASE TrySend(p)
      BY <1>1, <3>1, AcceptType DEF TrySend
    <3>2. CASE TrySendFails(p)
      BY <1>1, <3>2 DEF TrySendFails, TypeOK, history
    <3> QED
      BY <1>4, <3>1, <3>2
  <2>2. UNCHANGED <<sender, outq, coordinator, pc, answer, got>>
    BY <1>4 DEF TrySend, TrySendFails, history
  <2> QED
    BY <1>1, <2>1, <2>2 DEF TypeOK, sender, coordinator
<1>5. ASSUME NEW c \in Consumers, CallNext(c) \/ NextData(c) \/ NextEnd(c)
      PROVE  TypeOK'
  <2>1. /\ pc' \in [Clients -> ProducerLabels \cup ConsumerLabels \cup OwnerLabels]
        /\ \A q \in Producers : pc'[q] \in ProducerLabels
        /\ \A d \in Consumers : pc'[d] \in ConsumerLabels
        /\ pc'[Owner] \in OwnerLabels
    BY <1>1, <1>5, PcType DEF Clients, CallNext, NextData, NextEnd, Goto, ConsumerLabels
  <2>2. /\ outq' \in Seq(Nat) /\ got' \in Seq(Nat)
        /\ answer' \in {"none", "data", "empty", "end"}
    <3>1. CASE NextData(c)
      BY <1>1, <3>1, TakeHeadType DEF NextData
    <3>2. CASE CallNext(c) \/ NextEnd(c)
      BY <1>1, <3>2 DEF CallNext, NextEnd, SeeEnd, TypeOK, history
    <3> QED
      BY <1>5, <3>1, <3>2
  <2>3. UNCHANGED <<sender, inq, coordinator, reply, accepted>>
    BY <1>5 DEF CallNext, NextData, NextEnd, history
  <2> QED
    BY <1>1, <2>1, <2>2, <2>3 DEF TypeOK, sender, coordinator
<1>6. ASSUME NEW c \in Consumers, TryNextData(c) \/ TryNextEnd(c) \/ TryNextEmpty(c)
      PROVE  TypeOK'
  <2>1. /\ outq' \in Seq(Nat) /\ got' \in Seq(Nat)
        /\ answer' \in {"none", "data", "empty", "end"}
    <3>1. CASE TryNextData(c)
      BY <1>1, <3>1, TakeHeadType DEF TryNextData
    <3>2. CASE TryNextEnd(c) \/ TryNextEmpty(c)
      BY <1>1, <3>2 DEF TryNextEnd, TryNextEmpty, SeeEnd, TypeOK, history
    <3> QED
      BY <1>6, <3>1, <3>2
  <2>2. UNCHANGED <<sender, inq, coordinator, pc, reply, accepted>>
    BY <1>6 DEF TryNextData, TryNextEnd, TryNextEmpty, history
  <2> QED
    BY <1>1, <2>1, <2>2 DEF TypeOK, sender, coordinator
<1>7. CASE BeginDrop \/ Join
  <2>1. /\ pc' \in [Clients -> ProducerLabels \cup ConsumerLabels \cup OwnerLabels]
        /\ \A q \in Producers : pc'[q] \in ProducerLabels
        /\ \A c \in Consumers : pc'[c] \in ConsumerLabels
        /\ pc'[Owner] \in OwnerLabels
    BY <1>1, <1>7, PcType DEF Clients, BeginDrop, Join, Goto, OwnerLabels
  <2>2. outq' \in Seq(Nat) /\ txOpen' \in BOOLEAN
    BY <1>1, <1>7, EmptySeq DEF BeginDrop, Join, CloseInput, TypeOK, sender
  <2>3. UNCHANGED <<txLock, closed, inq, coordinator, reply, answer, history>>
    BY <1>7 DEF BeginDrop, Join, sender
  <2> QED
    BY <1>1, <2>1, <2>2, <2>3 DEF TypeOK, coordinator, history
<1>8. CASE Receive
  <2>1. /\ inq' \in Seq(Nat) /\ buffer' \in Seq(Nat) /\ Len(buffer') = Len(buffer) + 1
        /\ Len(buffer) \in Nat
    BY <1>1, <1>8, HeadTailProperties, AppendProperties DEF Receive, TypeOK
  <2>2. Len(buffer') <= Batch /\ sent <= Len(buffer')
    BY <1>1, <1>8, <2>1 DEF Receive, LoopInv, TypeOK
  <2>3. cpc' \in CoordinatorLabels
    BY <1>8 DEF Receive, FillOrDecrypt, CoordinatorLabels
  <2> QED
    BY <1>1, <1>8, <2>1, <2>2, <2>3 DEF Receive, TypeOK, sender, clients, history
<1>9. CASE IdleFirst \/ IdleMore \/ Disconnect \/ Decrypt
  <2>1. cpc' \in CoordinatorLabels /\ inputOpen' \in BOOLEAN
    BY <1>1, <1>9 DEF IdleFirst, IdleMore, Disconnect, Decrypt, LoopHead, CoordinatorLabels,
                      TypeOK
  <2>2. UNCHANGED <<sender, inq, outq, buffer, sent, clients, history>>
    BY <1>9 DEF IdleFirst, IdleMore, Disconnect, Decrypt
  <2> QED
    BY <1>1, <2>1, <2>2 DEF TypeOK, sender, clients, history
<1>10. CASE Panic
  <2>1. sent = 0 /\ <<>> \in Seq(Nat) /\ Len(<<>>) = 0
    BY <1>1, <1>10, EmptySeq DEF Panic, LoopInv
  <2> QED
    BY <1>1, <1>10, <2>1 DEF Panic, TypeOK, CoordinatorLabels, sender, clients, history
<1>11. CASE SendOut
  <2>1. sent + 1 \in 1 .. Len(buffer) /\ Len(buffer) \in Nat
    BY <1>1, <1>11, LenProperties DEF SendOut, LoopInv, TypeOK
  <2>2. outq' \in Seq(Nat)
    BY <1>1, <1>11, <2>1, ElementOfSeq, AppendProperties DEF SendOut, TypeOK
  <2>3. /\ buffer' \in Seq(Nat) /\ Len(buffer') <= Batch
        /\ sent' \in Nat /\ sent' <= Len(buffer')
        /\ cpc' \in CoordinatorLabels
    <3>1. CASE sent + 1 < Len(buffer)
      BY <1>1, <1>11, <2>1, <3>1 DEF SendOut, TypeOK
    <3>2. CASE ~(sent + 1 < Len(buffer))
      <4>1. buffer' = <<>> /\ sent' = 0 /\ cpc' \in {"first", "exited"}
        BY <1>11, <3>2 DEF SendOut, ClearBuffer, LoopHead
      <4>2. <<>> \in Seq(Nat) /\ Len(<<>>) = 0
        BY EmptySeq
      <4> QED
        BY <4>1, <4>2 DEF CoordinatorLabels
    <3> QED
      BY <3>1, <3>2
  <2> QED
    BY <1>1, <1>11, <2>2, <2>3 DEF SendOut, TypeOK, sender, clients, history
<1>12. CASE UNCHANGED vars
  BY <1>1, <1>12 DEF vars, TypeOK
<1> QED
  BY <1>2, <1>3, <1>4, <1>5, <1>6, <1>7, <1>8, <1>9, <1>10, <1>11, <1>12
     DEF Next, ProducerStep, ConsumerStep, Coordinator

-----------------------------------------------------------------------------
(* What the queues hold. *)

\* A step that moves no sample.
LEMMA QuietData ==
  ASSUME SInv, UNCHANGED <<inq, outq, buffer, sent, history>>,
         pc[Owner] = "dropped" => pc'[Owner] = "dropped",
         cpc = "panicked" => cpc' = "panicked"
  PROVE  InOrder' /\ NothingLost' /\ CountInv'
<1>1. Delivered' = Delivered /\ Pending' = Pending
  BY DEF Delivered, Pending, history
<1>2. InOrder'
  BY DEF SInv, InOrder, history, Follows
<1>3. NothingLost'
  BY <1>1 DEF SInv, NothingLost, history, Follows
<1> QED
  BY <1>1, <1>2, <1>3 DEF SInv, CountInv, history

\* The sample that enters the channel in is the next in the row.
LEMMA AcceptData ==
  ASSUME SInv, Accept, UNCHANGED <<outq, buffer, sent, cpc, got>>,
         pc[Owner] = "dropped" <=> pc'[Owner] = "dropped"
  PROVE  InOrder' /\ NothingLost' /\ CountInv'
<1> USE DEF Delivered, Pending
<1>1. TypeOK /\ InOrder /\ NothingLost /\ CountInv
  BY DEF SInv
<1>2. /\ Len(got) \in Nat /\ Len(outq) \in Nat /\ Len(buffer) \in Nat /\ Len(inq) \in Nat
      /\ accepted \in Nat /\ sent \in Nat
  BY <1>1, LenProperties DEF TypeOK
<1>3. InOrder'
  BY <1>1 DEF InOrder, Follows
<1>4. CountInv'
  BY <1>1, <1>2 DEF CountInv, Accept
<1>5. ASSUME pc'[Owner] # "dropped"
      PROVE  /\ Follows(buffer, Delivered - sent)'
             /\ Follows(inq, Delivered + Len(buffer) - sent)'
             /\ (accepted = Delivered + Pending)'
  <2>1. /\ Follows(buffer, Delivered - sent)
        /\ Follows(inq, Delivered + Len(buffer) - sent)
        /\ accepted = Delivered + Pending
    BY <1>1, <1>5 DEF NothingLost, Accept, CoordinatorGone
  <2>2. /\ Len(inq') = Len(inq) + 1
        /\ Follows(inq', Delivered + Len(buffer) - sent)
    BY <1>1, <1>2, <2>1, FollowsAppend DEF Accept, TypeOK
  <2> QED
    BY <1>2, <2>1, <2>2 DEF Accept, Follows
<1> QED
  BY <1>3, <1>4, <1>5 DEF NothingLost

\* The plaintext a receiver takes is the next in the row.
LEMMA TakeData ==
  ASSUME SInv, TakeHead, pc[Owner] # "dropped",
         UNCHANGED <<inq, buffer, sent, cpc, accepted>>
  PROVE  InOrder' /\ NothingLost' /\ CountInv'
<1>1. TypeOK /\ InOrder /\ NothingLost /\ CountInv
  BY DEF SInv
<1>2. /\ Len(got) \in Nat /\ Len(outq) \in Nat /\ Len(buffer) \in Nat /\ Len(inq) \in Nat
      /\ accepted \in Nat /\ sent \in Nat
  BY <1>1, LenProperties DEF TypeOK
<1>3. /\ Head(outq) = Len(got) + 1 /\ Head(outq) \in Nat
      /\ Len(outq') = Len(outq) - 1
      /\ Follows(outq', Len(got) + 1)
  BY <1>1, <1>2, FollowsTail DEF InOrder, TakeHead, TypeOK
<1>4. Len(got') = Len(got) + 1 /\ Follows(got', 0)
  BY <1>1, <1>2, <1>3, FollowsAppend DEF InOrder, TakeHead, TypeOK
<1>5. Delivered' = Delivered
  BY <1>2, <1>3, <1>4 DEF Delivered
<1>6. InOrder'
  BY <1>3, <1>4 DEF InOrder
<1>7. CountInv'
  BY <1>1, <1>5 DEF CountInv
<1>8. NothingLost'
  BY <1>1, <1>5 DEF NothingLost, Pending, Follows
<1> QED
  BY <1>6, <1>7, <1>8

\* From the channel in to the buffer.
LEMMA ReceiveData ==
  ASSUME SInv, Receive
  PROVE  InOrder' /\ NothingLost' /\ CountInv'
<1>1. TypeOK /\ InOrder /\ NothingLost /\ CountInv
  BY DEF SInv
<1>2. /\ Len(got) \in Nat /\ Len(outq) \in Nat /\ Len(buffer) \in Nat /\ Len(inq) \in Nat
      /\ accepted \in Nat /\ sent \in Nat
  BY <1>1, LenProperties DEF TypeOK
<1>3. Delivered' = Delivered /\ Delivered \in Nat
  BY <1>2 DEF Receive, Delivered, history
<1>4. InOrder' /\ CountInv'
  BY <1>1, <1>3 DEF InOrder, CountInv, Receive, clients, history, Follows
<1>5. ASSUME pc[Owner] # "dropped"
      PROVE  NothingLost'
  <2>1. /\ Follows(buffer, Delivered - sent)
        /\ Follows(inq, Delivered + Len(buffer) - sent)
        /\ accepted = Delivered + Pending
    BY <1>1, <1>5 DEF NothingLost, Receive
  <2>2. /\ Head(inq) = Delivered + Len(buffer) - sent + 1 /\ Head(inq) \in Nat
        /\ Len(inq') = Len(inq) - 1
        /\ Follows(inq', Delivered + Len(buffer) - sent + 1)
    BY <1>1, <1>2, <1>3, <2>1, FollowsTail DEF Receive, TypeOK
  <2>3. Len(buffer') = Len(buffer) + 1 /\ Follows(buffer', Delivered - sent)
    <3>1. Delivered - sent \in Int /\ Head(inq) = (Delivered - sent) + Len(buffer) + 1
      BY <1>2, <1>3, <2>2
    <3> QED
      BY <1>1, <2>1, <2>2, <3>1, FollowsAppend DEF Receive, TypeOK
  <2>4. Delivered + Len(buffer') - sent = Delivered + Len(buffer) - sent + 1
    BY <1>2, <1>3, <2>3
  <2>5. sent' = sent /\ accepted' = accepted
    BY DEF Receive, history
  <2>6. Pending' = Pending
    BY <1>2, <2>2, <2>3, <2>5 DEF Pending
  <2> QED
    BY <1>3, <2>1, <2>2, <2>3, <2>4, <2>5, <2>6 DEF NothingLost
<1> QED
  BY <1>4, <1>5 DEF NothingLost, Receive, clients

\* From the buffer to the channel out; the buffer goes with its last sample.
LEMMA SendOutData ==
  ASSUME SInv, SendOut
  PROVE  InOrder' /\ NothingLost' /\ CountInv'
<1>1. TypeOK /\ InOrder /\ NothingLost /\ CountInv /\ LoopInv /\ DropInv
  BY DEF SInv
<1>2. /\ Len(got) \in Nat /\ Len(outq) \in Nat /\ Len(buffer) \in Nat /\ Len(inq) \in Nat
      /\ accepted \in Nat /\ sent \in Nat /\ DOMAIN buffer = 1 .. Len(buffer)
  BY <1>1, LenProperties DEF TypeOK
<1>3. /\ Delivered \in Nat /\ cpc = "send" /\ sent < Len(buffer)
      /\ pc[Owner] # "dropped" /\ UNCHANGED <<pc, got, inq, accepted>>
  BY <1>1, <1>2 DEF SendOut, LoopInv, DropInv, CoordinatorGone, clients, history, Delivered
<1>4. /\ Follows(buffer, Delivered - sent)
      /\ Follows(inq, Delivered + Len(buffer) - sent)
      /\ accepted = Delivered + Pending
  BY <1>1, <1>3 DEF NothingLost
<1>5. buffer[sent + 1] = Len(got) + Len(outq) + 1
  BY <1>2, <1>3, <1>4 DEF Follows, Delivered
<1>6. Len(outq') = Len(outq) + 1 /\ Follows(outq', Len(got))
  <2>1. Len(got) + Len(outq) + 1 \in Nat /\ Len(got) \in Int
    BY <1>2
  <2> QED
    BY <1>1, <1>3, <1>5, <2>1, FollowsAppend DEF SendOut, InOrder, TypeOK
<1>7. Delivered' = Delivered + 1
  BY <1>2, <1>3, <1>6 DEF Delivered
<1>8. InOrder'
  BY <1>1, <1>3, <1>6 DEF InOrder, Follows
<1>9. Pending >= 1 /\ Pending \in Int
  BY <1>2, <1>3 DEF Pending
<1>10. CountInv'
  BY <1>2, <1>3, <1>4, <1>7, <1>9 DEF CountInv
<1>11. CASE sent + 1 < Len(buffer)
  <2>1. sent' = sent + 1 /\ buffer' = buffer
    BY <1>11 DEF SendOut
  <2>2. Delivered' - sent' = Delivered - sent /\ Pending' = Pending - 1
    BY <1>2, <1>3, <1>7, <2>1 DEF Pending
  <2>3. Delivered' + Len(buffer') - sent' = Delivered + Len(buffer) - sent
    BY <1>2, <1>3, <1>7, <2>1
  <2>4. accepted' = Delivered' + Pending'
    BY <1>2, <1>3, <1>4, <1>7, <1>9, <2>2
  <2>5. Follows(buffer', Delivered' - sent')
    BY <1>4, <2>1, <2>2
  <2>6. Follows(inq', Delivered' + Len(buffer') - sent')
    BY <1>3, <1>4, <2>3
  <2> QED
    BY <1>8, <1>10, <2>4, <2>5, <2>6 DEF NothingLost
<1>12. CASE ~(sent + 1 < Len(buffer))
  <2>1. sent' = 0 /\ buffer' = <<>> /\ Len(<<>>) = 0
    BY <1>12, EmptySeq DEF SendOut, ClearBuffer
  <2>2. Pending' = Pending - 1 /\ Pending = Len(inq) + 1
    BY <1>2, <1>3, <1>12, <2>1 DEF Pending
  <2>3. Delivered' + Len(buffer') - sent' = Delivered + Len(buffer) - sent
    BY <1>2, <1>3, <1>7, <1>12, <2>1
  <2>4. accepted' = Delivered' + Pending'
    BY <1>2, <1>3, <1>4, <1>7, <1>9, <2>2
  <2>5. Follows(buffer', Delivered' - sent')
    BY <2>1, FollowsEmpty
  <2>6. Follows(inq', Delivered' + Len(buffer') - sent')
    BY <1>3, <1>4, <2>3
  <2> QED
    BY <1>8, <1>10, <2>4, <2>5, <2>6 DEF NothingLost
<1> QED
  BY <1>11, <1>12

\* All steps.
LEMMA DataStep ==
  ASSUME SInv, [Next]_vars
  PROVE  InOrder' /\ NothingLost' /\ CountInv'
<1> USE ClientsAssumption
<1>1. TypeOK /\ LockInv /\ DropInv /\ LoopInv
  BY DEF SInv
<1>2. ASSUME NEW t \in Clients, NEW to, t # Owner, pc' = [pc EXCEPT ![t] = to]
      PROVE  pc'[Owner] = pc[Owner]
  BY <1>1, <1>2 DEF TypeOK
<1>3. ASSUME NEW p \in Producers,
             \/ CallSubmit(p) \/ LockToSend(p) \/ RefuseClosed(p) \/ SendFails(p)
             \/ TrySendFails(p) \/ CallFinish(p) \/ DropSender(p) \/ SetClosed(p)
      PROVE  InOrder' /\ NothingLost' /\ CountInv'
  <2>1. UNCHANGED <<inq, outq, buffer, sent, cpc, history>>
    BY <1>3 DEF CallSubmit, LockToSend, RefuseClosed, SendFails, TrySendFails, CallFinish,
                DropSender, SetClosed, coordinator
  <2>2. UNCHANGED pc \/ \E to : pc' = [pc EXCEPT ![p] = to]
    BY <1>3 DEF CallSubmit, LockToSend, RefuseClosed, SendFails, TrySendFails, CallFinish,
                DropSender, SetClosed, Goto
  <2> QED
    BY <1>2, <2>1, <2>2, QuietData DEF Clients
<1>4. ASSUME NEW p \in Producers, Send(p) \/ TrySend(p)
      PROVE  InOrder' /\ NothingLost' /\ CountInv'
  <2>1. Accept /\ UNCHANGED <<outq, buffer, sent, cpc, got>>
    BY <1>4 DEF Send, TrySend, coordinator
  <2>2. pc'[Owner] = pc[Owner]
    BY <1>2, <1>4 DEF Send, TrySend, Goto, Clients
  <2> QED
    BY <2>1, <2>2, AcceptData
<1>5. ASSUME NEW c \in Consumers,
             CallNext(c) \/ NextEnd(c) \/ TryNextEnd(c) \/ TryNextEmpty(c)
      PROVE  InOrder' /\ NothingLost' /\ CountInv'
  <2>1. UNCHANGED <<inq, outq, buffer, sent, cpc, history>>
    BY <1>5 DEF CallNext, NextEnd, TryNextEnd, TryNextEmpty, coordinator
  <2>2. UNCHANGED pc \/ \E to : pc' = [pc EXCEPT ![c] = to]
    BY <1>5 DEF CallNext, NextEnd, TryNextEnd, TryNextEmpty, Goto
  <2> QED
    BY <1>2, <2>1, <2>2, QuietData DEF Clients
<1>6. ASSUME NEW c \in Consumers, NextData(c) \/ TryNextData(c)
      PROVE  InOrder' /\ NothingLost' /\ CountInv'
  <2>1. TakeHead /\ UNCHANGED <<inq, buffer, sent, cpc, accepted>>
    BY <1>6 DEF NextData, TryNextData, coordinator
  <2>2. pc[Owner] # "dropped"
    BY <1>1, <1>6 DEF NextData, TryNextData, Goto, DropInv, InUse
  <2>3. pc'[Owner] = pc[Owner]
    BY <1>2, <1>6 DEF NextData, TryNextData, Goto, Clients
  <2> QED
    BY <2>1, <2>2, TakeData
<1>7. CASE BeginDrop
  BY <1>7, QuietData DEF BeginDrop, Goto, coordinator
<1>8. CASE Join
  <2>1. pc'[Owner] = "dropped"
    BY <1>1, <1>8 DEF Join, Goto, TypeOK, Clients
  <2> QED
    BY <1>8, <2>1 DEF Join, SInv, InOrder, NothingLost, CountInv, history, Follows
<1>9. CASE IdleFirst \/ IdleMore \/ Disconnect \/ Decrypt
  BY <1>9, QuietData DEF IdleFirst, IdleMore, Disconnect, Decrypt, clients
<1>10. CASE Panic
  BY <1>10 DEF Panic, SInv, InOrder, NothingLost, CountInv, Delivered, clients, history, Follows
<1>11. CASE UNCHANGED vars
  BY <1>11, QuietData DEF vars, history
<1> QED
  BY <1>3, <1>4, <1>5, <1>6, <1>7, <1>8, <1>9, <1>10, <1>11, ReceiveData, SendOutData
     DEF Next, ProducerStep, ConsumerStep, Coordinator

-----------------------------------------------------------------------------
(* Where the threads are. *)

LEMMA LockStep ==
  ASSUME SInv, TypeOK', [Next]_vars
  PROVE  LockInv' /\ DropInv'
<1> USE ClientsAssumption DEF LockInv, DropInv, InUse
<1>1. TypeOK /\ LockInv /\ DropInv
  BY DEF SInv
<1>2. ASSUME NEW p \in Producers, CallSubmit(p) \/ RefuseClosed(p) \/ CallFinish(p)
      PROVE  LockInv' /\ DropInv'
  BY <1>1, <1>2 DEF CallSubmit, RefuseClosed, CallFinish, Goto, TypeOK, Clients, sender,
                    coordinator, CoordinatorGone
<1>3. ASSUME NEW p \in Producers, LockToSend(p)
      PROVE  LockInv' /\ DropInv'
  BY <1>1, <1>3 DEF LockToSend, Goto, TypeOK, Clients, coordinator, CoordinatorGone
<1>4. ASSUME NEW p \in Producers, Send(p) \/ SendFails(p)
      PROVE  LockInv' /\ DropInv'
  BY <1>1, <1>4 DEF Send, SendFails, Goto, TypeOK, Clients, coordinator, CoordinatorGone
<1>5. ASSUME NEW p \in Producers, TrySend(p) \/ TrySendFails(p)
      PROVE  LockInv' /\ DropInv'
  BY <1>1, <1>5 DEF TrySend, TrySendFails, sender, coordinator, CoordinatorGone
<1>6. ASSUME NEW p \in Producers, DropSender(p)
      PROVE  LockInv' /\ DropInv'
  BY <1>1, <1>6 DEF DropSender, LockFree, Goto, TypeOK, Clients, coordinator, CoordinatorGone
<1>7. ASSUME NEW p \in Producers, SetClosed(p)
      PROVE  LockInv' /\ DropInv'
  BY <1>1, <1>7 DEF SetClosed, Goto, TypeOK, Clients, coordinator, CoordinatorGone
<1>8. ASSUME NEW c \in Consumers, CallNext(c) \/ NextData(c) \/ NextEnd(c)
      PROVE  LockInv' /\ DropInv'
  BY <1>1, <1>8 DEF CallNext, NextData, NextEnd, Goto, TypeOK, Clients, sender, coordinator,
                    CoordinatorGone
<1>9. ASSUME NEW c \in Consumers, TryNextData(c) \/ TryNextEnd(c) \/ TryNextEmpty(c)
      PROVE  LockInv' /\ DropInv'
  BY <1>1, <1>9 DEF TryNextData, TryNextEnd, TryNextEmpty, sender, coordinator,
                    CoordinatorGone
<1>10. CASE BeginDrop
  <2>1. \A t \in Producers \cup Consumers : pc[t] = "idle" /\ pc'[t] = "idle"
    BY <1>1, <1>10 DEF BeginDrop, Alone, Goto, TypeOK, Clients
  <2>2. txLock = NoThread
    BY <1>1, <2>1 DEF TypeOK
  <2>3. pc'[Owner] = "join"
    BY <1>1, <1>10 DEF BeginDrop, Goto, TypeOK, Clients
  <2> QED
    BY <1>1, <1>10, <2>1, <2>2, <2>3 DEF BeginDrop, CloseInput
<1>11. CASE Join
  <2>1. /\ pc[Owner] = "join" /\ pc'[Owner] = "dropped"
        /\ \A t \in Producers \cup Consumers : pc'[t] = pc[t]
    BY <1>1, <1>11 DEF Join, Goto, TypeOK, Clients
  <2> QED
    BY <1>1, <1>11, <2>1 DEF Join, sender, coordinator, CoordinatorGone
<1>12. CASE Coordinator
  <2>1. UNCHANGED <<sender, clients>> /\ ~CoordinatorGone
    BY <1>12 DEF Coordinator, Receive, IdleFirst, IdleMore, Disconnect, Decrypt, Panic,
                 SendOut, CoordinatorGone
  <2> QED
    BY <1>1, <2>1 DEF sender, clients
<1>13. CASE UNCHANGED vars
  BY <1>1, <1>13 DEF vars, CoordinatorGone
<1> QED
  BY <1>2, <1>3, <1>4, <1>5, <1>6, <1>7, <1>8, <1>9, <1>10, <1>11, <1>12, <1>13
     DEF Next, ProducerStep, ConsumerStep

\* LoopInv to PanicInv speak of the coordinator and of what it reads.
Loop == LoopInv /\ ClosedInv /\ RoomInv /\ PanicInv

LEMMA LoopStep ==
  ASSUME SInv, TypeOK', [Next]_vars
  PROVE  Loop'
<1> USE SizesAssumption DEF Loop, LoopInv, ClosedInv, RoomInv, PanicInv, CoordinatorGone
<1>1. TypeOK /\ LockInv /\ Loop
  BY DEF SInv
<1>2. /\ Len(inq) \in Nat /\ Len(buffer) \in Nat /\ Len(<<>>) = 0 /\ sent \in Nat
      /\ Capacity \in Nat
  BY <1>1, LenProperties, EmptySeq DEF TypeOK, Capacity
<1>3. ASSUME UNCHANGED <<inq, coordinator>>, ~txOpen => ~txOpen'
      PROVE  Loop'
  BY <1>1, <1>3 DEF coordinator, Capacity
<1>4. ASSUME NEW p \in Producers, Send(p) \/ TrySend(p)
      PROVE  Loop'
  <2>1. txOpen /\ txOpen' = txOpen
    BY <1>1, <1>4, ClientsAssumption DEF Send, TrySend, Goto, LockInv, sender
  <2>2. Len(inq') = Len(inq) + 1
    <3>1. Accept /\ accepted + 1 \in Nat /\ inq \in Seq(Nat)
      BY <1>1, <1>4 DEF Send, TrySend, TypeOK
    <3> QED
      BY <3>1, AppendProperties DEF Accept
  <2>3. Len(inq') <= Capacity'
    BY <1>2, <1>4, <2>2 DEF Send, TrySend, Accept, HasRoom, Capacity
  <2>4. UNCHANGED coordinator /\ ~CoordinatorGone
    BY <1>4 DEF Send, TrySend, Accept
  <2>5. ~CoordinatorGone'
    BY <2>4 DEF coordinator
  <2>6. LoopInv' /\ PanicInv'
    BY <1>1, <2>4, <2>5 DEF coordinator
  <2>7. ClosedInv'
    BY <1>1, <2>1, <2>4 DEF coordinator
  <2> QED
    BY <2>3, <2>6, <2>7
<1>5. CASE Receive
  <2>1. Len(inq') = Len(inq) - 1 /\ Len(buffer') = Len(buffer) + 1 /\ buffer' # <<>>
    <3>1. /\ inq \in Seq(Nat) /\ inq # <<>> /\ buffer \in Seq(Nat)
          /\ inq' = Tail(inq) /\ buffer' = Append(buffer, Head(inq))
      BY <1>1, <1>5 DEF Receive, TypeOK
    <3>2. Head(inq) \in Nat /\ Len(inq') = Len(inq) - 1
      BY <3>1, HeadTailProperties
    <3> QED
      BY <3>1, <3>2, AppendProperties
  <2>2. cpc' = IF Len(buffer) + 1 < Batch THEN "more" ELSE "decrypt"
    BY <1>5 DEF Receive, FillOrDecrypt
  <2>3. inputOpen /\ inputOpen' /\ sent' = 0
    BY <1>1, <1>5 DEF Receive
  <2> QED
    BY <1>1, <1>2, <1>5, <2>1, <2>2, <2>3 DEF Capacity
<1>6. CASE IdleFirst \/ IdleMore
  <2>1. /\ UNCHANGED <<sender, inq, buffer, inputOpen, sent>>
        /\ inputOpen /\ sent = 0 /\ Len(buffer) < Batch
        /\ cpc' = "more" \/ (cpc' = "first" /\ buffer = <<>>)
           \/ (cpc' = "decrypt" /\ buffer # <<>>)
    BY <1>1, <1>6 DEF IdleFirst, IdleMore, LoopHead
  <2> QED
    BY <1>1, <2>1 DEF sender, Capacity
<1>7. CASE Disconnect
  <2>1. /\ UNCHANGED <<sender, inq, buffer, sent>>
        /\ ~txOpen /\ inq = <<>> /\ ~inputOpen' /\ sent = 0
        /\ \/ cpc' = "exited" /\ buffer = <<>>
           \/ cpc' = "decrypt" /\ buffer # <<>>
    BY <1>1, <1>7 DEF Disconnect, Drained, LoopHead
  <2> QED
    BY <1>1, <2>1 DEF sender, Capacity
<1>8. CASE Decrypt
  <2>1. Len(buffer) > 0
    BY <1>1, <1>2, <1>8, EmptySeq DEF Decrypt, TypeOK
  <2> QED
    BY <1>1, <1>2, <1>8, <2>1 DEF Decrypt, sender, Capacity
<1>9. CASE Panic
  BY <1>1, <1>2, <1>9 DEF Panic, sender, Capacity
<1>10. CASE SendOut
  <2>1. UNCHANGED <<sender, inq, inputOpen>> /\ cpc = "send"
    BY <1>10 DEF SendOut
  <2>2. CASE sent + 1 < Len(buffer)
    BY <1>1, <1>2, <1>10, <2>1, <2>2 DEF SendOut, sender, Capacity
  <2>3. CASE ~(sent + 1 < Len(buffer))
    <3>1. /\ sent' = 0 /\ buffer' = <<>>
          /\ cpc' = IF inputOpen THEN "first" ELSE "exited"
      BY <1>10, <2>3 DEF SendOut, ClearBuffer, LoopHead
    <3> QED
      BY <1>1, <1>2, <2>1, <3>1 DEF sender, Capacity
  <2> QED
    BY <2>2, <2>3
<1>11. ASSUME NEW p \in Producers,
             \/ CallSubmit(p) \/ LockToSend(p) \/ RefuseClosed(p) \/ SendFails(p)
             \/ TrySendFails(p) \/ CallFinish(p) \/ DropSender(p) \/ SetClosed(p)
      PROVE  Loop'
  BY <1>3, <1>11 DEF CallSubmit, LockToSend, RefuseClosed, SendFails, TrySendFails,
                     CallFinish, DropSender, SetClosed, sender
<1>12. ASSUME NEW c \in Consumers,
              \/ CallNext(c) \/ NextData(c) \/ NextEnd(c)
              \/ TryNextData(c) \/ TryNextEnd(c) \/ TryNextEmpty(c)
      PROVE  Loop'
  BY <1>3, <1>12 DEF CallNext, NextData, NextEnd, TryNextData, TryNextEnd, TryNextEmpty,
                     sender
<1>13. CASE BeginDrop \/ Join
  BY <1>3, <1>13 DEF BeginDrop, CloseInput, Join, sender
<1>14. CASE UNCHANGED vars
  BY <1>3, <1>14 DEF vars, coordinator
<1> QED
  BY <1>4, <1>5, <1>6, <1>7, <1>8, <1>9, <1>10, <1>11, <1>12, <1>13, <1>14
     DEF Next, ProducerStep, ConsumerStep, Coordinator

\* Once a receiver has been told of the end nothing moves any more.
LEMMA EndStep ==
  ASSUME SInv, [Next]_vars
  PROVE  EndInv'
<1> USE DEF EndInv, CoordinatorGone
<1>1. /\ TypeOK /\ NothingLost /\ LockInv /\ DropInv /\ LoopInv /\ ClosedInv /\ EndInv
  BY DEF SInv
<1>2. ASSUME SeeEnd, InUse, UNCHANGED <<txOpen, outq, cpc, history>>
      PROVE  EndInv'
  <2>1. CASE cpc = "panicked"
    BY <1>2, <2>1 DEF SeeEnd
  <2>2. CASE cpc = "exited"
    <3>1. /\ ~inputOpen /\ buffer = <<>> /\ inq = <<>> /\ outq = <<>> /\ sent = 0 /\ ~txOpen
          /\ accepted = Delivered + Pending
      BY <1>1, <1>2, <2>2 DEF LoopInv, ClosedInv, NothingLost, SeeEnd, InUse
    <3>2. Len(got) \in Nat /\ Len(<<>>) = 0
      BY <1>1, LenProperties, EmptySeq DEF TypeOK
    <3> QED
      BY <1>2, <3>1, <3>2 DEF Delivered, Pending, history, SeeEnd
  <2> QED
    BY <1>2, <2>1, <2>2 DEF SeeEnd
<1>3. ASSUME NEW p \in Producers,
             \/ CallSubmit(p) \/ LockToSend(p) \/ RefuseClosed(p) \/ SendFails(p)
             \/ TrySendFails(p) \/ CallFinish(p) \/ DropSender(p) \/ SetClosed(p)
      PROVE  EndInv'
  BY <1>1, <1>3 DEF CallSubmit, LockToSend, RefuseClosed, SendFails, TrySendFails,
                    CallFinish, DropSender, SetClosed, sender, coordinator, history
<1>4. ASSUME NEW p \in Producers, Send(p) \/ TrySend(p)
      PROVE  EndInv'
  BY <1>1, <1>4 DEF Send, TrySend, Accept
<1>5. ASSUME NEW c \in Consumers, NextEnd(c) \/ TryNextEnd(c)
      PROVE  EndInv'
  <2>1. InUse /\ SeeEnd
    BY <1>1, <1>5 DEF NextEnd, TryNextEnd, Goto, DropInv
  <2> QED
    BY <1>2, <1>5, <2>1 DEF NextEnd, TryNextEnd, sender, coordinator
<1>6. ASSUME NEW c \in Consumers,
             CallNext(c) \/ NextData(c) \/ TryNextData(c) \/ TryNextEmpty(c)
      PROVE  EndInv'
  BY <1>1, <1>6 DEF CallNext, NextData, TryNextData, TryNextEmpty, TakeHead, sender,
                    coordinator, history
<1>7. CASE BeginDrop \/ Join
  BY <1>1, <1>7 DEF BeginDrop, CloseInput, Join, sender, coordinator, history
<1>8. CASE Coordinator
  BY <1>1, <1>8 DEF Coordinator, Receive, IdleFirst, IdleMore, Disconnect, Decrypt, Panic,
                    SendOut, clients
<1>9. CASE UNCHANGED vars
  BY <1>1, <1>9 DEF vars
<1> QED
  BY <1>3, <1>4, <1>5, <1>6, <1>7, <1>8, <1>9 DEF Next, ProducerStep, ConsumerStep

-----------------------------------------------------------------------------
(* The theorems. *)

LEMMA InitSInv == Init => SInv
<1> SUFFICES ASSUME Init PROVE SInv
  OBVIOUS
<1> USE ClientsAssumption, SizesAssumption
<1>1. <<>> \in Seq(Nat) /\ Len(<<>>) = 0 /\ Capacity \in Nat
  BY EmptySeq DEF Capacity
<1>2. \A t \in Clients : pc[t] = "idle"
  BY DEF Init
<1>3. TypeOK
  <2>1. /\ pc \in [Clients -> ProducerLabels \cup ConsumerLabels \cup OwnerLabels]
        /\ \A p \in Producers : pc[p] \in ProducerLabels
        /\ \A c \in Consumers : pc[c] \in ConsumerLabels
        /\ pc[Owner] \in OwnerLabels
    BY DEF Init, Clients, ProducerLabels, ConsumerLabels, OwnerLabels
  <2>2. /\ inq \in Seq(Nat) /\ outq \in Seq(Nat) /\ buffer \in Seq(Nat) /\ got \in Seq(Nat)
        /\ Len(buffer) = 0 /\ sent = 0 /\ accepted = 0
    BY <1>1 DEF Init
  <2>3. /\ txLock \in Producers \cup {NoThread} /\ txOpen \in BOOLEAN /\ closed \in BOOLEAN
        /\ cpc \in CoordinatorLabels /\ inputOpen \in BOOLEAN
        /\ reply \in {"none", "ok", "closed"} /\ answer \in {"none", "data", "empty", "end"}
    BY DEF Init, CoordinatorLabels
  <2> QED
    BY <2>1, <2>2, <2>3 DEF TypeOK
<1>4. Delivered = 0 /\ Pending = 0 /\ accepted = 0
  BY <1>1 DEF Init, Delivered, Pending
<1>5. InOrder /\ NothingLost /\ CountInv
  BY <1>1, <1>4, FollowsEmpty DEF Init, InOrder, NothingLost, CountInv
<1>6. LockInv /\ DropInv
  BY <1>2 DEF Init, LockInv, DropInv, InUse, Clients
<1>7. LoopInv /\ ClosedInv /\ RoomInv /\ PanicInv /\ EndInv
  BY <1>1 DEF Init, LoopInv, ClosedInv, RoomInv, PanicInv, EndInv, CoordinatorGone
<1> QED
  BY <1>3, <1>5, <1>6, <1>7 DEF SInv

\* SInv is an invariant of the stream (stream.rs), whatever the order in which
\* producers, receivers and the coordinator take their steps.
THEOREM StreamInvariance == Spec => []SInv
<1>1. SInv /\ [Next]_vars => SInv'
  BY TypeStep, DataStep, LockStep, LoopStep, EndStep DEF SInv, Loop
<1> QED
  BY <1>1, InitSInv, PTL DEF Spec

\* Every variable keeps its type and the coordinator's buffer never holds more
\* than a batch (stream.rs:156).
THEOREM StreamTypeCorrect == Spec => []TypeOK
<1>1. SInv => TypeOK
  BY DEF SInv
<1> QED
  BY <1>1, StreamInvariance, PTL

\* Plaintexts come out in submission order (stream.rs:5), for any number of
\* producers and receivers and even if the coordinator panics half-way.
THEOREM PlaintextsInOrder == Spec => []InOrder
<1>1. SInv => InOrder
  BY DEF SInv
<1> QED
  BY <1>1, StreamInvariance, PTL

\* Every accepted sample is in exactly one of the four places between submit
\* and next, in the order of acceptance.
THEOREM NothingIsLost == Spec => []NothingLost
<1>1. SInv => NothingLost
  BY DEF SInv
<1> QED
  BY <1>1, StreamInvariance, PTL

\* The producers are never more than three batches ahead of the decryptor:
\* a full channel (stream.rs:66) and a full buffer.
THEOREM LagIsBounded == Spec => []BoundedLag
<1>1. ASSUME SInv PROVE BoundedLag
  <2>1. /\ Len(inq) \in Nat /\ Len(inq) <= 2 * Batch
        /\ Len(buffer) \in Nat /\ Len(buffer) <= Batch
        /\ sent \in Nat /\ Batch \in Nat
    BY <1>1, LenProperties, SizesAssumption DEF SInv, TypeOK, RoomInv, Capacity
  <2> QED
    BY <2>1 DEF BoundedLag, Pending
<1> QED
  BY <1>1, StreamInvariance, PTL

\* After finish() (stream.rs:110) has set its flag nothing is accepted: the
\* mutex makes it wait for the submit that holds the sender.
THEOREM FinishIsFinal == Spec => FinishSeals
<1>1. SInv /\ [Next]_vars => [closed => UNCHANGED accepted]_vars
  <2> SUFFICES ASSUME SInv, Next, closed PROVE UNCHANGED accepted
    OBVIOUS
  <2>1. ~txOpen /\ \A p \in Producers : pc[p] # "send"
    BY ClientsAssumption DEF SInv, LockInv
  <2>2. ASSUME NEW p \in Producers
        PROVE  ~Send(p) /\ ~TrySend(p)
    BY <2>1 DEF Send, TrySend, Goto
  <2>3. ASSUME NEW p \in Producers,
               \/ CallSubmit(p) \/ LockToSend(p) \/ RefuseClosed(p) \/ SendFails(p)
               \/ TrySendFails(p) \/ CallFinish(p) \/ DropSender(p) \/ SetClosed(p)
        PROVE  UNCHANGED accepted
    BY <2>3 DEF CallSubmit, LockToSend, RefuseClosed, SendFails, TrySendFails, CallFinish,
                DropSender, SetClosed, history
  <2>4. ASSUME NEW c \in Consumers,
               \/ CallNext(c) \/ NextData(c) \/ NextEnd(c)
               \/ TryNextData(c) \/ TryNextEnd(c) \/ TryNextEmpty(c)
        PROVE  UNCHANGED accepted
    BY <2>4 DEF CallNext, NextData, NextEnd, TryNextData, TryNextEnd, TryNextEmpty, history
  <2>5. ASSUME Coordinator \/ BeginDrop \/ Join
        PROVE  UNCHANGED accepted
    BY <2>5 DEF Coordinator, Receive, IdleFirst, IdleMore, Disconnect, Decrypt, Panic,
                SendOut, BeginDrop, Join, history
  <2> QED
    BY <2>2, <2>3, <2>4, <2>5 DEF Next, ProducerStep, ConsumerStep
<1> QED
  BY <1>1, StreamInvariance, PTL DEF Spec, FinishSeals

\* If the pool never panics, next() reports the end (stream.rs:91) only when the
\* input is closed and every accepted sample has been received.
THEOREM EndIsHonest == ASSUME ~Fallible PROVE Spec => []EndMeansConsumed
<1>1. SInv => EndMeansConsumed
  BY DEF SInv, PanicInv, EndInv, EndMeansConsumed
<1> QED
  BY <1>1, StreamInvariance, PTL

\* A sample received is the next one of those accepted.
LEMMA TakeHeadDelivers ==
  ASSUME SInv, TakeHead, InUse, UNCHANGED <<txOpen, accepted>>
  PROVE  Ordered!Deliver
<1>1. /\ outq \in Seq(Nat) /\ outq # <<>> /\ Len(got) \in Nat /\ accepted \in Nat
      /\ Follows(outq, Len(got)) /\ Delivered <= accepted
  BY LenProperties DEF SInv, TypeOK, InOrder, CountInv, InUse, TakeHead
<1>2. Head(outq) = Len(got) + 1 /\ Len(outq) \in Nat \ {0}
  BY <1>1, FollowsTail
<1>3. Len(got) < accepted
  BY <1>1, <1>2 DEF Delivered
<1>4. answer # "end" /\ answer' # "end"
  BY DEF SInv, EndInv, TakeHead
<1> QED
  BY <1>2, <1>3, <1>4 DEF TakeHead, Ordered!Deliver

\* The end is told when everything has been received.
LEMMA SeeEndEnds ==
  ASSUME SInv, ~Fallible, SeeEnd, InUse, UNCHANGED <<txOpen, history>>
  PROVE  Ordered!End
<1>1. /\ cpc = "exited" /\ ~txOpen /\ inq = <<>> /\ buffer = <<>> /\ sent = 0 /\ outq = <<>>
      /\ accepted = Delivered + Pending /\ Len(got) \in Nat /\ Len(<<>>) = 0
  BY LenProperties, EmptySeq
     DEF SInv, TypeOK, SeeEnd, CoordinatorGone, PanicInv, LoopInv, ClosedInv, NothingLost, InUse
<1>2. Len(got) = accepted
  BY <1>1 DEF Delivered, Pending
<1> QED
  BY <1>1, <1>2 DEF SeeEnd, Ordered!End, history

\* If the pool never panics the stream implements the ordered stream: plaintexts
\* in submission order, none missing, none twice, and an end that is the end.
THEOREM StreamImplementsOrdered == ASSUME ~Fallible PROVE Spec => OrderedSpec
<1>1. Init => Ordered!Init
  BY DEF Init, Ordered!Init
<1>2. SInv /\ [Next]_vars => [Ordered!Next]_Ordered!vars
  <2> SUFFICES ASSUME SInv, [Next]_vars PROVE [Ordered!Next]_Ordered!vars
    OBVIOUS
  <2> USE DEF Ordered!vars
  <2>1. ASSUME NEW p \in Producers, Send(p) \/ TrySend(p)
        PROVE  Ordered!Accept
    BY <2>1, ClientsAssumption
       DEF SInv, LockInv, Send, TrySend, Goto, Accept, sender, Ordered!Accept
  <2>2. ASSUME NEW p \in Producers,
               \/ CallSubmit(p) \/ LockToSend(p) \/ RefuseClosed(p) \/ SendFails(p)
               \/ TrySendFails(p) \/ CallFinish(p) \/ SetClosed(p)
        PROVE  UNCHANGED Ordered!vars
    BY <2>2 DEF CallSubmit, LockToSend, RefuseClosed, SendFails, TrySendFails, CallFinish,
                SetClosed, sender, history
  <2>3. ASSUME NEW p \in Producers, DropSender(p)
        PROVE  Ordered!Close
    BY <2>3 DEF DropSender, history, Ordered!Close
  <2>4. ASSUME NEW c \in Consumers, NextData(c) \/ TryNextData(c)
        PROVE  Ordered!Deliver
    <3>1. InUse /\ TakeHead /\ UNCHANGED <<txOpen, accepted>>
      BY <2>4 DEF NextData, TryNextData, Goto, SInv, DropInv, sender
    <3> QED
      BY <3>1, TakeHeadDelivers
  <2>5. ASSUME NEW c \in Consumers, NextEnd(c) \/ TryNextEnd(c)
        PROVE  Ordered!End
    <3>1. InUse /\ SeeEnd /\ UNCHANGED <<txOpen, history>>
      BY <2>5 DEF NextEnd, TryNextEnd, Goto, SInv, DropInv, sender
    <3> QED
      BY <3>1, SeeEndEnds
  <2>6. ASSUME NEW c \in Consumers, CallNext(c)
        PROVE  UNCHANGED Ordered!vars
    BY <2>6 DEF CallNext, sender, history
  <2>7. ASSUME NEW c \in Consumers, TryNextEmpty(c)
        PROVE  UNCHANGED Ordered!vars
    BY <2>7 DEF TryNextEmpty, SInv, EndInv, sender, history
  <2>8. CASE Coordinator
    BY <2>8 DEF Coordinator, Receive, IdleFirst, IdleMore, Disconnect, Decrypt, Panic,
                SendOut, sender, clients, history
  <2>9. CASE BeginDrop
    BY <2>9 DEF BeginDrop, CloseInput, history, Ordered!Close, Ordered!Next
  <2>10. CASE Join
    BY <2>10 DEF Join, sender, history
  <2>11. CASE UNCHANGED vars
    BY <2>11 DEF vars
  <2> QED
    BY <2>1, <2>2, <2>3, <2>4, <2>5, <2>6, <2>7, <2>8, <2>9, <2>10, <2>11
       DEF Next, ProducerStep, ConsumerStep, Ordered!Next
<1> QED
  BY <1>1, <1>2, StreamInvariance, PTL DEF Spec, OrderedSpec, Ordered!Spec
=============================================================================
