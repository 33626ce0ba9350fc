------------------------- MODULE StreamBindingProofs -------------------------
(***************************************************************************)
(* Proofs about StreamBinding, for any readers, sample lengths and first   *)
(* capacity.                                                               *)
(*                                                                         *)
(* The steps are of four kinds: a sample enters the stream (Submit), a     *)
(* plaintext leaves it and is returned (Give), a plaintext leaves it and   *)
(* is lost (NextNothing, Retry), and the rest.                             *)
(***************************************************************************)
EXTENDS StreamBinding, SequenceTheorems, TLAPS

\* The plaintext that leaves the stream is the next of those accepted.
LEMMA DeliverFacts ==
  ASSUME BindingInv, Ordered!Deliver
  PROVE  /\ Len(delivered) \in Nat /\ Upcoming \in 1 .. Len(size) /\ Upcoming \in Nat
         /\ size[Upcoming] \in Nat
         /\ delivered' \in Seq(Nat)
         /\ Len(delivered') = Upcoming
         /\ Upcoming = Len(delivered) + 1
         /\ Upcoming <= accepted
         /\ UNCHANGED <<accepted, open, ended>>
<1>1. /\ delivered \in Seq(Nat) /\ size \in Seq(Lengths) /\ Len(size) = accepted
      /\ Len(delivered) < accepted /\ accepted \in Nat
      /\ delivered' = Append(delivered, Len(delivered) + 1)
      /\ UNCHANGED <<accepted, open, ended>>
  <2>1. /\ delivered \in Seq(Nat) /\ size \in Seq(Lengths) /\ Len(size) = accepted
        /\ accepted \in Nat
    BY DEF BindingInv, BindingTypeOK
  <2> QED
    BY <2>1 DEF Ordered!Deliver
<1>2. Len(delivered) \in Nat /\ Upcoming = Len(delivered) + 1 /\ Upcoming \in 1 .. Len(size)
  BY <1>1, LenProperties DEF Upcoming
<1>3. size[Upcoming] \in Lengths
  BY <1>1, <1>2, ElementOfSeq
<1>4. delivered' \in Seq(Nat) /\ Len(delivered') = Len(delivered) + 1
  BY <1>1, <1>2, AppendProperties
<1>5. size[Upcoming] \in Nat
  BY <1>3, BindingAssumption
<1>6. Upcoming \in Nat /\ Upcoming <= accepted
  BY <1>1, <1>2
<1> QED
  BY <1>1, <1>2, <1>4, <1>5, <1>6

\* What is copied is less than the room only if it is the whole plaintext, and
\* fills a room at least as large as the first one otherwise.
LEMMA CopiedFacts ==
  ASSUME BindingInv, Ordered!Deliver, NEW r \in Readers
  PROVE  /\ Copied(r) \in Nat /\ room[r] \in Nat \ {0}
         /\ Fits(Copied(r), room[r]) => Copied(r) = size[Upcoming]
         /\ LooksLikeEnd(Copied(r)) => size[Upcoming] = 0
         /\ ~Fits(Copied(r), room[r]) => StartRoom <= size[Upcoming]
         /\ ~Fits(Copied(r), room[r]) => room[r] <= size[Upcoming]
<1>1. room[r] \in Nat \ {0} /\ StartRoom <= room[r] /\ StartRoom \in Nat
  BY BindingAssumption DEF BindingInv, BindingTypeOK, RoomInv
<1>2. size[Upcoming] \in Nat
  BY DeliverFacts
<1> QED
  BY <1>1, <1>2 DEF Copied, Fits, LooksLikeEnd

-----------------------------------------------------------------------------
(* A sample enters the stream. *)

LEMMA SubmitStep ==
  ASSUME BindingInv, NEW n \in Lengths, Submit(n)
  PROVE  BindingInv'
<1>1. /\ BindingTypeOK /\ TakenInv /\ RoomInv /\ WholePlaintexts /\ ShortOnesArrive
      /\ EndIsExplained
  BY DEF BindingInv
<1>2. /\ size \in Seq(Lengths) /\ Len(size) = accepted /\ accepted \in Nat
      /\ Len(delivered) \in Nat /\ Len(delivered) <= accepted
  BY <1>1, LenProperties DEF BindingTypeOK, TakenInv
<1>3. /\ open /\ accepted' = accepted + 1 /\ size' = Append(size, n)
      /\ UNCHANGED <<delivered, open, ended, readers>>
  BY DEF Submit, Ordered!Accept
<1>4. /\ size' \in Seq(Lengths) /\ Len(size') = accepted'
      /\ \A i \in 1 .. Len(delivered) : size'[i] = size[i]
  BY <1>2, <1>3, AppendProperties
<1>5. UNCHANGED <<call, room, result, received>>
  BY <1>3 DEF readers
<1>6. \A r \in Readers : Received(r)' = Received(r) /\ Received(r) \subseteq 1 .. Len(delivered)
  BY <1>1, <1>5 DEF Received, TakenInv
<1>7. BindingTypeOK'
  BY <1>1, <1>2, <1>3, <1>4, <1>5 DEF BindingTypeOK
<1>8. TakenInv' /\ RoomInv'
  BY <1>1, <1>2, <1>3, <1>5, <1>6 DEF TakenInv, RoomInv
<1>9. WholePlaintexts'
  <2>1. \A r \in Readers : \A k \in DOMAIN received[r] :
          received[r][k].sample \in 1 .. Len(delivered)
    BY <1>6 DEF Received
  <2> QED
    BY <1>1, <1>4, <1>5, <2>1 DEF WholePlaintexts
<1>10. ShortOnesArrive'
  BY <1>1, <1>3, <1>4, <1>6 DEF ShortOnesArrive
<1>11. EndIsExplained'
  BY <1>1, <1>3, <1>4, <1>5 DEF EndIsExplained
<1> QED
  BY <1>7, <1>8, <1>9, <1>10, <1>11 DEF BindingInv

-----------------------------------------------------------------------------
(* A plaintext leaves the stream and is returned. *)

Give(r) ==
  /\ Ordered!Deliver
  /\ Fits(Copied(r), room[r])
  /\ received' = [received EXCEPT ![r] =
                    Append(@, [sample |-> Upcoming, length |-> Copied(r)])]
  /\ Return(r, "data")
  /\ UNCHANGED <<size, room>>

\* What the readers have received after it.
LEMMA GiveReceived ==
  ASSUME BindingInv, NEW r \in Readers, Give(r)
  PROVE  /\ received' \in [Readers -> Seq([sample : Nat, length : Nat])]
         /\ \A s \in Readers : \A k \in DOMAIN received'[s] :
              \/ k \in DOMAIN received[s] /\ received'[s][k] = received[s][k]
              \/ received'[s][k] = [sample |-> Upcoming, length |-> size[Upcoming]]
         /\ \A s \in Readers : Received(s) \subseteq Received(s)'
         /\ Upcoming \in Received(r)'
<1> DEFINE e == [sample |-> Upcoming, length |-> Copied(r)]
<1>1. /\ received \in [Readers -> Seq([sample : Nat, length : Nat])]
      /\ received' = [received EXCEPT ![r] = Append(received[r], e)]
      /\ received[r] \in Seq([sample : Nat, length : Nat])
  BY DEF BindingInv, BindingTypeOK, Give
<1>2. e \in [sample : Nat, length : Nat] /\ Copied(r) = size[Upcoming]
  BY DeliverFacts, CopiedFacts DEF Give
<1> HIDE DEF e
<1>3. /\ Append(received[r], e) \in Seq([sample : Nat, length : Nat])
      /\ DOMAIN received[r] = 1 .. Len(received[r]) /\ Len(received[r]) \in Nat
      /\ DOMAIN Append(received[r], e) = 1 .. Len(received[r]) + 1
      /\ \A k \in 1 .. Len(received[r]) : Append(received[r], e)[k] = received[r][k]
      /\ Append(received[r], e)[Len(received[r]) + 1] = e
  <2>1. /\ Append(received[r], e) \in Seq([sample : Nat, length : Nat])
        /\ Len(Append(received[r], e)) = Len(received[r]) + 1
        /\ \A k \in 1 .. Len(received[r]) : Append(received[r], e)[k] = received[r][k]
        /\ Append(received[r], e)[Len(received[r]) + 1] = e
    BY <1>1, <1>2, AppendProperties
  <2> QED
    BY <1>1, <2>1, LenProperties
<1>4. received' \in [Readers -> Seq([sample : Nat, length : Nat])]
  BY <1>1, <1>3
<1>5. received'[r] = Append(received[r], e) /\ \A s \in Readers \ {r} : received'[s] = received[s]
  BY <1>1
<1>6. \A k \in DOMAIN received'[r] :
        \/ k \in DOMAIN received[r] /\ received'[r][k] = received[r][k]
        \/ received'[r][k] = e
  BY <1>3, <1>5
<1>7. \A s \in Readers : \A k \in DOMAIN received[s] :
        k \in DOMAIN received'[s] /\ received'[s][k] = received[s][k]
  <2>1. \A k \in DOMAIN received[r] :
          k \in DOMAIN received'[r] /\ received'[r][k] = received[r][k]
    BY <1>3, <1>5
  <2> QED
    BY <1>5, <2>1
<1>8. ASSUME NEW s \in Readers, NEW i \in Received(s)
      PROVE  i \in Received(s)'
  <2>1. PICK k \in DOMAIN received[s] : i = received[s][k].sample
    BY <1>8 DEF Received
  <2>2. k \in DOMAIN received'[s] /\ i = received'[s][k].sample
    BY <1>7, <2>1
  <2> QED
    BY <2>2 DEF Received
<1>9. Upcoming \in Received(r)'
  <2>1. Len(received[r]) + 1 \in DOMAIN received'[r] /\ received'[r][Len(received[r]) + 1] = e
    BY <1>3, <1>5
  <2>2. e.sample = Upcoming
    BY DEF e
  <2> QED
    BY <2>1, <2>2 DEF Received
<1>10. e = [sample |-> Upcoming, length |-> size[Upcoming]]
  BY <1>2 DEF e
<1> QED
  BY <1>4, <1>5, <1>6, <1>8, <1>9, <1>10

\* The rooms of the loops are as before, and so is what bounds them.
LEMMA RoomsKept ==
  ASSUME BindingInv, Ordered!Deliver, UNCHANGED size, NEW s \in Readers, room'[s] = room[s]
  PROVE  room'[s] = StartRoom \/ \E i \in 1 .. Len(delivered') : room'[s] <= 2 * size'[i]
<1>1. room[s] = StartRoom \/ \E i \in 1 .. Len(delivered) : room[s] <= 2 * size[i]
  BY DEF BindingInv, BindingTypeOK
<1>2. Len(delivered') = Len(delivered) + 1 /\ Len(delivered) \in Nat
  BY DeliverFacts
<1> QED
  BY <1>1, <1>2

LEMMA GiveStep ==
  ASSUME BindingInv, NEW r \in Readers, Give(r)
  PROVE  BindingInv'
<1>1. /\ BindingTypeOK /\ TakenInv /\ RoomInv /\ WholePlaintexts /\ ShortOnesArrive
      /\ EndIsExplained
  BY DEF BindingInv
<1>2. /\ Len(delivered) \in Nat /\ Upcoming = Len(delivered) + 1 /\ Upcoming <= accepted
      /\ Len(delivered') = Upcoming /\ delivered' \in Seq(Nat)
      /\ UNCHANGED <<accepted, open, ended, size, room>>
  BY DeliverFacts DEF Give
<1>3. /\ call' = [call EXCEPT ![r] = "none"] /\ result' = [result EXCEPT ![r] = "data"]
  BY DEF Give, Return
<1>4. BindingTypeOK'
  <2>1. /\ call' \in [Readers -> {"none", "next", "try"}]
        /\ result' \in [Readers -> {"none", "data", "empty", "end"}]
    BY <1>1, <1>3 DEF BindingTypeOK
  <2>2. received' \in [Readers -> Seq([sample : Nat, length : Nat])]
    BY GiveReceived
  <2>3. \A s \in Readers :
          room'[s] = StartRoom \/ \E i \in 1 .. Len(delivered') : room'[s] <= 2 * size'[i]
    BY <1>2, RoomsKept DEF Give
  <2> QED
    BY <1>1, <1>2, <2>1, <2>2, <2>3 DEF BindingTypeOK
<1>5. TakenInv'
  <2>1. ASSUME NEW s \in Readers, NEW k \in DOMAIN received'[s]
        PROVE  received'[s][k].sample \in 1 .. Len(delivered')
    <3>1. CASE k \in DOMAIN received[s] /\ received'[s][k] = received[s][k]
      <4>1. received[s][k].sample \in 1 .. Len(delivered)
        BY <1>1, <3>1 DEF TakenInv, Received
      <4> QED
        BY <1>2, <3>1, <4>1
    <3>2. CASE received'[s][k] = [sample |-> Upcoming, length |-> size[Upcoming]]
      <4>1. received'[s][k].sample = Upcoming
        BY <3>2
      <4> QED
        BY <1>2, <4>1
    <3> QED
      BY <3>1, <3>2, GiveReceived
  <2> QED
    BY <1>2, <2>1 DEF TakenInv, Received
<1>6. RoomInv'
  BY <1>1, <1>2 DEF RoomInv
<1>7. WholePlaintexts'
  <2>1. ASSUME NEW s \in Readers, NEW k \in DOMAIN received'[s]
        PROVE  received'[s][k].length = size[received'[s][k].sample]
    <3>1. CASE k \in DOMAIN received[s] /\ received'[s][k] = received[s][k]
      BY <1>1, <3>1 DEF WholePlaintexts
    <3>2. CASE received'[s][k] = [sample |-> Upcoming, length |-> size[Upcoming]]
      BY <3>2
    <3> QED
      BY <3>1, <3>2, GiveReceived
  <2> QED
    BY <1>2, <2>1 DEF WholePlaintexts
<1>8. ShortOnesArrive'
  <2>1. ASSUME NEW i \in 1 .. Len(delivered'), 0 < size[i], size[i] < StartRoom
        PROVE  \E s \in Readers : i \in Received(s)'
    <3>1. CASE i = Upcoming
      BY <3>1, GiveReceived
    <3>2. CASE i \in 1 .. Len(delivered)
      BY <1>1, <2>1, <3>2, GiveReceived DEF ShortOnesArrive
    <3> QED
      BY <1>2, <3>1, <3>2
  <2> QED
    BY <1>2, <2>1 DEF ShortOnesArrive
<1>9. EndIsExplained'
  <2> SUFFICES ASSUME NEW s \in Readers, result'[s] = "end"
               PROVE  \E i \in 1 .. Len(delivered') : size'[i] = 0
    BY DEF EndIsExplained
  <2>1. result[s] = "end"
    BY <1>1, <1>3 DEF BindingTypeOK
  <2>2. Len(delivered) # accepted
    BY <1>2, <1>1 DEF BindingTypeOK
  <2>3. \E i \in 1 .. Len(delivered) : size[i] = 0
    BY <1>1, <2>1, <2>2 DEF EndIsExplained
  <2> QED
    BY <1>2, <2>3
<1> QED
  BY <1>4, <1>5, <1>6, <1>7, <1>8, <1>9 DEF BindingInv

-----------------------------------------------------------------------------
(* A plaintext leaves the stream and is lost. *)

LEMMA LoseStep ==
  ASSUME BindingInv, NEW r \in Readers, NextNothing(r) \/ Retry(r)
  PROVE  BindingInv'
<1>1. /\ BindingTypeOK /\ TakenInv /\ RoomInv /\ WholePlaintexts /\ ShortOnesArrive
      /\ EndIsExplained
  BY DEF BindingInv
<1>2. Ordered!Deliver /\ UNCHANGED <<size, received>>
  BY DEF NextNothing, Retry
<1>3. /\ Len(delivered) \in Nat /\ Upcoming = Len(delivered) + 1 /\ Upcoming <= accepted
      /\ Len(delivered') = Upcoming /\ delivered' \in Seq(Nat) /\ size[Upcoming] \in Nat
      /\ UNCHANGED <<accepted, open, ended>>
  BY <1>2, DeliverFacts
<1>4. size[Upcoming] = 0 \/ StartRoom <= size[Upcoming]
  BY <1>2, CopiedFacts DEF NextNothing, Retry
<1>5. /\ call' \in [Readers -> {"none", "next", "try"}]
      /\ result' \in [Readers -> {"none", "data", "empty", "end"}]
  BY <1>1 DEF NextNothing, Retry, Return, BindingTypeOK
<1>6. ASSUME NEW s \in Readers
      PROVE  /\ room'[s] \in Nat \ {0} /\ StartRoom <= room'[s]
             /\ room'[s] = StartRoom \/ \E i \in 1 .. Len(delivered') : room'[s] <= 2 * size'[i]
  <2>1. room \in [Readers -> Nat \ {0}] /\ StartRoom <= room[s] /\ StartRoom \in Nat
    BY <1>1, BindingAssumption DEF BindingTypeOK, RoomInv
  <2>2. CASE room'[s] = room[s]
    BY <1>2, <2>1, <2>2, RoomsKept
  <2>3. CASE s = r /\ Retry(r)
    <3>1. room'[s] = 2 * room[s]
      BY <2>1, <2>3 DEF Retry, NextRoom
    <3>2. room[s] <= size[Upcoming]
      BY <1>2, <2>3, CopiedFacts DEF Retry
    <3>3. room'[s] <= 2 * size'[Upcoming] /\ Upcoming \in 1 .. Len(delivered')
      BY <1>2, <1>3, <2>1, <3>1, <3>2
    <3> QED
      BY <2>1, <3>1, <3>3
  <2> QED
    BY <2>1, <2>2, <2>3 DEF NextNothing, Retry
<1>7. room' \in [Readers -> Nat \ {0}]
  <2>1. room \in [Readers -> Nat \ {0}] /\ \A c \in Nat \ {0} : NextRoom(c) \in Nat \ {0}
    BY <1>1 DEF BindingTypeOK, NextRoom
  <2> QED
    BY <2>1 DEF NextNothing, Retry
<1>8. BindingTypeOK'
  BY <1>1, <1>2, <1>3, <1>5, <1>6, <1>7 DEF BindingTypeOK
<1>9. TakenInv' /\ RoomInv' /\ WholePlaintexts'
  <2>1. \A s \in Readers : Received(s)' = Received(s) /\ Received(s) \subseteq 1 .. Len(delivered)
    BY <1>1, <1>2 DEF Received, TakenInv
  <2>2. TakenInv'
    BY <1>3, <2>1 DEF TakenInv
  <2>3. RoomInv'
    BY <1>6 DEF RoomInv
  <2>4. WholePlaintexts'
    BY <1>1, <1>2 DEF WholePlaintexts
  <2> QED
    BY <2>2, <2>3, <2>4
<1>10. ShortOnesArrive'
  <2>1. ASSUME NEW i \in 1 .. Len(delivered'), 0 < size[i], size[i] < StartRoom
        PROVE  \E s \in Readers : i \in Received(s)
    <3>1. i # Upcoming
      BY <1>3, <1>4, <2>1, BindingAssumption
    <3>2. i \in 1 .. Len(delivered)
      BY <1>3, <3>1
    <3> QED
      BY <1>1, <2>1, <3>2 DEF ShortOnesArrive
  <2>2. \A s \in Readers : Received(s)' = Received(s)
    BY <1>2 DEF Received
  <2> QED
    BY <1>2, <2>1, <2>2 DEF ShortOnesArrive
<1>11. EndIsExplained'
  <2> SUFFICES ASSUME NEW s \in Readers, result'[s] = "end"
               PROVE  \E i \in 1 .. Len(delivered') : size'[i] = 0
    BY DEF EndIsExplained
  <2>1. CASE result[s] = "end"
    <3>1. Len(delivered) # accepted
      BY <1>1, <1>3 DEF BindingTypeOK
    <3>2. \E i \in 1 .. Len(delivered) : size[i] = 0
      BY <1>1, <2>1, <3>1 DEF EndIsExplained
    <3> QED
      BY <1>2, <1>3, <3>2
  <2>2. CASE NextNothing(r)
    <3>1. size[Upcoming] = 0
      BY <1>2, <2>2, CopiedFacts DEF NextNothing
    <3> QED
      BY <1>2, <1>3, <3>1
  <2> QED
    BY <2>1, <2>2 DEF NextNothing, Retry
<1> QED
  BY <1>8, <1>9, <1>10, <1>11 DEF BindingInv

-----------------------------------------------------------------------------
(* No sample enters or leaves the stream. *)

LEMMA QuietStep ==
  ASSUME BindingInv, UNCHANGED <<accepted, delivered, size, received>>,
         open' \in BOOLEAN, ended' \in BOOLEAN, ~open => ~open',
         call' \in [Readers -> {"none", "next", "try"}],
         result' \in [Readers -> {"none", "data", "empty", "end"}],
         room' \in [Readers -> Nat \ {0}],
         \A s \in Readers : room'[s] \in {room[s], StartRoom},
         \A s \in Readers :
           result'[s] = "end" => result[s] = "end" \/ (~open /\ Len(delivered) = accepted)
  PROVE  BindingInv'
<1>1. /\ BindingTypeOK /\ TakenInv /\ RoomInv /\ WholePlaintexts /\ ShortOnesArrive
      /\ EndIsExplained
  BY DEF BindingInv
<1>2. \A s \in Readers : Received(s)' = Received(s)
  BY DEF Received
<1>3. StartRoom \in Nat
  BY BindingAssumption
<1>4. BindingTypeOK'
  BY <1>1 DEF BindingTypeOK
<1>5. TakenInv' /\ RoomInv'
  BY <1>1, <1>2, <1>3 DEF TakenInv, RoomInv
<1>6. WholePlaintexts'
  BY <1>1 DEF WholePlaintexts
<1>7. ShortOnesArrive'
  BY <1>1, <1>2 DEF ShortOnesArrive
<1>8. EndIsExplained'
  BY <1>1 DEF EndIsExplained
<1> QED
  BY <1>4, <1>5, <1>6, <1>7, <1>8 DEF BindingInv

LEMMA BindingStep ==
  ASSUME BindingInv, [BindingNext]_bindingVars
  PROVE  BindingInv'
<1>1. /\ open \in BOOLEAN /\ ended \in BOOLEAN
      /\ call \in [Readers -> {"none", "next", "try"}]
      /\ result \in [Readers -> {"none", "data", "empty", "end"}]
      /\ room \in [Readers -> Nat \ {0}] /\ StartRoom \in Nat \ {0}
  BY BindingAssumption DEF BindingInv, BindingTypeOK
<1>2. CASE Finish
  BY <1>1, <1>2, QuietStep DEF Finish, Ordered!Close, readers
<1>3. ASSUME NEW r \in Readers, CallNext(r) \/ CallTryNext(r)
      PROVE  BindingInv'
  BY <1>1, <1>3, QuietStep DEF CallNext, CallTryNext, Begin, stream
<1>4. ASSUME NEW r \in Readers, NextEnd(r) \/ TryNextEnd(r)
      PROVE  BindingInv'
  <2>1. /\ UNCHANGED <<accepted, delivered, open, size, room, received>>
        /\ ~open /\ Len(delivered) = accepted /\ ended' = TRUE
        /\ call' = [call EXCEPT ![r] = "none"] /\ result' = [result EXCEPT ![r] = "end"]
    BY <1>4 DEF NextEnd, TryNextEnd, Ordered!End, Return
  <2> QED
    BY <1>1, <2>1, QuietStep
<1>5. ASSUME NEW r \in Readers, TryNextEmpty(r)
      PROVE  BindingInv'
  BY <1>1, <1>5, QuietStep DEF TryNextEmpty, Return, stream
<1>6. ASSUME NEW r \in Readers, NextData(r) \/ TryNextData(r)
      PROVE  BindingInv'
  BY <1>6, GiveStep DEF NextData, TryNextData, Give
<1>7. CASE UNCHANGED bindingVars
  BY <1>1, <1>7, QuietStep DEF bindingVars, stream, readers
<1> QED
  BY <1>2, <1>3, <1>4, <1>5, <1>6, <1>7, SubmitStep, LoseStep
     DEF BindingNext, Writer, NextStep, TryNextStep

LEMMA BindingStart == BindingInit => BindingInv
<1> SUFFICES ASSUME BindingInit PROVE BindingInv
  OBVIOUS
<1>1. /\ accepted = 0 /\ delivered = <<>> /\ open = TRUE /\ ended = FALSE /\ size = <<>>
      /\ call = [r \in Readers |-> "none"] /\ room = [r \in Readers |-> StartRoom]
      /\ result = [r \in Readers |-> "none"] /\ received = [r \in Readers |-> <<>>]
  BY DEF BindingInit, Ordered!Init
<1>2. /\ <<>> \in Seq(Nat) /\ <<>> \in Seq(Lengths) /\ Len(<<>>) = 0
      /\ <<>> \in Seq([sample : Nat, length : Nat]) /\ DOMAIN <<>> = {}
  BY EmptySeq
<1>3. StartRoom \in Nat \ {0}
  BY BindingAssumption
<1>4. BindingTypeOK
  <2>1. /\ received \in [Readers -> Seq([sample : Nat, length : Nat])]
        /\ room \in [Readers -> Nat \ {0}] /\ \A r \in Readers : room[r] = StartRoom
    BY <1>1, <1>2, <1>3
  <2> QED
    BY <1>1, <1>2, <2>1 DEF BindingTypeOK
<1>5. \A r \in Readers : received[r] = <<>> /\ Received(r) = {}
  BY <1>1, <1>2 DEF Received
<1>6. TakenInv /\ RoomInv
  BY <1>1, <1>2, <1>3, <1>5 DEF TakenInv, RoomInv
<1>7. WholePlaintexts
  BY <1>2, <1>5 DEF WholePlaintexts
<1>8. ShortOnesArrive
  BY <1>1, <1>2 DEF ShortOnesArrive
<1>9. EndIsExplained
  BY <1>1 DEF EndIsExplained
<1> QED
  BY <1>4, <1>6, <1>7, <1>8, <1>9 DEF BindingInv

-----------------------------------------------------------------------------
(* The theorems. *)

\* BindingInv is an invariant of the readers' loops over the FFI (ffi.rs:158),
\* for any readers, lengths of samples and first capacity.
THEOREM BindingInvariance == BindingSpec => []BindingInv
  BY BindingStart, BindingStep, PTL DEF BindingSpec

\* A plaintext an application gets is whole (ffi.rs:166 cuts what does not fit):
\* the loops take none for all of it that fills the room, whatever its length.
THEOREM PlaintextsAreWhole == BindingSpec => []WholePlaintexts
<1>1. BindingInv => WholePlaintexts
  BY DEF BindingInv
<1> QED
  BY <1>1, BindingInvariance, PTL

\* No plaintext shorter than the first capacity is lost, except the empty ones.
THEOREM ShortPlaintextsArrive == BindingSpec => []ShortOnesArrive
<1>1. BindingInv => ShortOnesArrive
  BY DEF BindingInv
<1> QED
  BY <1>1, BindingInvariance, PTL

\* An end that is told before the end has an empty sample behind it.
THEOREM EndHasAReason == BindingSpec => []EndIsExplained
<1>1. BindingInv => EndIsExplained
  BY DEF BindingInv
<1> QED
  BY <1>1, BindingInvariance, PTL

\* Every variable keeps its type, and the room of a loop stays within twice the
\* length of the longest plaintext.
THEOREM BindingTypeCorrect == BindingSpec => []BindingTypeOK
<1>1. BindingInv => BindingTypeOK
  BY DEF BindingInv
<1> QED
  BY <1>1, BindingInvariance, PTL
=============================================================================
