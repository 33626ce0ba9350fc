--------------------------- MODULE AsyncPumpProofs ---------------------------
(***************************************************************************)
(* Proofs about AsyncPump, for any size of the queue and of a chunk: the   *)
(* pump is a reader of StreamBinding, put_nowait always finds a place, and *)
(* every plaintext is handed over in its order, at most so many ahead of   *)
(* the application, and all of them before the iteration ends.             *)
(***************************************************************************)
EXTENDS AsyncPump, StreamBindingProofs, FiniteSetTheorems

\* A place of the queue is free, about to be filled, or taken.
Places == space + Len(scheduled) + Len(queue) = MaxQ

\* What the pump and the application are about to take is there.
InPlace ==
  /\ result[Pump] = "data" => received[Pump] # <<>>
  /\ consumer = "yield" => item # <<>>

PumpInv == BindingInv /\ TypeOK /\ Places /\ InPlace

-----------------------------------------------------------------------------
\* What the pump does to the stream is what a reader of StreamBinding may do, and
\* the event loop and the application leave the stream alone.
LEMMA StepReads == [Next]_vars => [BindingNext]_bindingVars
<1> SUFFICES ASSUME [Next]_vars PROVE [BindingNext]_bindingVars
  OBVIOUS
<1>1. Pump \in Readers
  BY PumpAssumption
<1>2. CASE PumpStep
  BY <1>1, <1>2
     DEF PumpStep, PumpCalls, PumpAppends, PumpBreaks, HandChunk, HandSentinel, BindingNext
<1>3. CASE Writer
  BY <1>3 DEF BindingNext
<1>4. CASE PutNowait \/ Application \/ Abandon
  BY <1>4 DEF PutNowait, Application, Get, Yield, Abandon
<1>5. CASE UNCHANGED vars
  BY <1>5 DEF vars
<1> QED
  BY <1>2, <1>3, <1>4, <1>5 DEF Next

\* An iteration reads the stream as StreamBinding does, so what is proved of its
\* readers holds of the pump: whole plaintexts, and none of the short ones lost.
THEOREM PumpImplementsReader == Spec => BindingSpec
<1>1. Init => BindingInit
  BY DEF Init
<1> QED
  BY <1>1, StepReads, PTL DEF Spec, BindingSpec

LEMMA Start == Init => PumpInv
<1> SUFFICES ASSUME Init PROVE PumpInv
  OBVIOUS
<1>1. BindingInv
  BY BindingStart DEF Init
<1>2. Len(<<>>) = 0 /\ <<>> \in Seq(Nat) /\ <<>> \in Seq(Seq(Nat))
  OBVIOUS
<1>3. MaxQ \in 0 .. MaxQ /\ 0 <= MaxQ /\ MaxQ + 0 + 0 = MaxQ
  BY PumpAssumption
<1>4. TypeOK
  BY <1>1, <1>2, <1>3 DEF Init, TypeOK, BindingInv, PumpLabels
<1>5. result[Pump] = "none"
  BY PumpAssumption DEF Init, BindingInit
<1> QED
  BY <1>1, <1>2, <1>3, <1>4, <1>5 DEF Init, PumpInv, Places, InPlace

\* A call that returns a plaintext has put one into the pump's history, and
\* nothing takes one out.
LEMMA ReturnedIsReceived ==
  ASSUME PumpInv, CallNext(Pump) \/ NextStep(Pump) \/ Writer
  PROVE  result'[Pump] = "data" => received'[Pump] # <<>>
<1>1. /\ Pump \in Readers /\ result \in [Readers -> {"none", "data", "empty", "end"}]
      /\ received \in [Readers -> Seq([sample : Nat, length : Nat])]
      /\ result[Pump] = "data" => received[Pump] # <<>>
  BY PumpAssumption DEF PumpInv, TypeOK, BindingTypeOK, InPlace
<1>2. CASE NextData(Pump)
  <2> DEFINE new == [sample |-> Upcoming, length |-> Copied(Pump)]
  <2>1. received' = [received EXCEPT ![Pump] = Append(received[Pump], new)]
    BY <1>2 DEF NextData
  <2> HIDE DEF new
  <2>2. received'[Pump] = Append(received[Pump], new)
    BY <2>1, <1>1
  <2>3. Append(received[Pump], new)[Len(received[Pump]) + 1] = new
        /\ Len(Append(received[Pump], new)) = Len(received[Pump]) + 1
        /\ Len(received[Pump]) \in Nat
    BY <1>1
  <2>4. Len(received'[Pump]) # 0
    BY <2>2, <2>3
  <2> QED
    BY <2>4, EmptySeq
<1>3. CASE NextNothing(Pump) \/ NextEnd(Pump)
  BY <1>1, <1>3 DEF NextNothing, NextEnd, Return
<1>4. CASE CallNext(Pump) \/ Retry(Pump) \/ Writer
  BY <1>1, <1>4 DEF CallNext, Begin, Retry, Writer, Submit, Finish, readers
<1> QED
  BY <1>2, <1>3, <1>4 DEF NextStep

-----------------------------------------------------------------------------
\* The arithmetic of the places: one is promised, filled, or given back.
LEMMA PlacesMove ==
  ASSUME NEW s \in 0 .. MaxQ, NEW a \in Nat, NEW b \in Nat, s + a + b = MaxQ, MaxQ \in Nat
  PROVE  /\ s > 0 => s - 1 \in 0 .. MaxQ /\ (s - 1) + (a + 1) + b = MaxQ
         /\ a > 0 => b + 1 <= MaxQ /\ s + (a - 1) + (b + 1) = MaxQ
         /\ b > 0 => /\ b - 1 <= MaxQ /\ s + 1 \in 0 .. MaxQ
                     /\ (s + 1) + a + (b - 1) = MaxQ
  OBVIOUS

\* The calls of the stream functions.
LEMMA CallStep ==
  ASSUME PumpInv, BindingInv',
         \/ PumpCalls
         \/ NextStep(Pump) /\ UNCHANGED <<pumpVars, consumerVars>>
         \/ Writer /\ UNCHANGED <<pumpVars, consumerVars>>
  PROVE  PumpInv'
<1>1. result'[Pump] = "data" => received'[Pump] # <<>>
  BY ReturnedIsReceived DEF PumpCalls
<1>2. UNCHANGED <<batch, space, scheduled, queue, consumerVars>> /\ at' \in {at, "read"}
  BY DEF PumpCalls, pumpVars
<1>3. TypeOK'
  BY <1>2 DEF PumpInv, TypeOK, PumpLabels, consumerVars, BindingInv
<1> QED
  BY <1>1, <1>2, <1>3 DEF PumpInv, Places, InPlace, consumerVars

\* The pump takes what its call returned.
LEMMA PumpTakes ==
  ASSUME PumpInv, BindingInv', PumpAppends \/ PumpBreaks
  PROVE  PumpInv'
<1>1. UNCHANGED <<bindingVars, space, scheduled, queue, consumerVars>>
  BY DEF PumpAppends, PumpBreaks
<1>2. UNCHANGED <<result, received, consumer, item, yielded>>
  BY <1>1 DEF bindingVars, readers, consumerVars
<1>3. at' \in PumpLabels
  BY DEF PumpAppends, PumpBreaks, AfterLoop, PumpLabels
<1>4. batch' \in Seq(Nat)
  <2>1. CASE PumpAppends
    <3>1. /\ received[Pump] \in Seq([sample : Nat, length : Nat])
          /\ received[Pump] # <<>> /\ batch \in Seq(Nat)
      BY <2>1, PumpAssumption DEF PumpAppends, PumpInv, InPlace, TypeOK, BindingTypeOK
    <3>2. Len(received[Pump]) \in 1 .. Len(received[Pump])
      BY <3>1
    <3>3. Last(received[Pump]) \in [sample : Nat, length : Nat]
      BY <3>1, <3>2, ElementOfSeq DEF Last
    <3>4. Last(received[Pump]).sample \in Nat
      BY <3>3
    <3> QED
      BY <2>1, <3>1, <3>4 DEF PumpAppends
  <2>2. CASE PumpBreaks
    BY <2>2 DEF PumpBreaks, PumpInv, TypeOK
  <2> QED
    BY <2>1, <2>2
<1>5. TypeOK'
  BY <1>1, <1>2, <1>3, <1>4 DEF PumpInv, TypeOK, BindingInv
<1> QED
  BY <1>1, <1>2, <1>5 DEF PumpInv, Places, InPlace

\* Handing over takes one place.
LEMMA HandStep ==
  ASSUME PumpInv, BindingInv', HandChunk \/ HandSentinel
  PROVE  PumpInv'
<1> DEFINE x == IF HandChunk THEN batch ELSE Sentinel
<1>1. /\ space > 0 /\ space' = space - 1 /\ scheduled' = Append(scheduled, x)
      /\ UNCHANGED <<bindingVars, queue, consumerVars>>
  BY DEF HandChunk, HandSentinel, Hand, HasSpace
<1>2. UNCHANGED <<result, received, consumer, item, yielded>>
  BY <1>1 DEF bindingVars, readers, consumerVars
<1>3. x \in Seq(Nat) /\ batch' \in Seq(Nat)
  <2>1. batch \in Seq(Nat) /\ <<>> \in Seq(Nat)
    BY DEF PumpInv, TypeOK
  <2> QED
    BY <2>1 DEF HandChunk, HandSentinel, Sentinel, NewBatch
<1>4. at' \in PumpLabels
  BY DEF HandChunk, HandSentinel, PumpLabels
<1> HIDE DEF x
<1>5. /\ scheduled \in Seq(Seq(Nat)) /\ queue \in Seq(Seq(Nat)) /\ space \in 0 .. MaxQ
      /\ space + Len(scheduled) + Len(queue) = MaxQ
  BY DEF PumpInv, TypeOK, Places
<1>6. scheduled' \in Seq(Seq(Nat)) /\ Len(scheduled') = Len(scheduled) + 1
  BY <1>1, <1>3, <1>5
<1>7. space' \in 0 .. MaxQ /\ space' + Len(scheduled') + Len(queue') = MaxQ
  <2>1. Len(scheduled) \in Nat /\ Len(queue) \in Nat /\ Len(queue') = Len(queue)
    BY <1>1, <1>5
  <2>2. space - 1 \in 0 .. MaxQ /\ (space - 1) + (Len(scheduled) + 1) + Len(queue) = MaxQ
    BY <2>1, <1>1, <1>5, PumpAssumption, PlacesMove
  <2> QED
    BY <2>1, <2>2, <1>1, <1>6
<1>8. TypeOK'
  BY <1>1, <1>2, <1>3, <1>4, <1>6, <1>7 DEF PumpInv, TypeOK, BindingInv
<1> QED
  BY <1>2, <1>7, <1>8 DEF PumpInv, Places, InPlace

\* A callback of the loop moves what was handed over into the queue.
LEMMA PutStep ==
  ASSUME PumpInv, BindingInv', PutNowait
  PROVE  PumpInv'
<1>1. /\ scheduled # <<>> /\ scheduled' = Tail(scheduled)
      /\ queue' = IF Len(queue) < MaxQ THEN Append(queue, Head(scheduled)) ELSE queue
      /\ UNCHANGED <<bindingVars, at, batch, space, consumerVars>>
  BY DEF PutNowait
<1>2. UNCHANGED <<result, received, consumer, item, yielded>>
  BY <1>1 DEF bindingVars, readers, consumerVars
<1>3. /\ scheduled \in Seq(Seq(Nat)) /\ queue \in Seq(Seq(Nat)) /\ space \in 0 .. MaxQ
      /\ space + Len(scheduled) + Len(queue) = MaxQ
  BY DEF PumpInv, TypeOK, Places
<1>4. /\ scheduled' \in Seq(Seq(Nat)) /\ Len(scheduled') = Len(scheduled) - 1
      /\ Head(scheduled) \in Seq(Nat) /\ Len(scheduled) \in Nat \ {0} /\ Len(queue) \in Nat
  BY <1>1, <1>3
<1>5. Len(queue) < MaxQ
  BY <1>3, <1>4, PumpAssumption
<1>6. queue' \in Seq(Seq(Nat)) /\ Len(queue') = Len(queue) + 1
  BY <1>1, <1>3, <1>4, <1>5
<1>7. /\ Len(queue') <= MaxQ /\ space' \in 0 .. MaxQ
      /\ space' + Len(scheduled') + Len(queue') = MaxQ
  <2>1. /\ Len(queue) + 1 <= MaxQ
        /\ space + (Len(scheduled) - 1) + (Len(queue) + 1) = MaxQ
    <3>1. Len(scheduled) \in Nat /\ Len(scheduled) > 0 /\ Len(queue) \in Nat /\ MaxQ \in Nat
      BY <1>4, PumpAssumption
    <3> QED
      BY <3>1, <1>3, PlacesMove
  <2>2. Len(queue') = Len(queue) + 1 /\ Len(scheduled') = Len(scheduled) - 1 /\ space' = space
    BY <1>1, <1>4, <1>6
  <2> QED
    BY <2>1, <2>2, <1>3
<1>8. TypeOK'
  BY <1>1, <1>2, <1>4, <1>6, <1>7 DEF PumpInv, TypeOK, BindingInv
<1> QED
  BY <1>2, <1>7, <1>8 DEF PumpInv, Places, InPlace

\* The application takes an item and gives its place back.
LEMMA GetStep ==
  ASSUME PumpInv, BindingInv', Get
  PROVE  PumpInv'
<1>1. /\ queue # <<>> /\ queue' = Tail(queue) /\ item' = Head(queue) /\ space' = space + 1
      /\ consumer' = IF Head(queue) = Sentinel THEN "done" ELSE "yield"
      /\ UNCHANGED <<bindingVars, at, batch, scheduled, yielded>>
  BY DEF Get, Release
<1>2. UNCHANGED <<result, received>>
  BY <1>1 DEF bindingVars, readers
<1>3. /\ scheduled \in Seq(Seq(Nat)) /\ queue \in Seq(Seq(Nat)) /\ space \in 0 .. MaxQ
      /\ space + Len(scheduled) + Len(queue) = MaxQ
  BY DEF PumpInv, TypeOK, Places
<1>4. /\ queue' \in Seq(Seq(Nat)) /\ Len(queue') = Len(queue) - 1 /\ Len(scheduled) \in Nat
      /\ item' \in Seq(Nat) /\ Len(queue) \in Nat \ {0}
  BY <1>1, <1>3
<1>5. /\ Len(queue') <= MaxQ /\ space' \in 0 .. MaxQ
      /\ space' + Len(scheduled') + Len(queue') = MaxQ
  <2>1. /\ Len(queue) - 1 <= MaxQ /\ space + 1 \in 0 .. MaxQ
        /\ (space + 1) + Len(scheduled) + (Len(queue) - 1) = MaxQ
    <3>1. Len(scheduled) \in Nat /\ Len(queue) > 0 /\ Len(queue) \in Nat /\ MaxQ \in Nat
      BY <1>4, PumpAssumption
    <3> QED
      BY <3>1, <1>3, PlacesMove
  <2>2. /\ Len(queue') = Len(queue) - 1 /\ Len(scheduled') = Len(scheduled)
        /\ space' = space + 1
    BY <1>1, <1>4
  <2> QED
    BY <2>1, <2>2
<1>6. consumer' \in {"done", "yield"} /\ (consumer' = "yield" => item' # <<>>)
  BY <1>1 DEF Sentinel
<1>7. TypeOK'
  BY <1>1, <1>4, <1>5, <1>6 DEF PumpInv, TypeOK, BindingInv
<1> QED
  BY <1>2, <1>5, <1>6, <1>7 DEF PumpInv, Places, InPlace

\* The application iterates over an item, or leaves.
LEMMA ApplicationStep ==
  ASSUME PumpInv, BindingInv', Yield \/ Abandon
  PROVE  PumpInv'
<1>1. UNCHANGED <<bindingVars, pumpVars>>
  BY DEF Yield, Abandon
<1>2. UNCHANGED <<result, received, at, batch, space, scheduled, queue>>
  BY <1>1 DEF bindingVars, readers, pumpVars
<1>3. /\ item' \in Seq(Nat) /\ yielded' \in Seq(Nat)
      /\ consumer' \in {"get", "yield", "done", "gone"}
      /\ consumer' = "yield" => item' # <<>>
  <2>1. CASE Yield
    <3>1. item \in Seq(Nat) /\ item # <<>> /\ yielded \in Seq(Nat)
      BY <2>1 DEF Yield, PumpInv, InPlace, TypeOK
    <3>2. Head(item) \in Nat /\ Tail(item) \in Seq(Nat)
      BY <3>1
    <3> QED
      BY <2>1, <3>1, <3>2 DEF Yield
  <2>2. CASE Abandon
    BY <2>2 DEF Abandon, PumpInv, TypeOK
  <2> QED
    BY <2>1, <2>2
<1>4. TypeOK'
  BY <1>2, <1>3 DEF PumpInv, TypeOK, BindingInv
<1> QED
  BY <1>2, <1>3, <1>4 DEF PumpInv, Places, InPlace

LEMMA PumpInvStep == PumpInv /\ [Next]_vars => PumpInv'
<1> SUFFICES ASSUME PumpInv, [Next]_vars PROVE PumpInv'
  OBVIOUS
<1>1. BindingInv'
  BY StepReads, BindingStep DEF PumpInv
<1>2. CASE PumpStep
  BY <1>1, <1>2, CallStep, PumpTakes, HandStep DEF PumpStep
<1>3. CASE PutNowait
  BY <1>1, <1>3, PutStep
<1>4. CASE Application
  BY <1>1, <1>4, GetStep, ApplicationStep DEF Application
<1>5. CASE Abandon
  BY <1>1, <1>5, ApplicationStep
<1>6. CASE Writer /\ UNCHANGED <<pumpVars, consumerVars>>
  BY <1>1, <1>6, CallStep
<1>7. CASE UNCHANGED vars
  BY <1>1, <1>7 DEF PumpInv, TypeOK, BindingInv, Places, InPlace, vars, bindingVars, readers,
                    pumpVars, consumerVars
<1> QED
  BY <1>2, <1>3, <1>4, <1>5, <1>6, <1>7 DEF Next

LEMMA PumpInvariance == Spec => []PumpInv
BY Start, PumpInvStep, PTL DEF Spec

\* Every variable has its type: the semaphore never counts more places than the
\* queue has.
THEOREM PumpTypeCorrect == Spec => []TypeOK
<1>1. PumpInv => TypeOK
  BY DEF PumpInv
<1> QED
  BY <1>1, PumpInvariance, PTL

\* put_nowait never raises QueueFull, whatever the size of the queue: the
\* semaphore counts exactly the places nobody has been promised.
THEOREM QueueNeverFull == Spec => []NeverQueueFull
<1>1. PumpInv => NeverQueueFull
  <2> SUFFICES ASSUME PumpInv PROVE NeverQueueFull
    OBVIOUS
  <2>1. /\ Len(queue) \in Nat /\ Len(scheduled) \in Nat /\ space \in 0 .. MaxQ
        /\ space + Len(scheduled) + Len(queue) = MaxQ
    BY DEF PumpInv, TypeOK, Places
  <2> QED
    BY <2>1, PumpAssumption DEF NeverQueueFull
<1> QED
  BY <1>1, PumpInvariance, PTL

-----------------------------------------------------------------------------
(* FlattenSeq, by induction over the length of a sequence. *)

\* Induction over the naturals, for a set: the library's own theorem takes an
\* operator.
LEMMA NatSetInduction ==
  ASSUME NEW S, 0 \in S, \A n \in Nat : n \in S => n + 1 \in S
  PROVE  Nat \subseteq S
<1> SUFFICES ASSUME NEW n \in Nat, n \notin S PROVE FALSE
  OBVIOUS
<1> DEFINE Below(k) == 0 .. k
           Counter == {k \in 0 .. n : k \notin S}
           T == {Below(k) : k \in Counter}
<1>1. IsFiniteSet(0 .. n)
  BY FS_Interval
<1>2. IsWellFoundedOn(StrictSubsetOrdering(0 .. n), SUBSET (0 .. n))
  BY <1>1, FS_StrictSubsetOrderingWellFounded, FS_FiniteSubsetsOfFinite
<1>3. Below(n) \in T /\ T \subseteq SUBSET (0 .. n)
  OBVIOUS
<1>4. \A U, V \in SUBSET (0 .. n) :
        U \subseteq V /\ U # V => <<U, V>> \in StrictSubsetOrdering(0 .. n)
  BY DEF StrictSubsetOrdering
<1>5. \E x \in T : \A y \in T : <<y, x>> \notin StrictSubsetOrdering(0 .. n)
  <2> HIDE DEF T
  <2> QED
    BY <1>2, <1>3, WFMin
<1>6. PICK k \in Counter : \A y \in T : <<y, Below(k)>> \notin StrictSubsetOrdering(0 .. n)
  BY <1>5
<1>7. k \in 1 .. n /\ k - 1 \in Nat /\ (k - 1) + 1 = k
  BY <1>6
<1>8. k - 1 \in Counter
  BY <1>6, <1>7
<1>9. Below(k - 1) \subseteq Below(k) /\ k \in Below(k) /\ k \notin Below(k - 1)
  BY <1>7
<1>10. Below(k - 1) \in T /\ Below(k) \in T
  BY <1>8
<1>11. <<Below(k - 1), Below(k)>> \in StrictSubsetOrdering(0 .. n)
  BY <1>3, <1>4, <1>9, <1>10
<1> QED
  BY <1>6, <1>10, <1>11

\* The library's ConcatAssociative, for all sequences at once.
LEMMA ConcatThree ==
  ASSUME NEW S
  PROVE  \A a, b, c \in Seq(S) : (a \o b) \o c = a \o (b \o c)
<1> SUFFICES ASSUME NEW a \in Seq(S), NEW b \in Seq(S), NEW c \in Seq(S)
             PROVE  (a \o b) \o c = a \o (b \o c)
  OBVIOUS
<1> QED
  BY ConcatAssociative, SMT

\* The same with a name for \o, which keeps the solver from taking it apart.
Cat(s, t) == s \o t
LEMMA CatThree ==
  ASSUME NEW S
  PROVE  \A a, b, c \in Seq(S) : Cat(Cat(a, b), c) = Cat(a, Cat(b, c))
  BY ConcatThree DEF Cat

\* g[i] is the concatenation of the first i sequences of s.
Flattens(g, s, n) == \A i \in 1 .. n : g[i] = IF i = 1 THEN s[i] ELSE g[i - 1] \o s[i]

LEMMA FlattenExists ==
  ASSUME NEW S, NEW s \in Seq(Seq(S)), Len(s) # 0
  PROVE  \E g \in [1 .. Len(s) -> Seq(S)] : Flattens(g, s, Len(s))
<1> DEFINE Exists(n) == \E g \in [1 .. n -> Seq(S)] : Flattens(g, s, n)
           N == {n \in Nat : n + 1 <= Len(s) => Exists(n + 1)}
<1>1. Len(s) \in Nat \ {0} /\ \A i \in 1 .. Len(s) : s[i] \in Seq(S)
  BY LenProperties, ElementOfSeq
<1>2. Exists(1)
  <2> DEFINE g == [i \in 1 .. 1 |-> s[1]]
  <2>1. g \in [1 .. 1 -> Seq(S)] /\ g[1] = s[1]
    BY <1>1
  <2>2. Flattens(g, s, 1)
    BY <2>1 DEF Flattens
  <2> QED
    BY <2>1, <2>2
<1>3. ASSUME NEW n \in Nat \ {0}, n + 1 <= Len(s), Exists(n)
      PROVE  Exists(n + 1)
  <2>1. PICK g \in [1 .. n -> Seq(S)] : Flattens(g, s, n)
    BY <1>3
  <2>2. PICK c \in Seq(S) : c = g[n] \o s[n + 1]
    <3>1. s[n + 1] \in Seq(S) /\ g[n] \in Seq(S)
      BY <1>1, <1>3, <2>1
    <3> QED
      BY <3>1, ConcatProperties
  <2> DEFINE h == [i \in 1 .. n + 1 |-> IF i = n + 1 THEN c ELSE g[i]]
  <2>3. h \in [1 .. n + 1 -> Seq(S)]
    BY <2>2
  <2>4. \A i \in 1 .. n : h[i] = g[i]
    OBVIOUS
  <2>5. n + 1 # 1 /\ (n + 1) - 1 = n /\ 1 \in 1 .. n /\ n \in 1 .. n
    OBVIOUS
  <2>6. h[n + 1] = c
    OBVIOUS
  <2> HIDE DEF h
  <2>7. Flattens(h, s, n + 1)
    <3> SUFFICES ASSUME NEW i \in 1 .. n + 1
                 PROVE  h[i] = IF i = 1 THEN s[i] ELSE h[i - 1] \o s[i]
      BY DEF Flattens
    <3>1. CASE i = n + 1
      BY <3>1, <2>2, <2>4, <2>5, <2>6
    <3>2. CASE i = 1
      BY <3>2, <2>1, <2>4, <2>5 DEF Flattens
    <3>3. CASE i \in 2 .. n
      <4>1. i \in 1 .. n /\ i - 1 \in 1 .. n /\ i # 1
        BY <3>3
      <4>2. g[i] = g[i - 1] \o s[i]
        BY <4>1, <2>1 DEF Flattens
      <4> QED
        BY <4>1, <4>2, <2>4
    <3> QED
      BY <3>1, <3>2, <3>3
  <2> QED
    BY <2>3, <2>7
<1> HIDE DEF Exists
<1>4. 0 \in N
  BY <1>2
<1>5. \A n \in Nat : n \in N => n + 1 \in N
  <2> SUFFICES ASSUME NEW n \in Nat, n \in N, (n + 1) + 1 <= Len(s)
               PROVE  Exists((n + 1) + 1)
    OBVIOUS
  <2>1. n + 1 <= Len(s) /\ n + 1 \in Nat \ {0}
    BY <1>1
  <2>2. Exists(n + 1)
    BY <2>1
  <2> QED
    BY <1>3, <2>1, <2>2
<1>6. Nat \subseteq N
  <2> HIDE DEF N
  <2> QED
    BY <1>4, <1>5, NatSetInduction
<1>7. Len(s) - 1 \in Nat /\ (Len(s) - 1) + 1 = Len(s)
  BY <1>1
<1>8. Exists(Len(s))
  <2>1. Len(s) - 1 \in N
    BY <1>6, <1>7
  <2> QED
    BY <2>1, <1>7
<1> QED
  BY <1>8 DEF Exists

\* There is only one.
LEMMA FlattensUnique ==
  ASSUME NEW s, NEW g, NEW h, NEW n \in Nat, n # 0,
         Flattens(g, s, n), Flattens(h, s, n)
  PROVE  g[n] = h[n]
<1> DEFINE N == {m \in Nat : m + 1 <= n => g[m + 1] = h[m + 1]}
<1>1. 0 \in N
  <2>1. g[1] = s[1] /\ h[1] = s[1]
    BY DEF Flattens
  <2> QED
    BY <2>1
<1>2. \A m \in Nat : m \in N => m + 1 \in N
  <2> SUFFICES ASSUME NEW m \in Nat, m \in N, (m + 1) + 1 <= n
               PROVE  g[(m + 1) + 1] = h[(m + 1) + 1]
    OBVIOUS
  <2>1. /\ (m + 1) + 1 \in 1 .. n
        /\ (m + 1) + 1 # 1 /\ ((m + 1) + 1) - 1 = m + 1 /\ m + 1 <= n
    OBVIOUS
  <2>2. g[m + 1] = h[m + 1]
    BY <2>1
  <2> HIDE DEF N
  <2>3. g[(m + 1) + 1] = g[m + 1] \o s[(m + 1) + 1] /\ h[(m + 1) + 1] = h[m + 1] \o s[(m + 1) + 1]
    BY <2>1 DEF Flattens
  <2> QED
    BY <2>1, <2>2, <2>3
<1>3. Nat \subseteq N
  <2> HIDE DEF N
  <2> QED
    BY <1>1, <1>2, NatSetInduction
<1>4. n - 1 \in N /\ (n - 1) + 1 = n
  BY <1>3
<1> QED
  BY <1>4

\* The same of what they end in, by a name of its own.
FlattensTo(g, s, n, y) == n \in Nat /\ n # 0 /\ Flattens(g, s, n) /\ y = g[n]
LEMMA FlattensOnce ==
  ASSUME NEW s, NEW g, NEW h, NEW n, NEW y, NEW z,
         FlattensTo(g, s, n, y), FlattensTo(h, s, n, z)
  PROVE  y = z
  BY FlattensUnique DEF FlattensTo

\* What FlattenSeq computes.
LEMMA FlattenDef ==
  ASSUME NEW S, NEW s \in Seq(Seq(S)), Len(s) # 0
  PROVE  \E g \in [1 .. Len(s) -> Seq(S)] : Flattens(g, s, Len(s)) /\ FlattenSeq(s) = g[Len(s)]
<1> DEFINE P(g) == g = [i \in 1 .. Len(s) |-> IF i = 1 THEN s[i] ELSE g[i - 1] \o s[i]]
           f == CHOOSE g : P(g)
<1>1. PICK g \in [1 .. Len(s) -> Seq(S)] : Flattens(g, s, Len(s))
  BY FlattenExists
<1>2. P(g)
  BY <1>1 DEF Flattens
<1>3. FlattenSeq(s) = f[Len(s)]
  BY DEF FlattenSeq
<1>4. P(f)
  <2> HIDE DEF P
  <2> QED
    BY <1>2
<1>5. Flattens(f, s, Len(s))
  <2> HIDE DEF f
  <2> QED
    BY <1>4 DEF Flattens
<1> HIDE DEF f, P
<1>6. Len(s) \in Nat
  BY LenProperties
<1>7. g[Len(s)] = f[Len(s)]
  BY <1>1, <1>5, <1>6, FlattensUnique
<1> QED
  BY <1>1, <1>3, <1>7

LEMMA FlattenEmpty == FlattenSeq(<<>>) = <<>>
<1>1. Len(<<>>) = 0
  OBVIOUS
<1> QED
  BY <1>1 DEF FlattenSeq

LEMMA FlattenType ==
  ASSUME NEW S, NEW s \in Seq(Seq(S))
  PROVE  FlattenSeq(s) \in Seq(S)
<1>1. CASE Len(s) = 0
  BY <1>1, FlattenEmpty, EmptySeq
<1>2. CASE Len(s) # 0
  <2>1. PICK g \in [1 .. Len(s) -> Seq(S)] : FlattenSeq(s) = g[Len(s)]
    BY <1>2, FlattenDef
  <2>2. Len(s) \in 1 .. Len(s)
    BY <1>2, LenProperties
  <2> QED
    BY <2>1, <2>2
<1> QED
  BY <1>1, <1>2

\* What is appended comes last.
LEMMA FlattenAppend ==
  ASSUME NEW S, NEW s \in Seq(Seq(S)), NEW x \in Seq(S)
  PROVE  FlattenSeq(Append(s, x)) = FlattenSeq(s) \o x
<1>0. PICK t, n : t = Append(s, x) /\ n = Len(s)
  OBVIOUS
<1>1. /\ t \in Seq(Seq(S)) /\ Len(t) = n + 1 /\ n \in Nat /\ Len(t) # 0
      /\ t[n + 1] = x /\ \A i \in 1 .. n : t[i] = s[i]
  BY <1>0, AppendProperties, LenProperties
<1>2. PICK g \in [1 .. Len(t) -> Seq(S)] : Flattens(g, t, Len(t)) /\ FlattenSeq(t) = g[Len(t)]
  BY <1>1, FlattenDef
<1>3. n + 1 \in 1 .. Len(t) /\ (n + 1) - 1 = n /\ \A i \in 1 .. n : i \in 1 .. Len(t)
  BY <1>1
<1>4. g[n + 1] = IF n + 1 = 1 THEN x ELSE g[n] \o x
  BY <1>1, <1>2, <1>3 DEF Flattens
<1>5. CASE n = 0
  <2>1. s = <<>> /\ FlattenSeq(s) = <<>>
    BY <1>0, <1>5, EmptySeq, FlattenEmpty
  <2> QED
    BY <2>1, <1>0, <1>1, <1>2, <1>4, <1>5, ConcatEmptySeq
<1>6. CASE n # 0
  <2>1. PICK h \in [1 .. n -> Seq(S)] : Flattens(h, s, n) /\ FlattenSeq(s) = h[n]
    BY <1>0, <1>6, FlattenDef
  <2>2. Flattens(g, s, n)
    BY <1>1, <1>2, <1>3 DEF Flattens
  <2>3. g[n] = h[n]
    <3>1. PICK y, z : y = g[n] /\ z = h[n]
      OBVIOUS
    <3>2. FlattensTo(g, s, n, y) /\ FlattensTo(h, s, n, z)
      BY <1>1, <1>6, <2>1, <2>2, <3>1 DEF FlattensTo
    <3>3. y = z
      BY <3>2, FlattensOnce
    <3> QED
      BY <3>1, <3>3
  <2>4. FlattenSeq(t) = g[n] \o x
    <3>1. n + 1 # 1 /\ Len(t) = n + 1
      BY <1>1, <1>6
    <3>2. g[n + 1] = g[n] \o x
      BY <1>4, <3>1
    <3> QED
      BY <1>2, <3>1, <3>2
  <2>5. FlattenSeq(s) = g[n]
    BY <2>1, <2>3
  <2> QED
    BY <1>0, <2>4, <2>5
<1> QED
  BY <1>1, <1>5, <1>6

LEMMA SequenceInduction ==
  ASSUME NEW S, NEW G, <<>> \in G, \A s \in Seq(S), x \in S : s \in G => Append(s, x) \in G
  PROVE  Seq(S) \subseteq G
<1> DEFINE N == {n \in Nat : \A s \in Seq(S) : Len(s) = n => s \in G}
<1>1. 0 \in N
  BY EmptySeq
<1>2. \A n \in Nat : n \in N => n + 1 \in N
  <2> SUFFICES ASSUME NEW n \in Nat, n \in N, NEW s \in Seq(S), Len(s) = n + 1
               PROVE  s \in G
    OBVIOUS
  <2>1. s # <<>>
    BY EmptySeq
  <2>2. PICK t \in Seq(S), x \in S : s = Append(t, x)
    BY <2>1, SequenceEmptyOrAppend
  <2>3. Len(t) = n
    BY <2>2, AppendProperties, LenProperties
  <2> QED
    BY <2>2, <2>3
<1>3. Nat \subseteq N
  <2> HIDE DEF N
  <2> QED
    BY <1>1, <1>2, NatSetInduction
<1> QED
  BY <1>3, LenProperties

\* What is at the head comes first.
LEMMA FlattenHead ==
  ASSUME NEW S, NEW s \in Seq(Seq(S)), s # <<>>
  PROVE  FlattenSeq(s) = Head(s) \o FlattenSeq(Tail(s))
<1> DEFINE Splits(q) == FlattenSeq(q) = Head(q) \o FlattenSeq(Tail(q))
           G == {q \in Seq(Seq(S)) : q # <<>> => Splits(q)}
<1>1. <<>> \in G
  BY EmptySeq
<1>2. ASSUME NEW q \in Seq(Seq(S)), NEW x \in Seq(S), q \in G
      PROVE  Splits(Append(q, x))
  <2>1. FlattenSeq(Append(q, x)) = FlattenSeq(q) \o x
    BY FlattenAppend
  <2>2. CASE q = <<>>
    <3>1. Head(Append(q, x)) = x /\ Tail(Append(q, x)) = <<>>
      BY <2>2, HeadTailAppend
    <3>2. <<>> \o x = x /\ x \o <<>> = x
      BY ConcatEmptySeq
    <3> QED
      BY <2>1, <2>2, <3>1, <3>2, FlattenEmpty
  <2>3. CASE q # <<>>
    <3>1. Head(Append(q, x)) = Head(q) /\ Tail(Append(q, x)) = Append(Tail(q), x)
      BY <2>3, HeadTailAppend
    <3>2. Head(q) \in Seq(S) /\ Tail(q) \in Seq(Seq(S)) /\ FlattenSeq(Tail(q)) \in Seq(S)
      BY <2>3, HeadTailProperties, FlattenType
    <3>3. FlattenSeq(Append(Tail(q), x)) = FlattenSeq(Tail(q)) \o x
      BY <3>2, FlattenAppend
    <3>4. (Head(q) \o FlattenSeq(Tail(q))) \o x = Head(q) \o (FlattenSeq(Tail(q)) \o x)
      <4>1. PICK a, b \in Seq(S) : a = Head(q) /\ b = FlattenSeq(Tail(q))
        BY <3>2
      <4>2. (a \o b) \o x = a \o (b \o x)
        <5>1. Cat(Cat(a, b), x) = Cat(a, Cat(b, x))
          BY CatThree
        <5> QED
          BY <5>1 DEF Cat
      <4> QED
        BY <4>1, <4>2
    <3>5. Splits(q)
      BY <1>2, <2>3
    <3> QED
      BY <2>1, <3>1, <3>3, <3>4, <3>5
  <2> QED
    BY <2>2, <2>3
<1> HIDE DEF Splits
<1>3. \A q \in Seq(Seq(S)), x \in Seq(S) : q \in G => Append(q, x) \in G
  BY <1>2, AppendProperties
<1>4. Seq(Seq(S)) \subseteq G
  <2> HIDE DEF G
  <2> QED
    BY <1>1, <1>3, SequenceInduction
<1> QED
  BY <1>4 DEF Splits

\* Sequences of at most c elements.
LEMMA FlattenLength ==
  ASSUME NEW S, NEW s \in Seq(Seq(S)), NEW c \in Nat, \A i \in 1 .. Len(s) : Len(s[i]) <= c
  PROVE  Len(FlattenSeq(s)) <= Len(s) * c
<1> DEFINE Bounded(q) == (\A i \in 1 .. Len(q) : Len(q[i]) <= c) => Len(FlattenSeq(q)) <= Len(q) * c
           G == {q \in Seq(Seq(S)) : Bounded(q)}
<1>1. <<>> \in G
  <2>1. <<>> \in Seq(Seq(S)) /\ Len(<<>>) = 0 /\ 0 <= 0 * c
    BY EmptySeq
  <2> QED
    BY <2>1, FlattenEmpty
<1>2. ASSUME NEW q \in Seq(Seq(S)), NEW x \in Seq(S), Bounded(q),
             \A i \in 1 .. Len(Append(q, x)) : Len(Append(q, x)[i]) <= c
      PROVE  Len(FlattenSeq(Append(q, x))) <= Len(Append(q, x)) * c
  <2>1. /\ Len(Append(q, x)) = Len(q) + 1 /\ Len(q) \in Nat
        /\ \A i \in 1 .. Len(q) : Append(q, x)[i] = q[i]
        /\ Append(q, x)[Len(q) + 1] = x
    BY AppendProperties, LenProperties
  <2>2. Len(x) <= c /\ \A i \in 1 .. Len(q) : Len(q[i]) <= c
    BY <1>2, <2>1
  <2>3. Len(FlattenSeq(q)) <= Len(q) * c
    BY <1>2, <2>2
  <2>4. Len(FlattenSeq(Append(q, x))) = Len(FlattenSeq(q)) + Len(x)
    BY FlattenAppend, FlattenType, ConcatProperties
  <2>5. Len(FlattenSeq(q)) \in Nat /\ Len(x) \in Nat
    BY FlattenType, LenProperties
  <2>6. \A k, l, m \in Nat : k <= m * c /\ l <= c => k + l <= (m + 1) * c
    OBVIOUS
  <2> QED
    BY <2>1, <2>2, <2>3, <2>4, <2>5, <2>6
<1>3. \A q \in Seq(Seq(S)), x \in Seq(S) : q \in G => Append(q, x) \in G
  BY <1>2, AppendProperties
<1>4. Seq(Seq(S)) \subseteq G
  <2> HIDE DEF G
  <2> QED
    BY <1>1, <1>3, SequenceInduction
<1> QED
  BY <1>4

-----------------------------------------------------------------------------
(* What was received is handed over, whole and in order.                   *)

\* The pump waits for an answer where it reads it.
CallInv == call[Pump] # "none" => at = "read"

\* The application asks for an item when it has used up the last one.
ItemInv ==
  /\ consumer = "yield" => item # <<>>
  /\ consumer \in {"get", "done"} => item = <<>>

\* The batch is handed over as soon as it is a chunk, and what is left of it
\* before the sentinel.
BatchInv ==
  /\ at \in {"call", "read"} => Len(batch) < Chunk
  /\ at \in {"chunk", "rest"} => batch # <<>> /\ Len(batch) <= Chunk
  /\ at \in {"sentinel", "exited"} => batch = <<>>

ChunkInv ==
  /\ Len(item) <= Chunk
  /\ \A i \in 1 .. Len(queue) : Len(queue[i]) <= Chunk
  /\ \A i \in 1 .. Len(scheduled) : Len(scheduled[i]) <= Chunk

\* Nothing follows the sentinel.
SentinelInv ==
  /\ \A i \in 1 .. Len(scheduled) : scheduled[i] = Sentinel => i = Len(scheduled) /\ at = "exited"
  /\ \A i \in 1 .. Len(queue) :
       queue[i] = Sentinel => i = Len(queue) /\ scheduled = <<>> /\ at = "exited"
  /\ consumer = "done" => queue = <<>> /\ scheduled = <<>> /\ at = "exited"

HandoverInv ==
  /\ CallInv /\ ItemInv /\ BatchInv /\ ChunkInv /\ SentinelInv
  /\ HandedOverInOrder

LEMMA HandoverStart == Init => HandoverInv
<1> SUFFICES ASSUME Init PROVE HandoverInv
  OBVIOUS
<1>1. /\ call[Pump] = "none" /\ received[Pump] = <<>> /\ at = "call" /\ consumer = "get"
      /\ batch = <<>> /\ scheduled = <<>> /\ queue = <<>> /\ item = <<>> /\ yielded = <<>>
  BY PumpAssumption DEF Init, BindingInit
<1>2. Len(<<>>) = 0 /\ 0 < Chunk /\ 0 <= Chunk
  BY PumpAssumption
<1>3. CallInv /\ ItemInv /\ BatchInv /\ ChunkInv /\ SentinelInv
  BY <1>1, <1>2 DEF CallInv, ItemInv, BatchInv, ChunkInv, SentinelInv
<1>4. InHand = <<>>
  BY <1>1 DEF InHand
<1>5. PumpReceived = <<>>
  BY <1>1 DEF PumpReceived
<1>6. <<>> \o <<>> = <<>>
  OBVIOUS
<1>7. HandedOverInOrder
  BY <1>1, <1>4, <1>5, <1>6, FlattenEmpty DEF HandedOverInOrder
<1> QED
  BY <1>3, <1>7 DEF HandoverInv

\* The parts of the way of a plaintext are sequences.
Parts ==
  /\ PumpReceived \in Seq(Nat) /\ Len(PumpReceived) = Len(received[Pump])
  /\ yielded \in Seq(Nat) /\ item \in Seq(Nat) /\ batch \in Seq(Nat)
  /\ queue \in Seq(Seq(Nat)) /\ scheduled \in Seq(Seq(Nat))
  /\ FlattenSeq(queue) \in Seq(Nat) /\ FlattenSeq(scheduled) \in Seq(Nat)
  /\ InHand \in Seq(Nat) /\ Len(InHand) <= 1
  /\ received[Pump] \in Seq([sample : Nat, length : Nat])

LEMMA PartsAreSequences == PumpInv => Parts
<1> SUFFICES ASSUME PumpInv PROVE Parts
  OBVIOUS
<1>1. /\ yielded \in Seq(Nat) /\ item \in Seq(Nat) /\ batch \in Seq(Nat)
      /\ queue \in Seq(Seq(Nat)) /\ scheduled \in Seq(Seq(Nat))
      /\ received[Pump] \in Seq([sample : Nat, length : Nat])
  BY PumpAssumption DEF PumpInv, TypeOK, BindingTypeOK
<1>2. FlattenSeq(queue) \in Seq(Nat) /\ FlattenSeq(scheduled) \in Seq(Nat)
  BY <1>1, FlattenType
<1>3. \A k \in DOMAIN received[Pump] : received[Pump][k].sample \in Nat
  <2>1. \A k \in 1 .. Len(received[Pump]) : received[Pump][k] \in [sample : Nat, length : Nat]
    BY <1>1, ElementOfSeq
  <2> QED
    BY <1>1, <2>1, LenProperties
<1>4. PumpReceived \in Seq(Nat) /\ Len(PumpReceived) = Len(received[Pump])
  <2>1. PICK n \in Nat : n = Len(received[Pump]) /\ DOMAIN received[Pump] = 1 .. n
    BY <1>1, LenProperties
  <2>2. PumpReceived \in [1 .. n -> Nat]
    BY <1>3, <2>1 DEF PumpReceived
  <2>3. PumpReceived \in Seq(Nat)
    BY <2>2, SeqDef
  <2> QED
    BY <2>1, <2>2, <2>3, LenProperties
<1>5. InHand \in Seq(Nat) /\ Len(InHand) <= 1
  <2>1. CASE result[Pump] = "data"
    <3>1. received[Pump] # <<>>
      BY <2>1 DEF PumpInv, InPlace
    <3>2. Len(received[Pump]) \in DOMAIN received[Pump]
      BY <1>1, <3>1, LenProperties, EmptySeq
    <3>3. Last(received[Pump]).sample \in Nat
      BY <1>3, <3>2 DEF Last
    <3> QED
      BY <3>3 DEF InHand
  <2>2. CASE result[Pump] # "data"
    BY <2>2 DEF InHand
  <2> QED
    BY <2>1, <2>2
<1> QED
  BY <1>1, <1>2, <1>4, <1>5 DEF Parts

LEMMA PartsNext == PumpInv' => Parts'
BY PartsAreSequences, PTL

\* A step of the stream functions leaves everything where it is, but that the
\* call may put a plaintext into the pump's hand.
LEMMA ReceivedInHand ==
  ASSUME PumpInv, PumpInv', CallInv,
         PumpCalls \/ (at' = at /\ (NextStep(Pump) \/ Writer))
  PROVE  \/ PumpReceived' = PumpReceived /\ InHand' = InHand
         \/ InHand = <<>> /\ PumpReceived' = PumpReceived \o InHand'
<1>1. /\ Pump \in Readers /\ result \in [Readers -> {"none", "data", "empty", "end"}]
      /\ call \in [Readers -> {"none", "next", "try"}]
      /\ received \in [Readers -> Seq([sample : Nat, length : Nat])]
      /\ received' \in [Readers -> Seq([sample : Nat, length : Nat])]
      /\ PumpReceived \in Seq(Nat) /\ PumpReceived' \in Seq(Nat)
      /\ Len(PumpReceived) = Len(received[Pump]) /\ Len(PumpReceived') = Len(received'[Pump])
  BY PumpAssumption, PartsAreSequences, PartsNext DEF PumpInv, TypeOK, BindingTypeOK, Parts
<1>2. CASE Writer /\ at' = at
  BY <1>2 DEF Writer, Submit, Finish, readers, InHand, PumpReceived
<1>3. CASE PumpCalls
  <2>1. at = "call" /\ call'[Pump] = "next" /\ received' = received
    BY <1>1, <1>3 DEF PumpCalls, CallNext, Begin
  <2> QED
    BY <2>1 DEF InHand, PumpReceived
<1>4. CASE NextData(Pump) /\ at' = at
  <2> DEFINE new == [sample |-> Upcoming, length |-> Copied(Pump)]
  <2>1. /\ received' = [received EXCEPT ![Pump] = Append(received[Pump], new)]
        /\ call[Pump] = "next" /\ call'[Pump] = "none" /\ result'[Pump] = "data"
        /\ new.sample = Upcoming
    BY <1>1, <1>4 DEF NextData, Return
  <2> HIDE DEF new
  <2>2. at = "read" /\ at' = "read"
    BY <1>4, <2>1 DEF CallInv
  <2>3. received'[Pump] = Append(received[Pump], new)
    BY <1>1, <2>1
  <2>4. /\ Len(received'[Pump]) = Len(received[Pump]) + 1 /\ Len(received[Pump]) \in Nat
        /\ \A k \in 1 .. Len(received[Pump]) : received'[Pump][k] = received[Pump][k]
        /\ received'[Pump][Len(received[Pump]) + 1] = new
    BY <1>1, <2>3
  <2>5. InHand = <<>> /\ InHand' = <<Upcoming>>
    BY <2>1, <2>2, <2>4 DEF InHand, Last
  <2>6. Upcoming \in Nat
    BY DEF Upcoming, PumpInv, TypeOK, BindingTypeOK
  <2>7. PumpReceived' = Append(PumpReceived, Upcoming)
    <3>1. Len(PumpReceived) = Len(received[Pump]) /\ Len(PumpReceived') = Len(received'[Pump])
      BY <1>1
    <3>2. DOMAIN received[Pump] = 1 .. Len(received[Pump])
          /\ DOMAIN received'[Pump] = 1 .. Len(received'[Pump])
      BY <1>1, LenProperties
    <3>3. \A k \in 1 .. Len(received[Pump]) : PumpReceived'[k] = PumpReceived[k]
      BY <2>4, <3>2 DEF PumpReceived
    <3>4. PumpReceived'[Len(received[Pump]) + 1] = Upcoming
      BY <2>1, <2>4, <3>2 DEF PumpReceived
    <3>5. PICK old, long \in Seq(Nat) : old = PumpReceived /\ long = PumpReceived'
      BY <1>1
    <3>6. /\ Append(old, Upcoming) \in Seq(Nat) /\ Len(Append(old, Upcoming)) = Len(old) + 1
          /\ \A k \in 1 .. Len(old) : Append(old, Upcoming)[k] = old[k]
          /\ Append(old, Upcoming)[Len(old) + 1] = Upcoming
      BY <2>6, AppendProperties
    <3>7. /\ Len(long) = Len(old) + 1 /\ Len(old) \in Nat /\ long[Len(old) + 1] = Upcoming
          /\ \A k \in 1 .. Len(old) : long[k] = old[k]
      <4> HIDE DEF PumpReceived
      <4> QED
        BY <2>4, <3>1, <3>3, <3>4, <3>5
    <3>8. \A k \in 1 .. Len(long) : long[k] = Append(old, Upcoming)[k]
      BY <3>6, <3>7
    <3>9. long = Append(old, Upcoming)
      BY <3>6, <3>7, <3>8, SeqEqual
    <3> QED
      BY <3>5, <3>9
  <2>8. PumpReceived' = PumpReceived \o <<Upcoming>>
    BY <1>1, <2>6, <2>7, AppendIsConcat
  <2> QED
    BY <2>5, <2>8
<1>5. CASE (NextNothing(Pump) \/ NextEnd(Pump)) /\ at' = at
  <2>1. call[Pump] = "next" /\ result'[Pump] = "end" /\ received' = received
    BY <1>1, <1>5 DEF NextNothing, NextEnd, Return
  <2> QED
    BY <2>1 DEF InHand, PumpReceived
<1>6. CASE Retry(Pump) /\ at' = at
  BY <1>6 DEF Retry, InHand, PumpReceived
<1> QED
  BY <1>2, <1>3, <1>4, <1>5, <1>6 DEF NextStep

\* The way of a plaintext, cut before the pump's hand, before its batch, before
\* what is scheduled and before what is queued.
WayIs(a, c, d, w) ==
  /\ a = yielded \o item /\ c = a \o FlattenSeq(queue)
  /\ d = c \o FlattenSeq(scheduled) /\ w = d \o batch
  /\ HandedOverInOrder <=> PumpReceived = w \o InHand

LEMMA Way == PumpInv => \E a, c, d, w \in Seq(Nat) : WayIs(a, c, d, w)
<1> SUFFICES ASSUME PumpInv PROVE \E a, c, d, w \in Seq(Nat) : WayIs(a, c, d, w)
  OBVIOUS
<1>1. /\ yielded \in Seq(Nat) /\ item \in Seq(Nat) /\ batch \in Seq(Nat)
      /\ FlattenSeq(queue) \in Seq(Nat) /\ FlattenSeq(scheduled) \in Seq(Nat)
  BY PartsAreSequences DEF Parts
<1>2. PICK a \in Seq(Nat) : a = yielded \o item
  BY <1>1, ConcatProperties
<1>3. PICK c \in Seq(Nat) : c = a \o FlattenSeq(queue)
  BY <1>1, ConcatProperties
<1>4. PICK d \in Seq(Nat) : d = c \o FlattenSeq(scheduled)
  BY <1>1, ConcatProperties
<1>5. PICK w \in Seq(Nat) : w = d \o batch
  BY <1>1, ConcatProperties
<1>6. HandedOverInOrder <=> PumpReceived = w \o InHand
  BY <1>2, <1>3, <1>4, <1>5 DEF HandedOverInOrder
<1>7. WayIs(a, c, d, w)
  BY <1>2, <1>3, <1>4, <1>5, <1>6 DEF WayIs
<1> QED
  BY <1>7

\* The calls of the stream functions.
LEMMA CallsHandover ==
  ASSUME PumpInv, PumpInv', HandoverInv,
         \/ PumpCalls
         \/ NextStep(Pump) /\ UNCHANGED <<pumpVars, consumerVars>>
         \/ Writer /\ UNCHANGED <<pumpVars, consumerVars>>
  PROVE  HandoverInv'
<1>1. UNCHANGED <<batch, space, scheduled, queue, consumer, item, yielded>>
  BY DEF PumpCalls, pumpVars, consumerVars
<1>2. at' = at \/ (at = "call" /\ at' = "read")
  BY DEF PumpCalls, pumpVars
<1>3. PumpCalls \/ (at' = at /\ (NextStep(Pump) \/ Writer))
  <2>1. CASE UNCHANGED <<pumpVars, consumerVars>>
    BY <2>1 DEF pumpVars
  <2> QED
    BY <2>1
<1>4. CallInv'
  <2>1. CASE PumpCalls
    BY <2>1 DEF PumpCalls, CallInv
  <2>2. CASE at' = at /\ NextStep(Pump)
    <3>1. call[Pump] # "none"
      BY <2>2 DEF NextStep, NextData, NextNothing, NextEnd, Retry
    <3> QED
      BY <2>2, <3>1 DEF CallInv, HandoverInv
  <2>3. CASE at' = at /\ Writer
    <3>1. call' = call
      BY <2>3 DEF Writer, Submit, Finish, readers
    <3> QED
      BY <2>3, <3>1 DEF CallInv, HandoverInv
  <2> QED
    BY <1>3, <2>1, <2>2, <2>3
<1>5. ItemInv' /\ BatchInv' /\ ChunkInv' /\ SentinelInv'
  BY <1>1, <1>2 DEF HandoverInv, ItemInv, BatchInv, ChunkInv, SentinelInv
<1>6. HandedOverInOrder'
  <2>1. PICK a, c, d, w \in Seq(Nat) :
          /\ a = yielded \o item /\ c = a \o FlattenSeq(queue)
          /\ d = c \o FlattenSeq(scheduled) /\ w = d \o batch
          /\ HandedOverInOrder <=> PumpReceived = w \o InHand
    BY Way DEF WayIs
  <2>2. PumpReceived = w \o InHand
    BY <2>1 DEF HandoverInv
  <2>3. \/ PumpReceived' = PumpReceived /\ InHand' = InHand
        \/ InHand = <<>> /\ PumpReceived' = PumpReceived \o InHand'
    BY <1>3, ReceivedInHand DEF HandoverInv
  <2>4. w \o <<>> = w
    BY ConcatEmptySeq
  <2>5. PumpReceived' = w \o InHand'
    BY <2>2, <2>3, <2>4
  <2> QED
    BY <1>1, <2>1, <2>5 DEF HandedOverInOrder
<1> QED
  BY <1>4, <1>5, <1>6 DEF HandoverInv

\* The steps of the pump, of the loop and of the application move plaintexts
\* on.  None of them touches the stream.
LEMMA SameReceived ==
  ASSUME UNCHANGED bindingVars
  PROVE  PumpReceived' = PumpReceived /\ call' = call /\ result' = result /\ received' = received
<1>1. call' = call /\ result' = result /\ received' = received
  BY DEF bindingVars, readers
<1> QED
  BY <1>1 DEF PumpReceived

\* The pump takes what its call returned.
LEMMA TakesHandover ==
  ASSUME PumpInv, PumpInv', HandoverInv, PumpAppends \/ PumpBreaks
  PROVE  HandoverInv'
<1>1. /\ UNCHANGED <<bindingVars, space, scheduled, queue, consumer, item, yielded>>
      /\ at = "read" /\ at' # "exited" /\ at' # "read" /\ call[Pump] = "none"
  BY DEF PumpAppends, PumpBreaks, AfterLoop, consumerVars
<1>2. PumpReceived' = PumpReceived /\ call' = call /\ InHand' = <<>>
  BY <1>1, SameReceived DEF InHand
<1>3. InHand \in Seq(Nat) /\ batch \in Seq(Nat) /\ Len(batch) < Chunk /\ Chunk \in Nat
  BY <1>1, PartsAreSequences, PumpAssumption DEF HandoverInv, BatchInv, Parts
<1>4. CallInv' /\ ItemInv' /\ ChunkInv' /\ SentinelInv'
  BY <1>1, <1>2 DEF HandoverInv, CallInv, ItemInv, ChunkInv, SentinelInv
<1>5. CASE PumpAppends
  <2>1. PICK x : InHand = <<x>> /\ batch' = Append(batch, x)
    BY <1>5 DEF PumpAppends, InHand
  <2>2. at' = IF Len(batch') >= Chunk THEN "chunk" ELSE "call"
    BY <1>5 DEF PumpAppends, ChunkFull
  <2>3. x \in Nat
    <3>1. InHand # <<>> /\ Head(InHand) = x
      BY <2>1
    <3>2. Head(InHand) \in Nat
      BY <1>3, <3>1, HeadTailProperties
    <3> QED
      BY <3>1, <3>2
  <2>4. batch' # <<>> /\ Len(batch') = Len(batch) + 1 /\ batch' = batch \o InHand
    BY <1>3, <2>1, <2>3, AppendProperties, AppendIsConcat
  <2>5. BatchInv'
    BY <1>3, <2>2, <2>4, LenProperties DEF BatchInv
  <2>6. HandedOverInOrder'
    <3>1. PICK a, c, d, w \in Seq(Nat) :
            /\ a = yielded \o item /\ c = a \o FlattenSeq(queue)
            /\ d = c \o FlattenSeq(scheduled) /\ w = d \o batch
            /\ HandedOverInOrder <=> PumpReceived = w \o InHand
      BY Way DEF WayIs
    <3>2. PICK b \in Seq(Nat) : b = batch
      BY <1>3
    <3>3. PICK h \in Seq(Nat) : h = InHand
      BY <1>3
    <3>4. (d \o b) \o h = d \o (b \o h)
      <4>1. Cat(Cat(d, b), h) = Cat(d, Cat(b, h))
        BY CatThree
      <4> QED
        BY <4>1 DEF Cat
    <3>5. (d \o (b \o h)) \o <<>> = d \o (b \o h)
      BY ConcatProperties, ConcatEmptySeq
    <3>6. PumpReceived = (d \o batch') \o <<>>
      BY <2>4, <3>1, <3>2, <3>3, <3>4, <3>5 DEF HandoverInv
    <3> QED
      BY <1>1, <1>2, <3>1, <3>6 DEF HandedOverInOrder
  <2> QED
    BY <1>4, <2>5, <2>6 DEF HandoverInv
<1>6. CASE PumpBreaks
  <2>1. batch' = batch /\ at' = (IF batch = <<>> THEN "sentinel" ELSE "rest") /\ InHand = <<>>
    BY <1>6 DEF PumpBreaks, AfterLoop, InHand
  <2>2. BatchInv'
    BY <1>3, <2>1, LenProperties DEF BatchInv
  <2>3. HandedOverInOrder'
    BY <1>1, <1>2, <2>1 DEF HandoverInv, HandedOverInOrder
  <2> QED
    BY <1>4, <2>2, <2>3 DEF HandoverInv
<1> QED
  BY <1>5, <1>6

\* The pump hands over its batch, or the sentinel.
LEMMA HandsHandover ==
  ASSUME PumpInv, PumpInv', HandoverInv, HandChunk \/ HandSentinel
  PROVE  HandoverInv'
<1> DEFINE x == IF HandChunk THEN batch ELSE Sentinel
<1>1. /\ UNCHANGED <<bindingVars, queue, consumer, item, yielded>>
      /\ at \in {"chunk", "rest", "sentinel"} /\ at' # "read" /\ at # "read"
      /\ scheduled' = Append(scheduled, x) /\ batch' = <<>>
  <2>1. CASE HandChunk
    BY <2>1 DEF HandChunk, Hand, NewBatch, consumerVars
  <2>2. CASE HandSentinel /\ ~HandChunk
    BY <2>2 DEF HandSentinel, Hand, HandoverInv, BatchInv, consumerVars
  <2> QED
    BY <2>1, <2>2
<1>2. x = batch /\ (x = <<>> => at' = "exited") /\ at # "exited"
  <2>1. CASE HandChunk
    BY <2>1 DEF HandChunk, HandoverInv, BatchInv
  <2>2. CASE HandSentinel /\ ~HandChunk
    BY <2>2 DEF HandSentinel, HandoverInv, BatchInv, Sentinel
  <2> QED
    BY <2>1, <2>2
<1> HIDE DEF x
<1>3. PumpReceived' = PumpReceived /\ call' = call /\ InHand' = <<>> /\ InHand = <<>>
  BY <1>1, SameReceived DEF InHand
<1>4. /\ scheduled \in Seq(Seq(Nat)) /\ queue \in Seq(Seq(Nat)) /\ batch \in Seq(Nat)
      /\ Len(batch) <= Chunk /\ Chunk \in Nat
      /\ FlattenSeq(scheduled) \in Seq(Nat)
  <2>1. /\ scheduled \in Seq(Seq(Nat)) /\ queue \in Seq(Seq(Nat)) /\ batch \in Seq(Nat)
        /\ FlattenSeq(scheduled) \in Seq(Nat) /\ Chunk \in Nat
    BY PartsAreSequences, PumpAssumption DEF Parts
  <2>2. Len(<<>>) <= Chunk
    BY <2>1
  <2> QED
    BY <1>1, <2>1, <2>2 DEF HandoverInv, BatchInv
<1>5. /\ Len(scheduled') = Len(scheduled) + 1 /\ Len(scheduled) \in Nat
      /\ \A i \in 1 .. Len(scheduled) : scheduled'[i] = scheduled[i]
      /\ scheduled'[Len(scheduled) + 1] = batch
  <2>1. scheduled' = Append(scheduled, batch)
    BY <1>1, <1>2
  <2> QED
    BY <1>4, <2>1, AppendProperties, LenProperties
<1>6. CallInv' /\ ItemInv'
  BY <1>1, <1>3 DEF HandoverInv, CallInv, ItemInv
<1>7. BatchInv'
  <2>1. Len(<<>>) = 0 /\ 0 < Chunk
    BY PumpAssumption
  <2>2. at' \in {"call", "sentinel", "exited"}
    BY DEF HandChunk, HandSentinel
  <2> QED
    BY <1>1, <2>1, <2>2 DEF BatchInv
<1>8. ChunkInv'
  <2>1. \A i \in 1 .. Len(scheduled) : Len(scheduled[i]) <= Chunk
    BY DEF HandoverInv, ChunkInv
  <2>2. \A i \in 1 .. Len(scheduled') : i \in 1 .. Len(scheduled) \/ i = Len(scheduled) + 1
    BY <1>5
  <2>3. \A i \in 1 .. Len(scheduled') : Len(scheduled'[i]) <= Chunk
    BY <1>4, <1>5, <2>1, <2>2
  <2> QED
    BY <1>1, <2>3 DEF HandoverInv, ChunkInv
<1>9. SentinelInv'
  <2>1. /\ \A i \in 1 .. Len(scheduled) : scheduled[i] # Sentinel
        /\ \A i \in 1 .. Len(queue) : queue[i] # Sentinel
        /\ consumer # "done"
    BY <1>2 DEF HandoverInv, SentinelInv
  <2>2. \A i \in 1 .. Len(scheduled') :
          scheduled'[i] = Sentinel => i = Len(scheduled') /\ at' = "exited"
    BY <1>2, <1>5, <2>1 DEF Sentinel
  <2> QED
    BY <1>1, <2>1, <2>2 DEF SentinelInv
<1>10. HandedOverInOrder'
  <2>1. PICK a, c, d, w \in Seq(Nat) :
          /\ a = yielded \o item /\ c = a \o FlattenSeq(queue)
          /\ d = c \o FlattenSeq(scheduled) /\ w = d \o batch
          /\ HandedOverInOrder <=> PumpReceived = w \o InHand
    BY Way DEF WayIs
  <2>2. PICK b \in Seq(Nat) : b = batch
    BY <1>4
  <2>3. PICK s \in Seq(Nat) : s = FlattenSeq(scheduled)
    BY <1>4
  <2>4. FlattenSeq(scheduled') = s \o b
    BY <1>1, <1>2, <1>4, <2>2, <2>3, FlattenAppend
  <2>5. (c \o s) \o b = c \o (s \o b)
    <3>1. Cat(Cat(c, s), b) = Cat(c, Cat(s, b))
      BY CatThree
    <3> QED
      BY <3>1 DEF Cat
  <2>6. ((c \o (s \o b)) \o <<>>) = c \o (s \o b)
    BY ConcatProperties, ConcatEmptySeq
  <2>7. PumpReceived = ((c \o FlattenSeq(scheduled')) \o batch') \o <<>>
    BY <1>1, <1>3, <2>1, <2>2, <2>3, <2>4, <2>5, <2>6 DEF HandoverInv
  <2> QED
    BY <1>1, <1>3, <2>1, <2>7 DEF HandedOverInOrder
<1> QED
  BY <1>6, <1>7, <1>8, <1>9, <1>10 DEF HandoverInv

\* A callback of the loop moves a chunk into the queue.
LEMMA PutHandover ==
  ASSUME PumpInv, PumpInv', HandoverInv, PutNowait
  PROVE  HandoverInv'
<1>1. /\ UNCHANGED <<bindingVars, at, batch, consumer, item, yielded>>
      /\ scheduled # <<>> /\ scheduled' = Tail(scheduled)
  BY DEF PutNowait, consumerVars
<1>2. /\ scheduled \in Seq(Seq(Nat)) /\ queue \in Seq(Seq(Nat))
      /\ FlattenSeq(scheduled) \in Seq(Nat) /\ FlattenSeq(queue) \in Seq(Nat)
  BY PartsAreSequences DEF Parts
<1>3. PICK x \in Seq(Nat) : x = Head(scheduled) /\ x = scheduled[1]
  BY <1>1, <1>2
<1>4. queue' = Append(queue, x)
  <2>1. Len(scheduled) \in Nat /\ Len(scheduled) > 0 /\ Len(queue) \in Nat /\ MaxQ \in Nat
    BY <1>1, <1>2, PumpAssumption
  <2>2. space \in Nat /\ space + Len(scheduled) + Len(queue) = MaxQ
    BY DEF PumpInv, TypeOK, Places
  <2>3. Len(queue) < MaxQ
    BY <2>1, <2>2
  <2> QED
    BY <1>3, <2>3 DEF PutNowait
<1>5. /\ Len(scheduled') = Len(scheduled) - 1 /\ Len(scheduled) \in Nat /\ Len(scheduled) # 0
      /\ \A i \in 1 .. Len(scheduled') : scheduled'[i] = scheduled[i + 1]
  BY <1>1, <1>2, HeadTailProperties, EmptySeq
<1>6. /\ Len(queue') = Len(queue) + 1 /\ Len(queue) \in Nat
      /\ \A i \in 1 .. Len(queue) : queue'[i] = queue[i]
      /\ queue'[Len(queue) + 1] = scheduled[1]
  BY <1>2, <1>3, <1>4, AppendProperties, LenProperties
<1>7. PumpReceived' = PumpReceived /\ call' = call /\ InHand' = InHand
  BY <1>1, SameReceived DEF InHand
<1>8. CallInv' /\ ItemInv' /\ BatchInv'
  BY <1>1, <1>7 DEF HandoverInv, CallInv, ItemInv, BatchInv
<1>9. ChunkInv'
  BY <1>1, <1>5, <1>6, SMTT(20) DEF HandoverInv, ChunkInv
<1>10. SentinelInv'
  <2>1. consumer # "done" /\ \A i \in 1 .. Len(queue) : queue[i] # Sentinel
    BY <1>1 DEF HandoverInv, SentinelInv
  <2>2. \A i \in 1 .. Len(scheduled) :
          scheduled[i] = Sentinel => i = Len(scheduled) /\ at = "exited"
    BY DEF HandoverInv, SentinelInv
  <2>3. \A i \in 1 .. Len(scheduled') :
          scheduled'[i] = Sentinel => i = Len(scheduled') /\ at = "exited"
    BY <1>5, <2>2
  <2>4. scheduled[1] = Sentinel => scheduled' = <<>> /\ at = "exited"
    <3>1. 1 \in 1 .. Len(scheduled)
      BY <1>5
    <3>2. Len(scheduled) = 1 => scheduled' = <<>>
      <4>1. scheduled' \in Seq(Seq(Nat))
        BY <1>1, <1>2, HeadTailProperties
      <4> QED
        BY <1>5, <4>1, EmptySeq
    <3> QED
      BY <2>2, <3>1, <3>2
  <2>5. \A i \in 1 .. Len(queue') :
          queue'[i] = Sentinel => i = Len(queue') /\ scheduled' = <<>> /\ at = "exited"
    BY <1>6, <2>1, <2>4
  <2> QED
    BY <1>1, <2>1, <2>3, <2>5 DEF SentinelInv
<1>11. HandedOverInOrder'
  <2>1. PICK a, c, d, w \in Seq(Nat) :
          /\ a = yielded \o item /\ c = a \o FlattenSeq(queue)
          /\ d = c \o FlattenSeq(scheduled) /\ w = d \o batch
          /\ HandedOverInOrder <=> PumpReceived = w \o InHand
    BY Way DEF WayIs
  <2>2. PICK q \in Seq(Nat) : q = FlattenSeq(queue)
    BY <1>2
  <2>3. scheduled' \in Seq(Seq(Nat))
    BY <1>1, <1>2, HeadTailProperties
  <2>4. PICK s \in Seq(Nat) : s = FlattenSeq(scheduled')
    BY <2>3, FlattenType
  <2>5. FlattenSeq(scheduled) = x \o s
    BY <1>1, <1>2, <1>3, <2>4, FlattenHead
  <2>6. FlattenSeq(queue') = q \o x
    BY <1>2, <1>4, <2>2, FlattenAppend
  <2>7. PICK e \in Seq(Nat) : e = x \o s
    BY ConcatProperties
  <2>8. PICK f \in Seq(Nat) : f = q \o x
    BY ConcatProperties
  <2>9. (a \o q) \o e = a \o (q \o e)
    <3>1. Cat(Cat(a, q), e) = Cat(a, Cat(q, e))
      BY CatThree
    <3> QED
      BY <3>1 DEF Cat
  <2>10. (q \o x) \o s = q \o (x \o s)
    <3>1. Cat(Cat(q, x), s) = Cat(q, Cat(x, s))
      BY CatThree
    <3> QED
      BY <3>1 DEF Cat
  <2>11. (a \o f) \o s = a \o (f \o s)
    <3>1. Cat(Cat(a, f), s) = Cat(a, Cat(f, s))
      BY CatThree
    <3> QED
      BY <3>1 DEF Cat
  <2>12. d = (a \o FlattenSeq(queue')) \o FlattenSeq(scheduled')
    BY <2>1, <2>2, <2>4, <2>5, <2>6, <2>7, <2>8, <2>9, <2>10, <2>11
  <2> QED
    BY <1>1, <1>7, <2>1, <2>12 DEF HandedOverInOrder, HandoverInv
<1> QED
  BY <1>8, <1>9, <1>10, <1>11 DEF HandoverInv

\* The application takes an item.
LEMMA GetHandover ==
  ASSUME PumpInv, PumpInv', HandoverInv, Get
  PROVE  HandoverInv'
<1>1. /\ UNCHANGED <<bindingVars, at, batch, scheduled, yielded>>
      /\ queue # <<>> /\ queue' = Tail(queue) /\ item' = Head(queue) /\ consumer = "get"
      /\ consumer' = IF Head(queue) = Sentinel THEN "done" ELSE "yield"
  BY DEF Get
<1>2. queue \in Seq(Seq(Nat)) /\ FlattenSeq(queue) \in Seq(Nat) /\ yielded \in Seq(Nat)
  BY PartsAreSequences DEF Parts
<1>3. PICK x \in Seq(Nat) : x = Head(queue) /\ x = queue[1]
  BY <1>1, <1>2
<1>4. /\ queue' \in Seq(Seq(Nat))
      /\ Len(queue') = Len(queue) - 1 /\ Len(queue) \in Nat /\ Len(queue) # 0
      /\ \A i \in 1 .. Len(queue') : queue'[i] = queue[i + 1]
  BY <1>1, <1>2, HeadTailProperties, EmptySeq
<1>5. PumpReceived' = PumpReceived /\ call' = call /\ InHand' = InHand
  BY <1>1, SameReceived DEF InHand
<1>6. item = <<>>
  BY <1>1 DEF HandoverInv, ItemInv
<1>7. CallInv' /\ BatchInv'
  BY <1>1, <1>5 DEF HandoverInv, CallInv, BatchInv
<1>8. ItemInv'
  BY <1>1 DEF ItemInv, Sentinel
<1>9. ChunkInv'
  <2>1. 1 \in 1 .. Len(queue)
    BY <1>4
  <2>2. Len(item') <= Chunk
    BY <1>1, <1>3, <2>1 DEF HandoverInv, ChunkInv
  <2> QED
    BY <1>1, <1>4, <2>2 DEF HandoverInv, ChunkInv
<1>10. SentinelInv'
  <2>1. \A i \in 1 .. Len(queue) :
          queue[i] = Sentinel => i = Len(queue) /\ scheduled = <<>> /\ at = "exited"
    BY DEF HandoverInv, SentinelInv
  <2>2. \A i \in 1 .. Len(queue') :
          queue'[i] = Sentinel => i = Len(queue') /\ scheduled = <<>> /\ at = "exited"
    BY <1>4, <2>1
  <2>3. consumer' = "done" => queue' = <<>> /\ scheduled = <<>> /\ at = "exited"
    <3>1. SUFFICES ASSUME consumer' = "done"
                   PROVE  queue' = <<>> /\ scheduled = <<>> /\ at = "exited"
      OBVIOUS
    <3>2. queue[1] = Sentinel /\ 1 \in 1 .. Len(queue)
      BY <1>1, <1>3, <1>4, <3>1
    <3>3. Len(queue) = 1 /\ scheduled = <<>> /\ at = "exited"
      BY <2>1, <3>2
    <3>4. queue' = <<>>
      BY <1>4, <3>3, EmptySeq
    <3> QED
      BY <3>3, <3>4
  <2>4. \A i \in 1 .. Len(scheduled) : scheduled[i] = Sentinel => i = Len(scheduled) /\ at = "exited"
    BY DEF HandoverInv, SentinelInv
  <2> QED
    BY <1>1, <2>2, <2>3, <2>4 DEF SentinelInv
<1>11. HandedOverInOrder'
  <2>1. PICK a, c, d, w \in Seq(Nat) :
          /\ a = yielded \o item /\ c = a \o FlattenSeq(queue)
          /\ d = c \o FlattenSeq(scheduled) /\ w = d \o batch
          /\ HandedOverInOrder <=> PumpReceived = w \o InHand
    BY Way DEF WayIs
  <2>2. PICK y \in Seq(Nat) : y = yielded
    BY <1>2
  <2>3. PICK q \in Seq(Nat) : q = FlattenSeq(queue')
    BY <1>4, FlattenType
  <2>4. FlattenSeq(queue) = x \o q
    BY <1>1, <1>2, <1>3, <2>3, FlattenHead
  <2>5. a = y
    BY <1>6, <2>1, <2>2, ConcatEmptySeq
  <2>6. (y \o x) \o q = y \o (x \o q)
    <3>1. Cat(Cat(y, x), q) = Cat(y, Cat(x, q))
      BY CatThree
    <3> QED
      BY <3>1 DEF Cat
  <2>7. c = (yielded \o item') \o FlattenSeq(queue')
    BY <1>1, <1>3, <2>1, <2>2, <2>3, <2>4, <2>5, <2>6
  <2> QED
    BY <1>1, <1>5, <2>1, <2>7 DEF HandedOverInOrder, HandoverInv
<1> QED
  BY <1>7, <1>8, <1>9, <1>10, <1>11 DEF HandoverInv

\* The application is given a plaintext.
LEMMA YieldHandover ==
  ASSUME PumpInv, PumpInv', HandoverInv, Yield
  PROVE  HandoverInv'
<1>1. /\ UNCHANGED <<bindingVars, at, batch, scheduled, queue>>
      /\ consumer = "yield" /\ yielded' = Append(yielded, Head(item)) /\ item' = Tail(item)
      /\ consumer' = IF Tail(item) = <<>> THEN "get" ELSE "yield"
  BY DEF Yield, pumpVars
<1>2. item # <<>> /\ item \in Seq(Nat) /\ yielded \in Seq(Nat)
  BY <1>1, PartsAreSequences DEF HandoverInv, ItemInv, Parts
<1>3. /\ Tail(item) \in Seq(Nat) /\ Len(Tail(item)) = Len(item) - 1 /\ Len(item) \in Nat
      /\ Head(item) \in Nat
  BY <1>2, HeadTailProperties, LenProperties
<1>4. PumpReceived' = PumpReceived /\ call' = call /\ InHand' = InHand
  BY <1>1, SameReceived DEF InHand
<1>5. CallInv' /\ BatchInv' /\ ItemInv' /\ SentinelInv'
  BY <1>1, <1>4 DEF HandoverInv, CallInv, BatchInv, ItemInv, SentinelInv
<1>6. ChunkInv'
  <2>1. Len(item') <= Chunk
    BY <1>1, <1>3, PumpAssumption DEF HandoverInv, ChunkInv
  <2> QED
    BY <1>1, <2>1 DEF HandoverInv, ChunkInv
<1>7. yielded' \o item' = yielded \o item
  <2>1. PICK y \in Seq(Nat) : y = yielded
    BY <1>2
  <2>2. PICK x \in Seq(Nat) : x = <<Head(item)>>
    <3>1. PICK n \in Nat : n = Head(item)
      BY <1>3
    <3>2. <<n>> \in Seq(Nat)
      OBVIOUS
    <3> QED
      BY <3>1, <3>2
  <2>3. PICK t \in Seq(Nat) : t = Tail(item)
    BY <1>3
  <2>4. x \o t = item
    BY <1>2, <2>2, <2>3
  <2>5. Append(y, Head(item)) = y \o x
    BY <1>3, <2>2, AppendIsConcat
  <2>6. (y \o x) \o t = y \o (x \o t)
    <3>1. Cat(Cat(y, x), t) = Cat(y, Cat(x, t))
      BY CatThree
    <3> QED
      BY <3>1 DEF Cat
  <2> QED
    BY <1>1, <2>1, <2>3, <2>4, <2>5, <2>6
<1>8. HandedOverInOrder'
  BY <1>1, <1>4, <1>7 DEF HandoverInv, HandedOverInOrder
<1> QED
  BY <1>5, <1>6, <1>8 DEF HandoverInv

\* The application leaves.
LEMMA AbandonHandover ==
  ASSUME HandoverInv, Abandon
  PROVE  HandoverInv'
<1>1. /\ UNCHANGED <<bindingVars, at, batch, scheduled, queue, item, yielded>>
      /\ consumer' = "gone"
  BY DEF Abandon, pumpVars
<1>2. PumpReceived' = PumpReceived /\ call' = call /\ InHand' = InHand
  BY <1>1, SameReceived DEF InHand
<1> QED
  BY <1>1, <1>2 DEF HandoverInv, CallInv, BatchInv, ItemInv, SentinelInv, ChunkInv, HandedOverInOrder

LEMMA HandoverStep == PumpInv /\ PumpInv' /\ HandoverInv /\ [Next]_vars => HandoverInv'
<1> SUFFICES ASSUME PumpInv, PumpInv', HandoverInv, [Next]_vars PROVE HandoverInv'
  OBVIOUS
<1>1. CASE PumpStep
  BY <1>1, CallsHandover, TakesHandover, HandsHandover DEF PumpStep
<1>2. CASE PutNowait
  BY <1>2, PutHandover
<1>3. CASE Application
  BY <1>3, GetHandover, YieldHandover DEF Application
<1>4. CASE Abandon
  BY <1>4, AbandonHandover
<1>5. CASE Writer /\ UNCHANGED <<pumpVars, consumerVars>>
  BY <1>5, CallsHandover
<1>6. CASE UNCHANGED vars
  <2>1. UNCHANGED <<bindingVars, at, batch, scheduled, queue, item, yielded, consumer>>
    BY <1>6 DEF vars, pumpVars, consumerVars
  <2>2. PumpReceived' = PumpReceived /\ call' = call /\ InHand' = InHand
    BY <2>1, SameReceived DEF InHand
  <2> QED
    BY <2>1, <2>2 DEF HandoverInv, CallInv, BatchInv, ItemInv, SentinelInv, ChunkInv,
                      HandedOverInOrder
<1> QED
  BY <1>1, <1>2, <1>3, <1>4, <1>5, <1>6 DEF Next

LEMMA HandoverInvariance == Spec => []HandoverInv
BY HandoverStart, HandoverStep, PumpInvariance, PTL DEF Spec

\* Chunks neither overtake nor lose one another on their way from the pump to
\* the application, whatever the sizes of a chunk and of the queue.
THEOREM NothingLostOnTheWay == Spec => []HandedOverInOrder
<1>1. HandoverInv => HandedOverInOrder
  BY DEF HandoverInv
<1> QED
  BY <1>1, HandoverInvariance, PTL

\* An iteration that ends by itself has yielded everything the pump got: nothing
\* follows the sentinel, and nothing is left anywhere when it arrives.
THEOREM EndsComplete == Spec => []IterationComplete
<1>1. PumpInv /\ HandoverInv => IterationComplete
  <2> SUFFICES ASSUME PumpInv, HandoverInv, consumer = "done"
               PROVE  yielded = PumpReceived
    BY DEF IterationComplete
  <2>1. queue = <<>> /\ scheduled = <<>> /\ at = "exited" /\ item = <<>> /\ batch = <<>>
    BY DEF HandoverInv, SentinelInv, ItemInv, BatchInv
  <2>2. InHand = <<>>
    BY <2>1 DEF InHand
  <2>3. FlattenSeq(queue) = <<>> /\ FlattenSeq(scheduled) = <<>>
    BY <2>1, FlattenEmpty
  <2>4. yielded \in Seq(Nat)
    BY PartsAreSequences DEF Parts
  <2>5. yielded \o <<>> = yielded
    BY <2>4, ConcatEmptySeq
  <2> QED
    BY <2>1, <2>2, <2>3, <2>5 DEF HandoverInv, HandedOverInOrder
<1> QED
  BY <1>1, PumpInvariance, HandoverInvariance, PTL

LEMMA ChunksAddUp ==
  \A k, l, m, c \in Nat : k + l <= m => k * c + l * c <= m * c
<1> SUFFICES ASSUME NEW k \in Nat, NEW l \in Nat, NEW m \in Nat, NEW c \in Nat, k + l <= m
             PROVE  k * c + l * c <= m * c
  OBVIOUS
<1>1. PICK r \in Nat : m = k + l + r
  <2>1. m - (k + l) \in Nat /\ m = k + l + (m - (k + l))
    OBVIOUS
  <2> QED
    BY <2>1
<1>2. (k + l + r) * c = k * c + l * c + r * c /\ r * c >= 0
  OBVIOUS
<1> QED
  BY <1>1, <1>2

\* However long the stream and however slow the application: at most a queue of
\* chunks and two more are read ahead of it.
THEOREM ReadAheadIsBounded == Spec => []ReadAheadBounded
<1>1. PumpInv /\ HandoverInv => ReadAheadBounded
  <2> SUFFICES ASSUME PumpInv, HandoverInv
               PROVE  Len(received[Pump]) - Len(yielded) <= (MaxQ + 2) * Chunk
    BY DEF ReadAheadBounded
  <2>1. Parts
    BY PartsAreSequences
  <2>2. PICK a, c, d, w \in Seq(Nat) :
          /\ a = yielded \o item /\ c = a \o FlattenSeq(queue)
          /\ d = c \o FlattenSeq(scheduled) /\ w = d \o batch
          /\ HandedOverInOrder <=> PumpReceived = w \o InHand
    BY Way DEF WayIs
  <2>3. /\ yielded \in Seq(Nat) /\ item \in Seq(Nat) /\ batch \in Seq(Nat) /\ InHand \in Seq(Nat)
        /\ FlattenSeq(queue) \in Seq(Nat) /\ FlattenSeq(scheduled) \in Seq(Nat)
    BY <2>1 DEF Parts
  <2>4. /\ Len(a) = Len(yielded) + Len(item) /\ Len(c) = Len(a) + Len(FlattenSeq(queue))
        /\ Len(d) = Len(c) + Len(FlattenSeq(scheduled)) /\ Len(w) = Len(d) + Len(batch)
        /\ Len(w \o InHand) = Len(w) + Len(InHand)
    BY <2>2, <2>3, ConcatProperties
  <2>5. Len(received[Pump]) = Len(w \o InHand)
    BY <2>1, <2>2 DEF Parts, HandoverInv
  <2>6. Chunk \in Nat /\ MaxQ \in Nat
    BY PumpAssumption
  <2>7. /\ Len(FlattenSeq(queue)) <= Len(queue) * Chunk
        /\ Len(FlattenSeq(scheduled)) <= Len(scheduled) * Chunk
    BY <2>1, <2>6, FlattenLength DEF Parts, HandoverInv, ChunkInv
  <2>8. Len(batch) + Len(InHand) <= Chunk /\ Len(item) <= Chunk
    <3>1. Len(batch) \in Nat /\ Len(InHand) \in Nat /\ Len(InHand) <= 1 /\ Len(<<>>) = 0
      BY <2>1, <2>3, LenProperties DEF Parts
    <3>2. CASE at = "read"
      BY <2>6, <3>1, <3>2 DEF HandoverInv, BatchInv, ChunkInv
    <3>3. CASE at # "read"
      <4>1. InHand = <<>>
        BY <3>3 DEF InHand
      <4>2. at \in PumpLabels
        BY DEF PumpInv, TypeOK
      <4>3. Len(batch) <= Chunk
        BY <2>6, <3>1, <4>2 DEF HandoverInv, BatchInv, PumpLabels
      <4> QED
        BY <3>1, <4>1, <4>3 DEF HandoverInv, ChunkInv
    <3> QED
      BY <3>2, <3>3
  <2>9. Len(queue) + Len(scheduled) <= MaxQ /\ Len(queue) \in Nat /\ Len(scheduled) \in Nat
    <3>1. Len(queue) \in Nat /\ Len(scheduled) \in Nat
      BY <2>1 DEF Parts
    <3> QED
      BY <2>6, <3>1 DEF PumpInv, TypeOK, Places
  <2>10. Len(queue) * Chunk + Len(scheduled) * Chunk <= MaxQ * Chunk
    BY <2>6, <2>9, ChunksAddUp
  <2>11. (MaxQ + 2) * Chunk = MaxQ * Chunk + Chunk + Chunk
    BY <2>6
  <2>12. /\ Len(yielded) \in Nat /\ Len(item) \in Nat /\ Len(batch) \in Nat /\ Len(InHand) \in Nat
         /\ Len(FlattenSeq(queue)) \in Nat /\ Len(FlattenSeq(scheduled)) \in Nat
    BY <2>3, LenProperties
  <2>13. Len(received[Pump]) =
           Len(yielded) + Len(item) + Len(FlattenSeq(queue)) + Len(FlattenSeq(scheduled))
             + Len(batch) + Len(InHand)
    BY <2>4, <2>5, <2>12
  <2>14. /\ MaxQ * Chunk \in Nat /\ Len(queue) * Chunk \in Nat
         /\ Len(scheduled) * Chunk \in Nat
    BY <2>6, <2>9
  <2>15. PICK k, l, m \in Nat :
           k = Len(queue) * Chunk /\ l = Len(scheduled) * Chunk /\ m = MaxQ * Chunk
    BY <2>14
  <2>16. PICK q, s \in Nat : q = Len(FlattenSeq(queue)) /\ s = Len(FlattenSeq(scheduled))
    BY <2>12
  <2>17. q + s <= m
    <3>1. q <= k /\ s <= l
      BY <2>7, <2>15, <2>16
    <3>2. k + l <= m
      BY <2>10, <2>15
    <3> QED
      BY <3>1, <3>2
  <2>18. Len(received[Pump]) - Len(yielded) <= m + Chunk + Chunk
    <3>1. PICK y, i, h, e \in Nat :
            y = Len(yielded) /\ i = Len(item) /\ h = Len(InHand) /\ e = Len(batch)
      BY <2>12
    <3>2. Len(received[Pump]) = y + i + q + s + e + h
      BY <2>13, <2>16, <3>1
    <3>3. e + h <= Chunk /\ i <= Chunk
      BY <2>8, <3>1
    <3>4. (y + i + q + s + e + h) - y <= m + Chunk + Chunk
      BY <2>6, <2>17, <3>3
    <3> QED
      BY <3>1, <3>2, <3>4
  <2> QED
    BY <2>11, <2>15, <2>18
<1> QED
  BY <1>1, PumpInvariance, HandoverInvariance, PTL
=============================================================================
