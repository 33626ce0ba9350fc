---------------------------- MODULE StreamBinding ----------------------------
(***************************************************************************)
(* What an application sees of a stream: the stream functions of ffi.rs    *)
(* and the loops around them in the bindings (Python's next and try_next,  *)
(* Go's Next and TryNext).                                                 *)
(*                                                                         *)
(* The FFI copies at most as many bytes as the caller has room for and     *)
(* says how many; 0 means the end.  A reader that is given as many bytes   *)
(* as it had room for takes the plaintext for longer, doubles its room and *)
(* asks again.  By then the stream has handed the plaintext over.          *)
(*                                                                         *)
(* The stream is seen through its promise, OrderedStream.  A plaintext has *)
(* the length of its sample; of its bytes only their number is kept.  Go's *)
(* Submit never submits an empty sample: for Go, 0 is not in Lengths.      *)
(***************************************************************************)
EXTENDS Integers, Sequences

CONSTANTS
  Readers,     \* threads that call next or try_next, Go's goroutine of C() too
  Lengths,     \* lengths of samples
  StartRoom,   \* 1 << 16 bytes in Python, 4096 in Go
  MaxSamples   \* bound: samples accepted in a behaviour

ASSUME BindingAssumption ==
  /\ Lengths \subseteq Nat
  /\ StartRoom \in Nat \ {0}
  /\ MaxSamples \in Nat

VARIABLES
  accepted,   \* the stream: number of samples accepted
  delivered,  \* the stream: plaintexts that have left it
  open,       \* the stream: the input is open
  ended,      \* the stream: it has reported its end
  size,       \* length of each sample accepted
  call,       \* the call each reader is in
  room,       \* cap of its loop
  result,     \* what its last call returned
  received    \* history: plaintexts each reader returned, in order

stream == <<accepted, delivered, open, ended>>
readers == <<call, room, result, received>>
bindingVars == <<stream, size, readers>>

Ordered == INSTANCE OrderedStream

BindingInit ==
  /\ Ordered!Init
  /\ size = <<>>
  /\ call = [r \in Readers |-> "none"]
  /\ room = [r \in Readers |-> StartRoom]
  /\ result = [r \in Readers |-> "none"]
  /\ received = [r \in Readers |-> <<>>]

-----------------------------------------------------------------------------
(* The writer.  A sample submitted after finish() changes nothing and      *)
(* nobody is told: stream_submit drops the error.                          *)

Submit(n) ==
  /\ accepted < MaxSamples
  /\ Ordered!Accept
  /\ size' = Append(size, n)
  /\ UNCHANGED readers

Finish ==
  /\ open
  /\ Ordered!Close
  /\ UNCHANGED <<size, readers>>

-----------------------------------------------------------------------------
(* The readers. *)

Begin(r, kind) ==
  /\ call[r] = "none"
  /\ call' = [call EXCEPT ![r] = kind]
  /\ room' = [room EXCEPT ![r] = StartRoom]
  /\ UNCHANGED <<stream, size, result, received>>

CallNext(r) == Begin(r, "next")

CallTryNext(r) == Begin(r, "try")

Return(r, what) ==
  /\ call' = [call EXCEPT ![r] = "none"]
  /\ result' = [result EXCEPT ![r] = what]

\* The plaintext that leaves the stream next.
Upcoming == Len(delivered) + 1

\* plain.len().min(cap)
Copied(r) == IF size[Upcoming] <= room[r] THEN size[Upcoming] ELSE room[r]

FitsBarely(n, c) == n <= c  \* mutant: <= for <

\* if n < cap: return
Fits(n, c) == n < c

AlmostNothing(n) == n <= 1  \* mutant: <= 1 for == 0

\* if n == 0: return None
LooksLikeEnd(n) == n = 0

\* stream_next hands over a plaintext, and 0 is not taken for the end.
NextData(r) ==
  /\ call[r] = "next"
  /\ Ordered!Deliver
  /\ ~LooksLikeEnd(Copied(r))
  /\ Fits(Copied(r), room[r])
  /\ received' = [received EXCEPT ![r] =
                    Append(@, [sample |-> Upcoming, length |-> Copied(r)])]
  /\ Return(r, "data")
  /\ UNCHANGED <<size, room>>

\* stream_next hands over a plaintext of no bytes, which reads as the end.
NextNothing(r) ==
  /\ call[r] = "next"
  /\ Ordered!Deliver
  /\ LooksLikeEnd(Copied(r))
  /\ Return(r, "end")
  /\ UNCHANGED <<size, room, received>>

NextEnd(r) ==
  /\ call[r] = "next"
  /\ Ordered!End
  /\ Return(r, "end")
  /\ UNCHANGED <<size, room, received>>

SquareRoom(c) == c * c  \* mutant: cap is squared

\* cap *= 2
NextRoom(c) == 2 * c

\* The plaintext filled the buffer: more room, and the call once more.
Retry(r) ==
  /\ call[r] # "none"
  /\ Ordered!Deliver
  /\ call[r] = "next" => ~LooksLikeEnd(Copied(r))
  /\ ~Fits(Copied(r), room[r])
  /\ room' = [room EXCEPT ![r] = NextRoom(@)]
  /\ UNCHANGED <<size, call, result, received>>

\* stream_try_next says 1, and the length apart: 0 is a length like another.
TryNextData(r) ==
  /\ call[r] = "try"
  /\ Ordered!Deliver
  /\ Fits(Copied(r), room[r])
  /\ received' = [received EXCEPT ![r] =
                    Append(@, [sample |-> Upcoming, length |-> Copied(r)])]
  /\ Return(r, "data")
  /\ UNCHANGED <<size, room>>

\* It says 0: what was accepted may still be on its way.
TryNextEmpty(r) ==
  /\ call[r] = "try"
  /\ ~ended
  /\ Return(r, "empty")
  /\ UNCHANGED <<stream, size, room, received>>

\* It says -1.
TryNextEnd(r) ==
  /\ call[r] = "try"
  /\ Ordered!End
  /\ Return(r, "end")
  /\ UNCHANGED <<size, room, received>>

NextStep(r) == NextData(r) \/ NextNothing(r) \/ NextEnd(r) \/ Retry(r)

TryNextStep(r) == TryNextData(r) \/ TryNextEmpty(r) \/ TryNextEnd(r) \/ Retry(r)

Writer == Finish \/ \E n \in Lengths : Submit(n)

BindingNext ==
  \/ Writer
  \/ \E r \in Readers :
       CallNext(r) \/ CallTryNext(r) \/ NextStep(r) \/ TryNextStep(r)

BindingSpec == BindingInit /\ [][BindingNext]_bindingVars

-----------------------------------------------------------------------------
(* Properties. *)

\* Every variable has its type, and a loop never asks for more than twice the
\* length of the longest plaintext it has met.
BindingTypeOK ==
  /\ accepted \in Nat
  /\ delivered \in Seq(Nat)
  /\ open \in BOOLEAN
  /\ ended \in BOOLEAN
  /\ size \in Seq(Lengths)
  /\ Len(size) = accepted
  /\ call \in [Readers -> {"none", "next", "try"}]
  /\ room \in [Readers -> Nat \ {0}]
  /\ \A r \in Readers :
       room[r] = StartRoom \/ \E i \in 1 .. Len(delivered) : room[r] <= 2 * size[i]
  /\ result \in [Readers -> {"none", "data", "empty", "end"}]
  /\ received \in [Readers -> Seq([sample : Nat, length : Nat])]

Received(r) == {received[r][k].sample : k \in DOMAIN received[r]}

\* A plaintext an application gets is whole: the FFI cuts what does not fit and
\* does not say so, and the loops never take the beginning of a plaintext for
\* all of it.
WholePlaintexts ==
  \A r \in Readers : \A k \in DOMAIN received[r] :
    received[r][k].length = size[received[r][k].sample]

\* Of the plaintexts that left the stream only empty ones and those that are
\* not shorter than the first buffer may be missing: whoever takes a short one
\* out of the stream, in a retry for a longer one too, returns it.
ShortOnesArrive ==
  \A i \in 1 .. Len(delivered) :
    0 < size[i] /\ size[i] < StartRoom => \E r \in Readers : i \in Received(r)

\* "None once the stream is closed and everything is consumed"
\* (__init__.py:273).  An empty sample breaks it, and nothing else.
EndIsExplained ==
  (\E r \in Readers : result[r] = "end") =>
    \/ ~open /\ Len(delivered) = accepted
    \/ \E i \in 1 .. Len(delivered) : size[i] = 0

\* "larger sample than guessed capacity: retry with more room"
\* (__init__.py:285): when the end is reported, the readers have got every
\* sample that was accepted.  It does not hold: the retry gets the next one.
RetryGetsIt ==
  (\E r \in Readers : result[r] = "end") =>
    1 .. accepted = UNION {Received(r) : r \in Readers}

-----------------------------------------------------------------------------
(* The inductive invariant. *)

\* What has left the stream had entered it, and what a reader got had left it.
TakenInv ==
  /\ Len(delivered) <= accepted
  /\ \A r \in Readers : Received(r) \subseteq 1 .. Len(delivered)

\* The room of a loop only grows.
RoomInv == \A r \in Readers : StartRoom <= room[r]

BindingInv ==
  /\ BindingTypeOK
  /\ TakenInv
  /\ RoomInv
  /\ WholePlaintexts
  /\ ShortOnesArrive
  /\ EndIsExplained
=============================================================================
