--------------------------- MODULE StreamInvariant ---------------------------
(***************************************************************************)
(* The inductive invariant of Stream, in named parts.                      *)
(*                                                                         *)
(* NothingLost is not inductive: that the buffer may be cleared after its  *)
(* last plaintext, or that an exit leaves nothing behind, depends on where *)
(* the coordinator is and on what it knows of the sender.                  *)
(***************************************************************************)
EXTENDS Stream

\* The mutex is held exactly by the producer inside send, and only while the
\* sender is alive: whoever closes the input has waited for it.
LockInv ==
  /\ \A p \in Producers : pc[p] = "send" <=> txLock = p
  /\ txLock # NoThread => txOpen
  /\ closed \/ (\E p \in Producers : pc[p] = "flag") => ~txOpen

\* The owner drops a stream nobody is in; from then on nobody enters.
DropInv ==
  /\ ~InUse => ~txOpen /\ \A t \in Producers \cup Consumers : pc[t] = "idle"
  /\ pc[Owner] = "dropped" => CoordinatorGone

\* What the coordinator has in hand at each of its steps.
LoopInv ==
  /\ cpc = "first" => buffer = <<>>
  /\ cpc \in {"first", "more"} => inputOpen /\ Len(buffer) < Batch
  /\ cpc \in {"first", "more", "decrypt"} => sent = 0
  /\ cpc = "decrypt" => buffer # <<>>
  /\ cpc = "send" => sent < Len(buffer)
  /\ CoordinatorGone => buffer = <<>> /\ inq = <<>> /\ sent = 0
  /\ cpc = "exited" => ~inputOpen

\* The coordinator takes the input for closed only when it is, and drained.
ClosedInv == ~inputOpen => ~txOpen /\ inq = <<>>

RoomInv == Len(inq) <= Capacity

PanicInv == cpc = "panicked" => Fallible

\* What is ready to come out has been accepted, panic or not.
CountInv == pc[Owner] # "dropped" => Delivered <= accepted

\* After the end there is nothing to receive; it was told too early only if
\* the coordinator panicked.
EndInv ==
  answer = "end" =>
    /\ CoordinatorGone
    /\ outq = <<>>
    /\ cpc # "panicked" => ~txOpen /\ Len(got) = accepted

SInv ==
  /\ TypeOK
  /\ InOrder
  /\ NothingLost
  /\ LockInv
  /\ DropInv
  /\ LoopInv
  /\ ClosedInv
  /\ RoomInv
  /\ PanicInv
  /\ CountInv
  /\ EndInv
=============================================================================
