---------------------------- MODULE OrderedStream ----------------------------
(***************************************************************************)
(* What a stream promises: plaintexts come out in submission order, none   *)
(* missing and none twice, and the end is reported only when the input is  *)
(* closed and everything that was accepted has come out.                   *)
(*                                                                         *)
(* Samples are named by the order they are accepted in: 1, 2, 3, ...       *)
(***************************************************************************)
EXTENDS Naturals, Sequences

VARIABLES
  accepted,   \* number of samples the stream has taken responsibility for
  delivered,  \* the plaintexts that came out, in the order they did
  open,       \* the input side is open
  ended       \* a receiver has been told that there is no more

vars == <<accepted, delivered, open, ended>>

Init ==
  /\ accepted = 0
  /\ delivered = <<>>
  /\ open = TRUE
  /\ ended = FALSE

Accept ==
  /\ open
  /\ accepted' = accepted + 1
  /\ UNCHANGED <<delivered, open, ended>>

Deliver ==
  /\ Len(delivered) < accepted
  /\ delivered' = Append(delivered, Len(delivered) + 1)
  /\ UNCHANGED <<accepted, open, ended>>

Close ==
  /\ open' = FALSE
  /\ UNCHANGED <<accepted, delivered, ended>>

End ==
  /\ ~open
  /\ Len(delivered) = accepted
  /\ ended' = TRUE
  /\ UNCHANGED <<accepted, delivered, open>>

Next == Accept \/ Deliver \/ Close \/ End

Spec == Init /\ [][Next]_vars
=============================================================================
