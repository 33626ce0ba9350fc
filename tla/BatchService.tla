---------------------------- MODULE BatchService ----------------------------
(***************************************************************************)
(* What decrypt_par promises its callers, with no threads in it.           *)
(*                                                                         *)
(* A call hands over a batch of samples and gets its buffer back full.     *)
(* Batches of two samples or more are served one at a time, a few samples  *)
(* per step and in any order, each sample once; smaller ones are served at *)
(* once by the caller itself.  Nothing is written to the buffer of a call  *)
(* that has not begun to be served, or that has been told to return.       *)
(***************************************************************************)
EXTENDS Naturals

CONSTANTS
  Callers,     \* threads that call decrypt_par
  MaxSamples,  \* largest batch
  NoThread     \* "no call is being served"

VARIABLES
  phase,    \* phase[c]: where the call of c stands
  batch,    \* batch[c]: number of samples of the call of c
  out,      \* out[c]: samples whose plaintext is in the buffer of c
  serving   \* the caller whose batch the workers are on, or NoThread

vars == <<phase, batch, out, serving>>

Phases == {"idle", "called", "serving", "done"}

\* Samples are numbered from zero, as in the code.
Samples(n) == {s \in 0 .. MaxSamples : s < n}

Init ==
  /\ phase = [c \in Callers |-> "idle"]
  /\ batch = [c \in Callers |-> 0]
  /\ out = [c \in Callers |-> {}]
  /\ serving = NoThread

Call(c, n) ==
  /\ phase[c] = "idle"
  /\ phase' = [phase EXCEPT ![c] = "called"]
  /\ batch' = [batch EXCEPT ![c] = n]
  /\ UNCHANGED <<out, serving>>

\* At most one sample: the caller decrypts it itself.
ServeInline(c) ==
  /\ phase[c] = "called"
  /\ batch[c] <= 1
  /\ phase' = [phase EXCEPT ![c] = "done"]
  /\ out' = [out EXCEPT ![c] = Samples(batch[c])]
  /\ UNCHANGED <<batch, serving>>

Begin(c) ==
  /\ phase[c] = "called"
  /\ batch[c] >= 2
  /\ serving = NoThread
  /\ phase' = [phase EXCEPT ![c] = "serving"]
  /\ serving' = c
  /\ UNCHANGED <<batch, out>>

\* Some samples that were not in the buffer yet are now.
Deliver(c) ==
  /\ serving = c
  /\ \E S \in (SUBSET (Samples(batch[c]) \ out[c])) \ {{}} :
       out' = [out EXCEPT ![c] = @ \cup S]
  /\ UNCHANGED <<phase, batch, serving>>

\* Only a full buffer ends the service of a batch.
End(c) ==
  /\ serving = c
  /\ phase[c] = "serving"
  /\ out[c] = Samples(batch[c])
  /\ phase' = [phase EXCEPT ![c] = "done"]
  /\ serving' = NoThread
  /\ UNCHANGED <<batch, out>>

Return(c) ==
  /\ phase[c] = "done"
  /\ phase' = [phase EXCEPT ![c] = "idle"]
  /\ batch' = [batch EXCEPT ![c] = 0]
  /\ out' = [out EXCEPT ![c] = {}]
  /\ UNCHANGED serving

Next ==
  \E c \in Callers :
    \/ \E n \in 0 .. MaxSamples : Call(c, n)
    \/ ServeInline(c)
    \/ Begin(c)
    \/ Deliver(c)
    \/ End(c)
    \/ Return(c)

Spec == Init /\ [][Next]_vars
=============================================================================
