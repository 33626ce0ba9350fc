------------------------------- MODULE Batch -------------------------------
(***************************************************************************)
(* What one batch does with its bytes (src/rounds.rs and the slices the    *)
(* workers of src/pool.rs make of the caller's buffers).                   *)
(*                                                                         *)
(* The samples are laid out in one output buffer, one behind the other.    *)
(* A thread decrypts a pair of them in two lanes of one loop, each with    *)
(* its own chain, writes through raw pointers into the shared buffer, and  *)
(* copies the tails that are no whole block.  The result is cut into one   *)
(* plaintext per sample.                                                   *)
(*                                                                         *)
(* The rounds are a free function: a plaintext byte is named by its place  *)
(* and by the chain it was decrypted with, which is the list of the blocks *)
(* that went through this chain before.  How threads get their pairs and   *)
(* when the caller goes on is WorkerPool's matter.                         *)
(***************************************************************************)
EXTENDS Integers, Sequences

CONSTANTS
  Workers,     \* the threads of the pool
  Caller,      \* the thread that called
  Block,       \* bytes of a block
  MaxSamples,  \* bound: samples of the batch
  MaxLen       \* bound: bytes of a sample

ASSUME BatchAssumption ==
  /\ Caller \notin Workers
  /\ Block \in Nat \ {0}
  /\ MaxSamples \in Nat
  /\ MaxLen \in Nat

VARIABLES
  n,        \* samples of the batch, numbered from zero
  lens,     \* their lengths
  filled,   \* entries of offs that have been pushed
  offs,     \* where the region of each sample begins
  total,    \* the running sum, in the end the length of the output
  phase,    \* where the caller is: "layout", "decrypt" or "done"
  out,      \* the output buffer
  next,     \* next pair to be claimed
  retired,  \* pairs that are done
  pair,     \* pair[t]: the pair t works on, NoPair for none
  bi,       \* bi[t]: the block both its lanes are at
  st,       \* st[t]: the chains of its two lanes
  results   \* the plaintexts the caller returns

input == <<n, lens>>
layout == <<filled, offs, total>>
lanes == <<pair, bi, st>>
vars == <<input, layout, phase, out, next, retired, lanes, results>>

Threads == Workers \cup {Caller}

NoPair == -1

Samples == 0 .. n - 1

-----------------------------------------------------------------------------
(* Blocks, chains and bytes. *)

\* ciphertext.len() / 16
Blocks(s) == lens[s] \div Block

\* sample.len() / 16 * 16: what comes after it is the tail.
HeadLen(s) == Blocks(s) * Block

\* What the buffer holds before anything is written to it.
Stale == [is |-> "stale", sample |-> -1, pos |-> 0, chain |-> <<>>]

\* The k-th byte of a sample, as it came and decrypted with a chain.
CipherByte(s, k) == [is |-> "cipher", sample |-> s, pos |-> k, chain |-> <<>>]

PlainByte(s, k, c) == [is |-> "plain", sample |-> s, pos |-> k, chain |-> c]

\* A chain is the blocks it has been through.
Chains == Seq(Nat \X Nat)

\* st_init, before any block.
InitChain == <<>>

\* process_block leaves its state to the next block of the chain.
NextChain(s, b, c) == Append(c, <<s, b>>)

\* The chain a sample has when b of its blocks have been decrypted alone.
ChainOf(s, b) == [j \in 1 .. b |-> <<s, j - 1>>]

\* decrypt: one sample alone, its blocks on one chain, its tail as it came.
DecryptByte(s, k) ==
  IF k < HeadLen(s) THEN PlainByte(s, k, ChainOf(s, k \div Block)) ELSE CipherByte(s, k)

Decrypt(s) == [k \in 0 .. lens[s] - 1 |-> DecryptByte(s, k)]

-----------------------------------------------------------------------------
(* Layout and pairs. *)

Init ==
  /\ n \in 0 .. MaxSamples
  /\ lens \in [Samples -> 0 .. MaxLen]
  /\ filled = 0
  /\ offs = [s \in Samples |-> 0]
  /\ total = 0
  /\ phase = "layout"
  /\ out = <<>>
  /\ next = 0
  /\ retired = {}
  /\ pair = [t \in Threads |-> NoPair]
  /\ bi = [t \in Threads |-> 0]
  /\ st = [t \in Threads |-> <<InitChain, InitChain>>]
  /\ results = <<>>

RoomForBlocks(s) == HeadLen(s)  \* mutant: no room for the tail

\* total += s.len()
Room(s) == lens[s]

\* offs.push(total); total += s.len()
PushOffset ==
  /\ phase = "layout"
  /\ filled < n
  /\ offs' = [offs EXCEPT ![filled] = total]
  /\ total' = total + Room(filled)
  /\ filled' = filled + 1
  /\ UNCHANGED <<input, phase, out, next, retired, lanes, results>>

\* The buffer is allocated, or the one the caller passed is used.
Begin ==
  /\ phase = "layout"
  /\ filled = n
  /\ out' = [x \in 0 .. total - 1 |-> Stale]
  /\ phase' = "decrypt"
  /\ UNCHANGED <<input, layout, next, retired, lanes, results>>

NumPairs == (n + 1) \div 2

Pairs == 0 .. NumPairs - 1

First(p) == 2 * p
Second(p) == 2 * p + 1

\* if i2 < job.n
HasSecond(p) == Second(p) < n

LaneOf(s) == IF s % 2 = 0 THEN 1 ELSE 2

SamplesOf(p) == {s \in Samples : s = First(p) \/ s = Second(p)}

\* A single sample is decrypted by the caller, without the pool.
Crew == IF n = 1 THEN {Caller} ELSE Workers

OneTooMany == next <= NumPairs  \* mutant: > for >= in the test for the end

PairLeft == next < NumPairs

ChainsKept(t) == UNCHANGED st  \* mutant: the chains are not reset

\* let mut st1 = tmpl.st_init; let mut st2 = tmpl.st_init
ChainsReset(t) == st' = [st EXCEPT ![t] = <<InitChain, InitChain>>]

Claim(t) ==
  /\ phase = "decrypt"
  /\ t \in Crew
  /\ pair[t] = NoPair
  /\ PairLeft
  /\ pair' = [pair EXCEPT ![t] = next]
  /\ next' = next + 1
  /\ bi' = [bi EXCEPT ![t] = 0]
  /\ ChainsReset(t)
  /\ UNCHANGED <<input, layout, phase, out, retired, results>>

-----------------------------------------------------------------------------
(* Decryption of a pair. *)

\* Stores bytes[k] at place k of the region of s.
Store(o, s, bytes) ==
  [x \in DOMAIN o |-> IF x - offs[s] \in DOMAIN bytes THEN bytes[x - offs[s]] ELSE o[x]]

\* The block b of s, decrypted with chain c.
PlainBlock(s, b, c) ==
  [k \in b * Block .. b * Block + Block - 1 |-> PlainByte(s, k, c)]

EveryIteration(s, b) == TRUE  \* mutant: the shorter lane is not stopped

\* if bi < n1
InLane(s, b) == b < Blocks(s)

\* n1.max(n2); a pair of one sample is decrypted by the loop of one lane.
Iterations(p) ==
  IF HasSecond(p) /\ Blocks(Second(p)) > Blocks(First(p))
  THEN Blocks(Second(p))
  ELSE Blocks(First(p))

StoreBlock(o, s, b, c) == IF InLane(s, b) THEN Store(o, s, PlainBlock(s, b, c)) ELSE o

Advance(c, s, b) == IF InLane(s, b) THEN NextChain(s, b, c) ELSE c

\* One iteration of the loop: the next block of each lane.
DecryptBlocks(t) ==
  LET p == pair[t]
      b == bi[t]
      one == StoreBlock(out, First(p), b, st[t][1])
  IN
  /\ p # NoPair
  /\ b < Iterations(p)
  /\ out' = IF HasSecond(p) THEN StoreBlock(one, Second(p), b, st[t][2]) ELSE one
  /\ st' = [st EXCEPT ![t] =
       <<Advance(st[t][1], First(p), b),
         IF HasSecond(p) THEN Advance(st[t][2], Second(p), b) ELSE st[t][2]>>]
  /\ bi' = [bi EXCEPT ![t] = b + 1]
  /\ UNCHANGED <<input, layout, phase, next, retired, pair, results>>

TailsFromNext(s) ==  \* mutant: off by one
  [k \in HeadLen(s) + 1 .. lens[s] - 1 |-> CipherByte(s, k)]

\* s1[h1..]
Tails(s) == [k \in HeadLen(s) .. lens[s] - 1 |-> CipherByte(s, k)]

\* out1[h1..].copy_from_slice(&s1[h1..]), and the pair is done.
CopyTails(t) ==
  LET p == pair[t]
      one == Store(out, First(p), Tails(First(p)))
  IN
  /\ p # NoPair
  /\ bi[t] = Iterations(p)
  /\ out' = IF HasSecond(p) THEN Store(one, Second(p), Tails(Second(p))) ELSE one
  /\ retired' = retired \cup {p}
  /\ pair' = [pair EXCEPT ![t] = NoPair]
  /\ UNCHANGED <<input, layout, phase, next, bi, st, results>>

\* All pairs are done, the call returns, and the caller cuts the buffer up.
Split ==
  /\ phase = "decrypt"
  /\ retired = Pairs
  /\ results' = [s \in Samples |-> [k \in 0 .. lens[s] - 1 |-> out[offs[s] + k]]]
  /\ phase' = "done"
  /\ UNCHANGED <<input, layout, out, next, retired, lanes>>

Next ==
  \/ PushOffset
  \/ Begin
  \/ \E t \in Threads : Claim(t) \/ DecryptBlocks(t) \/ CopyTails(t)
  \/ Split

Spec == Init /\ [][Next]_vars

-----------------------------------------------------------------------------
(* Properties. *)

\* Every variable has its type; a claimed pair is one of the batch.
TypeOK ==
  /\ n \in 0 .. MaxSamples
  /\ lens \in [Samples -> 0 .. MaxLen]
  /\ filled \in 0 .. n
  /\ offs \in [Samples -> Nat]
  /\ total \in Nat
  /\ phase \in {"layout", "decrypt", "done"}
  /\ phase # "layout" => filled = n /\ DOMAIN out = 0 .. total - 1
  /\ next \in 0 .. NumPairs
  /\ retired \subseteq Pairs
  /\ pair \in [Threads -> Pairs \cup {NoPair}]
  /\ bi \in [Threads -> Nat]
  /\ st \in [Threads -> Chains \X Chains]

\* The SAFETY comment of worker_loop (src/pool.rs:160): the regions that threads
\* write through raw pointers do not overlap, and they are inside the buffer.
RegionsDisjoint ==
  /\ \A i, j \in 0 .. filled - 1 : i < j => offs[i] + lens[i] <= offs[j]
  /\ \A i \in 0 .. filled - 1 : offs[i] + lens[i] <= total

\* How many of the blocks of s are done after b iterations of its loop.
Progress(s, b) == IF b < Blocks(s) THEN b ELSE Blocks(s)

\* The two lanes of a loop keep their chains apart, also when one is shorter, and
\* start from the template whatever the thread decrypted before.
ChainsSeparate ==
  \A t \in Threads : pair[t] # NoPair =>
    \A s \in SamplesOf(pair[t]) :
      st[t][LaneOf(s)] = ChainOf(s, Progress(s, bi[t]))

\* Nothing is ever written to the region of a sample but its own plaintext, each
\* byte at its place, whatever other threads write at the time.
NothingMisplaced ==
  phase # "layout" =>
    \A s \in Samples : \A k \in 0 .. lens[s] - 1 :
      out[offs[s] + k] \in {Stale, DecryptByte(s, k)}

\* A batch gives what decrypt gives for each of its samples alone ("samples are
\* independent", src/rounds.rs:224), in order and with tails as they came.
EachAsAlone == phase = "done" => results = [s \in Samples |-> Decrypt(s)]

-----------------------------------------------------------------------------
(* The inductive invariant: the properties, and what they rest on. *)

\* Each thread works on a pair of its own that is claimed and not retired.
ClaimInv ==
  /\ \A t \in Threads : pair[t] # NoPair =>
       /\ phase = "decrypt"
       /\ pair[t] < next
       /\ pair[t] \notin retired
       /\ bi[t] <= Iterations(pair[t])
  /\ \A t, u \in Threads : pair[t] = pair[u] /\ pair[t] # NoPair => t = u
  /\ \A p \in retired : p < next
  /\ phase = "layout" => retired = {} /\ next = 0

\* The first m bytes of the region of s are the plaintext of s.
Written(o, s, m) == \A k \in 0 .. m - 1 : o[offs[s] + k] = DecryptByte(s, k)

\* What has been decrypted is in the buffer.
ProgressInv ==
  /\ \A p \in retired : \A s \in SamplesOf(p) : Written(out, s, lens[s])
  /\ \A t \in Threads : pair[t] # NoPair =>
       \A s \in SamplesOf(pair[t]) : Written(out, s, Progress(s, bi[t]) * Block)

BatchInv ==
  /\ TypeOK
  /\ RegionsDisjoint
  /\ ClaimInv
  /\ ChainsSeparate
  /\ NothingMisplaced
  /\ ProgressInv
  /\ EachAsAlone
=============================================================================
