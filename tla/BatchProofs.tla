----------------------------- MODULE BatchProofs -----------------------------
(***************************************************************************)
(* Proofs about Batch, for any threads, block size and bounds.             *)
(*                                                                         *)
(* The steps that write are seen through StoreRight: storing bytes of the  *)
(* plaintext of a sample in the region of this sample makes none of the    *)
(* bytes that were right wrong, because regions are disjoint.              *)
(***************************************************************************)
EXTENDS Batch, SequenceTheorems, TLAPS

-----------------------------------------------------------------------------
(* Blocks, chains and pairs. *)

\* The whole blocks of a sample are a prefix of it, and the tail is shorter than
\* a block.
LEMMA HeadFacts ==
  ASSUME TypeOK, NEW s \in Samples
  PROVE  /\ lens[s] \in Nat /\ Block \in Nat \ {0}
         /\ Blocks(s) \in Nat
         /\ HeadLen(s) \in Nat
         /\ HeadLen(s) <= lens[s]
<1>1. lens[s] \in Nat /\ Block \in Nat \ {0}
  BY BatchAssumption DEF TypeOK
<1>2. /\ lens[s] \div Block \in Nat
      /\ (lens[s] \div Block) * Block \in Nat
      /\ (lens[s] \div Block) * Block <= lens[s]
  BY <1>1, SMT
<1> QED
  BY <1>1, <1>2 DEF Blocks, HeadLen

\* Block b of a sample is inside its whole blocks, and its bytes know it.
LEMMA BlockFacts ==
  ASSUME TypeOK, NEW s \in Samples, NEW b \in Nat, b < Blocks(s)
  PROVE  /\ b * Block \in Nat /\ (b + 1) * Block = b * Block + Block
         /\ b * Block + Block <= HeadLen(s)
         /\ \A k \in b * Block .. b * Block + Block - 1 :
              k \in 0 .. lens[s] - 1 /\ k < HeadLen(s) /\ k \div Block = b
<1>1. /\ lens[s] \in Nat /\ Block \in Nat \ {0} /\ Blocks(s) \in Nat
      /\ HeadLen(s) \in Nat /\ HeadLen(s) <= lens[s]
  BY HeadFacts
<1>2. b * Block \in Nat /\ (b + 1) * Block = b * Block + Block
  BY <1>1, SMT
<1>3. b * Block + Block <= HeadLen(s)
  <2>1. \A c \in Nat : b < c => b * Block + Block <= c * Block
    BY <1>1, SMT
  <2> QED
    BY <1>1, <2>1 DEF HeadLen
<1>4. \A k \in Nat : k \in b * Block .. b * Block + Block - 1 => k \div Block = b
  BY <1>1, SMT
<1> QED
  BY <1>1, <1>2, <1>3, <1>4

LEMMA NoChains == <<<<>>, <<>>>> \in Chains \X Chains
<1>1. <<>> \in Chains
  BY EmptySeq DEF Chains
<1> QED
  BY <1>1

\* A chain that is one block longer.
LEMMA ChainGrows ==
  ASSUME NEW s \in Nat, NEW b \in Nat
  PROVE  /\ ChainOf(s, b) \in Chains
         /\ NextChain(s, b, ChainOf(s, b)) = ChainOf(s, b + 1)
<1> DEFINE c == ChainOf(s, b)
           d == ChainOf(s, b + 1)
<1>1. \A j \in 1 .. b : <<s, j - 1>> \in Nat \X Nat
  OBVIOUS
<1>2. c \in Seq(Nat \X Nat) /\ Len(c) = b
  BY <1>1, IsASeq DEF ChainOf
<1>3. d \in Seq(Nat \X Nat) /\ Len(d) = b + 1
  <2>1. \A j \in 1 .. b + 1 : <<s, j - 1>> \in Nat \X Nat
    OBVIOUS
  <2> QED
    BY <2>1, IsASeq DEF ChainOf
<1>4. /\ Append(c, <<s, b>>) \in Seq(Nat \X Nat)
      /\ Len(Append(c, <<s, b>>)) = b + 1
      /\ \A j \in 1 .. b : Append(c, <<s, b>>)[j] = c[j]
      /\ Append(c, <<s, b>>)[b + 1] = <<s, b>>
  <2>1. <<s, b>> \in Nat \X Nat
    OBVIOUS
  <2> HIDE DEF c
  <2> QED
    BY <1>2, <2>1, AppendProperties
<1>5. \A j \in 1 .. b + 1 : Append(c, <<s, b>>)[j] = d[j]
  <2>1. \A j \in 1 .. b : c[j] = <<s, j - 1>>
    BY DEF ChainOf
  <2>2. \A j \in 1 .. b + 1 : d[j] = <<s, j - 1>>
    BY DEF ChainOf
  <2>3. d[b + 1] = <<s, b>>
    <3>1. d[b + 1] = <<s, (b + 1) - 1>>
      BY <2>2
    <3>2. (b + 1) - 1 = b
      OBVIOUS
    <3> QED
      BY <3>1, <3>2
  <2>4. \A j \in 1 .. b : d[j] = c[j]
    BY <2>1, <2>2
  <2>5. \A j \in 1 .. b + 1 : j \in 1 .. b \/ j = b + 1
    OBVIOUS
  <2> HIDE DEF c, d
  <2> QED
    BY <1>4, <2>3, <2>4, <2>5
<1>6. Append(c, <<s, b>>) = d
  <2> HIDE DEF c, d
  <2> QED
    BY <1>3, <1>4, <1>5, SeqEqual
<1> QED
  BY <1>2, <1>6 DEF NextChain, Chains

\* The samples of a pair.
LEMMA PairFacts ==
  ASSUME TypeOK, NEW p \in Pairs
  PROVE  /\ p \in Nat /\ n \in Nat
         /\ First(p) \in Samples /\ First(p) \in Nat /\ LaneOf(First(p)) = 1
         /\ HasSecond(p) => Second(p) \in Samples /\ LaneOf(Second(p)) = 2
         /\ SamplesOf(p) = IF HasSecond(p) THEN {First(p), Second(p)} ELSE {First(p)}
         /\ First(p) # Second(p)
<1>1. n \in Nat /\ p \in Nat /\ p < (n + 1) \div 2
  BY BatchAssumption DEF TypeOK, Pairs, NumPairs
<1>2. 2 * p < n /\ 2 * p \in Nat /\ (2 * p) % 2 = 0 /\ (2 * p + 1) % 2 = 1
  BY <1>1
<1> QED
  BY <1>1, <1>2 DEF First, Second, HasSecond, LaneOf, SamplesOf, Samples

\* Every sample is in a pair.
LEMMA PairsCover ==
  ASSUME TypeOK, NEW s \in Samples
  PROVE  \E p \in Pairs : s \in SamplesOf(p)
<1>1. n \in Nat /\ s \in Nat /\ s < n
  BY BatchAssumption DEF TypeOK, Samples
<1>2. /\ s \div 2 \in 0 .. (n + 1) \div 2 - 1
      /\ s = 2 * (s \div 2) \/ s = 2 * (s \div 2) + 1
  BY <1>1
<1> QED
  BY <1>2 DEF Pairs, NumPairs, SamplesOf, First, Second

-----------------------------------------------------------------------------
(* Writing to the buffer. *)

Laid == TypeOK /\ RegionsDisjoint /\ filled = n

\* q differs from o only by bytes that are right.
Kept(o, q) ==
  /\ DOMAIN q = DOMAIN o
  /\ \A r \in Samples : \A k \in 0 .. lens[r] - 1 :
       q[offs[r] + k] \in {o[offs[r] + k], DecryptByte(r, k)}

LEMMA KeptTwice ==
  ASSUME NEW o, NEW q, NEW x, Kept(o, q), Kept(q, x)
  PROVE  Kept(o, x)
  BY DEF Kept

\* What was written stays written.
LEMMA KeptWritten ==
  ASSUME NEW o, NEW q, Kept(o, q), NEW r \in Samples, NEW m \in Nat,
         lens[r] \in Nat, m <= lens[r], Written(o, r, m)
  PROVE  Written(q, r, m)
<1> SUFFICES ASSUME NEW k \in 0 .. m - 1
             PROVE  q[offs[r] + k] = DecryptByte(r, k)
  BY DEF Written
<1>1. k \in 0 .. lens[r] - 1
  OBVIOUS
<1> QED
  BY <1>1 DEF Kept, Written

\* A place of the region of r and one of the region of s are the same only if
\* they are the same place of one sample.
LEMMA Places ==
  ASSUME Laid, NEW r \in Samples, NEW s \in Samples,
         NEW k \in 0 .. lens[r] - 1, NEW j \in 0 .. lens[s] - 1
  PROVE  /\ offs[r] + k \in 0 .. total - 1
         /\ offs[r] + k - offs[s] = j => r = s /\ k = j
<1>1. /\ n \in Nat /\ lens[r] \in Nat /\ lens[s] \in Nat
      /\ offs[r] \in Nat /\ offs[s] \in Nat /\ total \in Nat
  BY BatchAssumption DEF Laid, TypeOK
<1>2. r \in 0 .. filled - 1 /\ s \in 0 .. filled - 1
  BY DEF Laid, Samples
<1>3. /\ offs[r] + lens[r] <= total
      /\ r < s => offs[r] + lens[r] <= offs[s]
      /\ s < r => offs[s] + lens[s] <= offs[r]
  BY <1>2 DEF Laid, RegionsDisjoint
<1>4. r = s \/ r < s \/ s < r
  BY <1>1 DEF Samples
<1> QED
  BY <1>1, <1>3, <1>4

\* Bytes of the plaintext of s, stored in its region, are there afterwards, and
\* nothing that was right is wrong.
LEMMA StoreRight ==
  ASSUME Laid, NEW o, DOMAIN o = 0 .. total - 1,
         NEW s \in Samples, NEW bytes,
         \A k \in DOMAIN bytes : k \in 0 .. lens[s] - 1 /\ bytes[k] = DecryptByte(s, k)
  PROVE  /\ Kept(o, Store(o, s, bytes))
         /\ \A k \in DOMAIN bytes : Store(o, s, bytes)[offs[s] + k] = DecryptByte(s, k)
<1> DEFINE q == Store(o, s, bytes)
<1>1. DOMAIN q = DOMAIN o
  BY DEF Store
<1>2. \A x \in 0 .. total - 1 :
        q[x] = IF x - offs[s] \in DOMAIN bytes THEN bytes[x - offs[s]] ELSE o[x]
  BY DEF Store
<1>3. offs[s] \in Nat /\ lens[s] \in Nat
  BY DEF Laid, TypeOK
<1> HIDE DEF q
<1>4. ASSUME NEW r \in Samples, NEW k \in 0 .. lens[r] - 1
      PROVE  q[offs[r] + k] \in {o[offs[r] + k], DecryptByte(r, k)}
  <2> DEFINE x == offs[r] + k
             j == x - offs[s]
  <2>0. offs[r] \in Nat /\ k \in Nat
    BY DEF Laid, TypeOK
  <2>1. q[x] = IF j \in DOMAIN bytes THEN bytes[j] ELSE o[x]
    <3>1. x \in 0 .. total - 1
      BY Places
    <3> HIDE DEF x
    <3> QED
      BY <1>2, <3>1
  <2>2. ASSUME j \in DOMAIN bytes
        PROVE  q[x] = DecryptByte(r, k)
    <3>1. j \in 0 .. lens[s] - 1 /\ bytes[j] = DecryptByte(s, j)
      <4> HIDE DEF j
      <4> QED
        BY <2>2
    <3>2. PICK i \in 0 .. lens[s] - 1 : i = offs[r] + k - offs[s]
      BY <1>3, <2>0, <3>1
    <3>3. r = s /\ k = i
      BY <3>2, Places
    <3>4. k = j
      BY <1>3, <2>0, <3>2, <3>3
    <3> HIDE DEF x, j
    <3> QED
      BY <2>1, <2>2, <3>1, <3>3, <3>4
  <2>3. ASSUME j \notin DOMAIN bytes
        PROVE  q[x] = o[x]
    <3> HIDE DEF x, j
    <3> QED
      BY <2>1, <2>3
  <2>4. q[x] \in {o[x], DecryptByte(r, k)}
    <3> HIDE DEF x, j
    <3> QED
      BY <2>2, <2>3
  <2> QED
    BY <2>4
<1>5. ASSUME NEW k \in DOMAIN bytes
      PROVE  q[offs[s] + k] = DecryptByte(s, k)
  <2>1. k \in 0 .. lens[s] - 1 /\ bytes[k] = DecryptByte(s, k)
    OBVIOUS
  <2> DEFINE x == offs[s] + k
  <2>2. x \in 0 .. total - 1
    BY <2>1, Places
  <2>3. x - offs[s] = k
    BY <1>3, <2>1
  <2> HIDE DEF x
  <2>4. q[x] = IF k \in DOMAIN bytes THEN bytes[k] ELSE o[x]
    BY <1>2, <2>2, <2>3
  <2>5. q[x] = DecryptByte(s, k)
    BY <2>1, <2>4
  <2> QED
    BY <2>5 DEF x
<1>6. Kept(o, q)
  BY <1>1, <1>4 DEF Kept
<1> QED
  BY <1>5, <1>6 DEF q

\* One lane of one iteration.
LEMMA BlockRight ==
  ASSUME Laid, NEW o, DOMAIN o = 0 .. total - 1,
         NEW s \in Samples, NEW b \in Nat, NEW c, c = ChainOf(s, Progress(s, b))
  PROVE  /\ Kept(o, StoreBlock(o, s, b, c))
         /\ Written(o, s, Progress(s, b) * Block)
              => Written(StoreBlock(o, s, b, c), s, Progress(s, b + 1) * Block)
         /\ Advance(c, s, b) = ChainOf(s, Progress(s, b + 1))
         /\ Advance(c, s, b) \in Chains
<1> DEFINE q == StoreBlock(o, s, b, c)
<1>1. TypeOK /\ Blocks(s) \in Nat /\ s \in Nat /\ Block \in Nat \ {0} /\ HeadLen(s) \in Nat
  BY HeadFacts DEF Laid, Samples
<1>2. CASE b < Blocks(s)
  <2>1. c = ChainOf(s, b) /\ Progress(s, b) = b /\ Progress(s, b + 1) = b + 1
    BY <1>1, <1>2 DEF Progress
  <2>2. q = Store(o, s, PlainBlock(s, b, c)) /\ Advance(c, s, b) = NextChain(s, b, c)
    BY <1>2 DEF StoreBlock, Advance, InLane
  <2>3. /\ b * Block \in Nat /\ (b + 1) * Block = b * Block + Block
        /\ \A k \in b * Block .. b * Block + Block - 1 :
             k \in 0 .. lens[s] - 1 /\ k < HeadLen(s) /\ k \div Block = b
    BY <1>1, <1>2, BlockFacts
  <2>4. DOMAIN PlainBlock(s, b, c) = b * Block .. b * Block + Block - 1
    BY DEF PlainBlock
  <2>5. ASSUME NEW k \in b * Block .. b * Block + Block - 1
        PROVE  k \in 0 .. lens[s] - 1 /\ PlainBlock(s, b, c)[k] = DecryptByte(s, k)
    <3>1. k \in 0 .. lens[s] - 1 /\ k < HeadLen(s) /\ k \div Block = b
      BY <2>3
    <3>2. DecryptByte(s, k) = PlainByte(s, k, c)
      BY <2>1, <3>1 DEF DecryptByte
    <3> QED
      BY <3>1, <3>2 DEF PlainBlock
  <2>6. /\ Kept(o, q)
        /\ \A k \in b * Block .. b * Block + Block - 1 : q[offs[s] + k] = DecryptByte(s, k)
    <3> DEFINE bytes == PlainBlock(s, b, c)
    <3>1. \A k \in DOMAIN bytes : k \in 0 .. lens[s] - 1 /\ bytes[k] = DecryptByte(s, k)
      BY <2>4, <2>5
    <3> HIDE DEF bytes
    <3>2. /\ Kept(o, Store(o, s, bytes))
          /\ \A k \in DOMAIN bytes : Store(o, s, bytes)[offs[s] + k] = DecryptByte(s, k)
      BY <3>1, StoreRight
    <3> QED
      BY <2>2, <2>4, <3>2 DEF bytes
  <2>7. ASSUME Written(o, s, b * Block)
        PROVE  Written(q, s, (b + 1) * Block)
    <3>1. Written(q, s, b * Block)
      <4>1. b * Block <= lens[s] /\ lens[s] \in Nat
        BY <1>1, <1>2, BlockFacts, HeadFacts
      <4> HIDE DEF q
      <4> QED
        BY <2>3, <2>6, <2>7, <4>1, KeptWritten
    <3>2. \A k \in 0 .. (b + 1) * Block - 1 :
            k \in 0 .. b * Block - 1 \/ k \in b * Block .. b * Block + Block - 1
      BY <1>1, <2>3
    <3> HIDE DEF q
    <3> QED
      BY <2>6, <3>1, <3>2 DEF Written
  <2>8. /\ Advance(c, s, b) = ChainOf(s, b + 1)
        /\ ChainOf(s, b + 1) \in Chains
    BY <1>1, <2>1, <2>2, ChainGrows
  <2> QED
    BY <2>1, <2>6, <2>7, <2>8
<1>3. CASE ~(b < Blocks(s))
  <2>1. Progress(s, b) = Blocks(s) /\ Progress(s, b + 1) = Blocks(s)
    BY <1>1, <1>3 DEF Progress
  <2>2. q = o /\ Advance(c, s, b) = c
    BY <1>3 DEF StoreBlock, Advance, InLane
  <2>3. Kept(o, o)
    BY DEF Kept
  <2>4. ChainOf(s, Blocks(s)) \in Chains
    BY <1>1, ChainGrows
  <2> QED
    BY <2>1, <2>2, <2>3, <2>4
<1> QED
  BY <1>2, <1>3

\* The tail of one sample.
LEMMA TailRight ==
  ASSUME Laid, NEW o, DOMAIN o = 0 .. total - 1, NEW s \in Samples
  PROVE  /\ Kept(o, Store(o, s, Tails(s)))
         /\ Written(o, s, HeadLen(s)) => Written(Store(o, s, Tails(s)), s, lens[s])
<1> DEFINE q == Store(o, s, Tails(s))
<1>1. lens[s] \in Nat /\ HeadLen(s) \in Nat /\ HeadLen(s) <= lens[s]
  BY HeadFacts DEF Laid
<1>2. DOMAIN Tails(s) = HeadLen(s) .. lens[s] - 1
  BY DEF Tails
<1>3. \A k \in HeadLen(s) .. lens[s] - 1 :
        k \in 0 .. lens[s] - 1 /\ Tails(s)[k] = DecryptByte(s, k)
  BY <1>1 DEF Tails, DecryptByte
<1>4. /\ Kept(o, q)
      /\ \A k \in HeadLen(s) .. lens[s] - 1 : q[offs[s] + k] = DecryptByte(s, k)
  <2> DEFINE bytes == Tails(s)
  <2>1. \A k \in DOMAIN bytes : k \in 0 .. lens[s] - 1 /\ bytes[k] = DecryptByte(s, k)
    BY <1>2, <1>3
  <2> HIDE DEF bytes
  <2>2. /\ Kept(o, Store(o, s, bytes))
        /\ \A k \in DOMAIN bytes : Store(o, s, bytes)[offs[s] + k] = DecryptByte(s, k)
    BY <2>1, StoreRight
  <2> QED
    BY <1>2, <2>2 DEF bytes
<1> HIDE DEF q
<1>5. ASSUME Written(o, s, HeadLen(s))
      PROVE  Written(q, s, lens[s])
  <2>1. Written(q, s, HeadLen(s))
    BY <1>1, <1>4, <1>5, KeptWritten
  <2>2. \A k \in 0 .. lens[s] - 1 : k \in 0 .. HeadLen(s) - 1 \/ k \in HeadLen(s) .. lens[s] - 1
    BY <1>1
  <2> QED
    BY <1>4, <2>1, <2>2 DEF Written
<1> QED
  BY <1>4, <1>5 DEF q

-----------------------------------------------------------------------------
(* What steps have in common. *)

\* The input does not change, nor what is computed from it.
LEMMA InputFrame ==
  ASSUME UNCHANGED input
  PROVE  /\ n' = n /\ lens' = lens /\ Samples' = Samples
         /\ NumPairs' = NumPairs /\ Pairs' = Pairs
         /\ \A s : Blocks(s)' = Blocks(s) /\ HeadLen(s)' = HeadLen(s)
         /\ \A s, k : DecryptByte(s, k)' = DecryptByte(s, k)
         /\ \A s : Decrypt(s)' = Decrypt(s)
         /\ \A s, b : Progress(s, b)' = Progress(s, b)
         /\ \A q : SamplesOf(q)' = SamplesOf(q) /\ Iterations(q)' = Iterations(q)
<1>1. n' = n /\ lens' = lens
  BY DEF input
<1>2. \A s : Blocks(s)' = Blocks(s) /\ HeadLen(s)' = HeadLen(s)
  BY <1>1 DEF Blocks, HeadLen
<1>3. \A s, k : DecryptByte(s, k)' = DecryptByte(s, k)
  BY <1>2 DEF DecryptByte
<1>4. \A s : Decrypt(s)' = Decrypt(s)
  BY <1>1, <1>3 DEF Decrypt
<1>5. \A s, b : Progress(s, b)' = Progress(s, b)
  BY <1>2 DEF Progress
<1>6. Samples' = Samples /\ NumPairs' = NumPairs /\ Pairs' = Pairs
  BY <1>1 DEF Samples, NumPairs, Pairs
<1>7. \A q : SamplesOf(q)' = SamplesOf(q) /\ Iterations(q)' = Iterations(q)
  BY <1>1, <1>2, <1>6 DEF SamplesOf, Iterations, HasSecond
<1> QED
  BY <1>1, <1>2, <1>3, <1>4, <1>5, <1>6, <1>7

\* Nor does what has been laid out, once the caller has begun.
LEMMA LayoutFrame ==
  ASSUME UNCHANGED input, UNCHANGED layout
  PROVE  /\ filled' = filled /\ offs' = offs /\ total' = total
         /\ RegionsDisjoint' = RegionsDisjoint
         /\ \A o, s, m : Written(o, s, m)' = Written(o, s, m)
<1>1. filled' = filled /\ offs' = offs /\ total' = total /\ lens' = lens
  BY DEF input, layout
<1>2. \A s, k : DecryptByte(s, k)' = DecryptByte(s, k)
  BY InputFrame
<1> QED
  BY <1>1, <1>2 DEF RegionsDisjoint, Written

\* The blocks that are done are inside the sample.
LEMMA ProgressFacts ==
  ASSUME TypeOK, NEW s \in Samples, NEW b \in Nat
  PROVE  /\ Progress(s, b) \in Nat
         /\ Progress(s, b) * Block \in Nat
         /\ Progress(s, b) * Block <= lens[s]
         /\ lens[s] \in Nat
         /\ Blocks(s) <= b => Progress(s, b) * Block = HeadLen(s)
<1>1. /\ lens[s] \in Nat /\ Block \in Nat \ {0} /\ Blocks(s) \in Nat
      /\ HeadLen(s) \in Nat /\ HeadLen(s) <= lens[s]
  BY HeadFacts
<1>2. CASE b < Blocks(s)
  <2>1. Progress(s, b) = b
    BY <1>2 DEF Progress
  <2>2. b * Block \in Nat /\ b * Block + Block <= HeadLen(s)
    BY <1>2, BlockFacts
  <2> QED
    BY <1>1, <1>2, <2>1, <2>2
<1>3. CASE ~(b < Blocks(s))
  <2>1. Progress(s, b) * Block = HeadLen(s) /\ Progress(s, b) = Blocks(s)
    BY <1>3 DEF Progress, HeadLen
  <2> QED
    BY <1>1, <2>1
<1> QED
  BY <1>2, <1>3

\* A thread works on a pair of the batch, after the layout.
LEMMA WorkingFacts ==
  ASSUME BatchInv, NEW t \in Threads, pair[t] # NoPair
  PROVE  /\ pair[t] \in Pairs /\ phase = "decrypt" /\ Laid
         /\ DOMAIN out = 0 .. total - 1
         /\ bi[t] \in Nat
         /\ \A u \in Threads : pair[u] = pair[t] => u = t
  BY DEF BatchInv, TypeOK, ClaimInv, Laid

\* A step that writes only bytes that are right.
LEMMA WriteStep ==
  ASSUME BatchInv, phase = "decrypt", UNCHANGED <<input, layout, phase>>,
         NEW q, q = out', Kept(out, q)
  PROVE  /\ DOMAIN out' = 0 .. total - 1
         /\ RegionsDisjoint' /\ NothingMisplaced' /\ EachAsAlone'
         /\ \A s \in Samples, m \in Nat :
              m <= lens[s] /\ Written(out, s, m) => Written(q, s, m)
<1>1. UNCHANGED input /\ UNCHANGED layout /\ phase' = phase
  OBVIOUS
<1>2. TypeOK /\ RegionsDisjoint /\ NothingMisplaced /\ DOMAIN out = 0 .. total - 1
  BY DEF BatchInv, TypeOK
<1>3. DOMAIN out' = 0 .. total - 1 /\ RegionsDisjoint'
  BY <1>1, <1>2, LayoutFrame DEF Kept
<1>4. NothingMisplaced'
  <2>1. \A s \in Samples : \A k \in 0 .. lens[s] - 1 :
          q[offs[s] + k] \in {Stale, DecryptByte(s, k)}
    BY <1>2 DEF NothingMisplaced, Kept
  <2>2. /\ Samples' = Samples /\ lens' = lens /\ offs' = offs
        /\ \A s, k : DecryptByte(s, k)' = DecryptByte(s, k)
    BY <1>1, InputFrame, LayoutFrame
  <2> QED
    BY <2>1, <2>2 DEF NothingMisplaced, Stale
<1>5. EachAsAlone'
  BY <1>1 DEF EachAsAlone
<1>6. ASSUME NEW s \in Samples, NEW m \in Nat, m <= lens[s], Written(out, s, m)
      PROVE  Written(q, s, m)
  <2>1. lens[s] \in Nat
    BY <1>2, HeadFacts
  <2> QED
    BY <1>6, <2>1, KeptWritten
<1> QED
  BY <1>3, <1>4, <1>5, <1>6

-----------------------------------------------------------------------------
(* One lemma for each action. *)

LEMMA InitStep ==
  ASSUME Init
  PROVE  BatchInv
<1>1. n \in Nat /\ NumPairs \in Nat
  BY BatchAssumption DEF Init, NumPairs
<1>2. <<<<>>, <<>>>> \in Chains \X Chains
  BY NoChains
<1>3. TypeOK
  <2>1. st \in [Threads -> Chains \X Chains]
    BY <1>2 DEF Init, InitChain
  <2> QED
    BY <1>1, <2>1 DEF Init, TypeOK
<1>4. RegionsDisjoint /\ ClaimInv /\ ChainsSeparate /\ NothingMisplaced /\ ProgressInv
  BY DEF Init, RegionsDisjoint, ClaimInv, ChainsSeparate, NothingMisplaced, ProgressInv
<1> QED
  BY <1>3, <1>4 DEF BatchInv, EachAsAlone, Init

LEMMA PushOffsetStep ==
  ASSUME BatchInv, PushOffset
  PROVE  BatchInv'
<1>1. /\ TypeOK /\ RegionsDisjoint /\ ClaimInv
      /\ phase = "layout" /\ phase' = "layout"
      /\ filled < n /\ filled' = filled + 1
      /\ offs' = [offs EXCEPT ![filled] = total]
      /\ total' = total + lens[filled]
      /\ UNCHANGED <<n, lens, out, next, retired, pair, bi, st, results>>
  BY DEF BatchInv, PushOffset, Room, input, lanes
<1>2. n \in Nat /\ filled \in 0 .. n /\ filled \in Samples /\ total \in Nat
  BY <1>1, BatchAssumption DEF TypeOK, Samples
<1>3. \A s \in Samples : lens[s] \in Nat /\ offs[s] \in Nat
  BY <1>1, HeadFacts DEF TypeOK
<1>4. /\ Samples' = Samples /\ Pairs' = Pairs /\ NumPairs' = NumPairs
  BY <1>1 DEF Samples, Pairs, NumPairs
<1>5. TypeOK'
  <2>1. offs' \in [Samples -> Nat] /\ total' \in Nat /\ filled' \in 0 .. n
    BY <1>1, <1>2, <1>3 DEF TypeOK
  <2> QED
    BY <1>1, <1>4, <2>1 DEF TypeOK
<1>6. RegionsDisjoint'
  <2>1. /\ offs'[filled] = total
        /\ \A i \in 0 .. filled - 1 : i \in Samples /\ offs'[i] = offs[i]
    BY <1>1, <1>2 DEF TypeOK, Samples
  <2>2. \A i \in 0 .. filled - 1 : offs[i] + lens[i] <= total
    BY <1>1 DEF RegionsDisjoint
  <2>3. ASSUME NEW i \in 0 .. filled
        PROVE  offs'[i] + lens[i] <= total'
    <3>1. CASE i = filled
      BY <1>1, <1>2, <1>3, <2>1, <3>1
    <3>2. CASE i \in 0 .. filled - 1
      BY <1>1, <1>2, <1>3, <2>1, <2>2, <3>2
    <3> QED
      BY <1>2, <3>1, <3>2
  <2>4. ASSUME NEW i \in 0 .. filled, NEW j \in 0 .. filled, i < j
        PROVE  offs'[i] + lens[i] <= offs'[j]
    <3>1. i \in 0 .. filled - 1
      BY <1>2, <2>4
    <3>2. CASE j = filled
      BY <2>1, <2>2, <3>1, <3>2
    <3>3. CASE j \in 0 .. filled - 1
      BY <1>1, <2>1, <2>4, <3>1, <3>3 DEF RegionsDisjoint
    <3> QED
      BY <1>2, <3>2, <3>3
  <2>5. 0 .. filled' - 1 = 0 .. filled /\ lens' = lens
    BY <1>1, <1>2
  <2> QED
    BY <2>3, <2>4, <2>5 DEF RegionsDisjoint
<1>7. \A t \in Threads : pair'[t] = NoPair
  BY <1>1 DEF ClaimInv
<1>8. ClaimInv' /\ ChainsSeparate' /\ NothingMisplaced' /\ ProgressInv' /\ EachAsAlone'
  BY <1>1, <1>7
  DEF ClaimInv, ChainsSeparate, NothingMisplaced, ProgressInv, EachAsAlone
<1> QED
  BY <1>5, <1>6, <1>8 DEF BatchInv

LEMMA BeginStep ==
  ASSUME BatchInv, Begin
  PROVE  BatchInv'
<1>1. /\ TypeOK /\ RegionsDisjoint /\ ClaimInv /\ filled = n
      /\ phase = "layout" /\ phase' = "decrypt"
      /\ out' = [x \in 0 .. total - 1 |-> Stale]
      /\ UNCHANGED <<n, lens, filled, offs, total, next, retired, pair, bi, st>>
  BY DEF BatchInv, Begin, input, layout, lanes
<1>2. UNCHANGED input /\ UNCHANGED layout
  BY <1>1 DEF input, layout
<1>3. Samples' = Samples /\ Pairs' = Pairs /\ NumPairs' = NumPairs
  BY <1>2, InputFrame
<1>4. TypeOK'
  BY <1>1, <1>3 DEF TypeOK
<1>5. RegionsDisjoint'
  BY <1>1, <1>2, LayoutFrame
<1>6. NothingMisplaced'
  <2>1. ASSUME NEW s \in Samples, NEW k \in 0 .. lens[s] - 1
        PROVE  out'[offs[s] + k] = Stale
    <3>1. offs[s] + k \in 0 .. total - 1
      BY <1>1, Places DEF Laid
    <3> QED
      BY <1>1, <3>1
  <2> QED
    BY <1>1, <1>3, <2>1 DEF NothingMisplaced, Stale
<1>7. \A t \in Threads : pair'[t] = NoPair
  BY <1>1 DEF ClaimInv
<1>8. ClaimInv' /\ ChainsSeparate' /\ ProgressInv' /\ EachAsAlone'
  BY <1>1, <1>7 DEF ClaimInv, ChainsSeparate, ProgressInv, EachAsAlone
<1> QED
  BY <1>4, <1>5, <1>6, <1>8 DEF BatchInv

LEMMA ClaimStep ==
  ASSUME BatchInv, NEW t \in Threads, Claim(t)
  PROVE  BatchInv'
<1>1. /\ TypeOK /\ RegionsDisjoint /\ ClaimInv /\ ChainsSeparate
      /\ NothingMisplaced /\ ProgressInv
      /\ phase = "decrypt" /\ phase' = phase /\ pair[t] = NoPair
      /\ next < NumPairs /\ next' = next + 1
      /\ pair' = [pair EXCEPT ![t] = next]
      /\ bi' = [bi EXCEPT ![t] = 0]
      /\ st' = [st EXCEPT ![t] = <<<<>>, <<>>>>]
      /\ UNCHANGED input /\ UNCHANGED layout
      /\ UNCHANGED <<n, lens, filled, offs, total, out, retired, results>>
  BY DEF BatchInv, Claim, PairLeft, ChainsReset, InitChain, input, layout
<1>2. /\ Samples' = Samples /\ Pairs' = Pairs /\ NumPairs' = NumPairs
      /\ \A s, b : Progress(s, b)' = Progress(s, b)
      /\ \A s : Blocks(s)' = Blocks(s)
      /\ \A s, k : DecryptByte(s, k)' = DecryptByte(s, k)
      /\ \A q : SamplesOf(q)' = SamplesOf(q) /\ Iterations(q)' = Iterations(q)
  BY <1>1, InputFrame
<1>3. n \in Nat /\ NumPairs \in Nat /\ next \in Nat /\ next \in Pairs /\ next # NoPair
  BY <1>1, BatchAssumption DEF TypeOK, NumPairs, Pairs, NoPair
<1>4. TypeOK'
  <2>1. st' \in [Threads -> Chains \X Chains]
    BY <1>1, NoChains DEF TypeOK
  <2>2. /\ pair' \in [Threads -> Pairs \cup {NoPair}]
        /\ bi' \in [Threads -> Nat]
        /\ next' \in 0 .. NumPairs
    BY <1>1, <1>3 DEF TypeOK
  <2> QED
    BY <1>1, <1>2, <2>1, <2>2 DEF TypeOK
<1>5. RegionsDisjoint'
  BY <1>1, LayoutFrame
<1>6. pair'[t] = next /\ bi'[t] = 0 /\ st'[t] = <<<<>>, <<>>>>
  BY <1>1 DEF TypeOK
<1>7. \A u \in Threads \ {t} : pair'[u] = pair[u] /\ bi'[u] = bi[u] /\ st'[u] = st[u]
  BY <1>1 DEF TypeOK
<1>8. ClaimInv'
  <2>1. \A u \in Threads : pair[u] # NoPair => pair[u] \in Nat /\ pair[u] < next
    BY <1>1, <1>3 DEF ClaimInv, TypeOK, Pairs
  <2>2. \A p \in retired : p \in Nat /\ p < next
    BY <1>1, <1>3 DEF ClaimInv, TypeOK, Pairs
  <2>3. 0 <= Iterations(next)
    BY <1>1, <1>3, PairFacts, HeadFacts DEF Iterations
  <2>4. \A u \in Threads : pair'[u] # NoPair =>
          pair'[u] < next' /\ pair'[u] \notin retired /\ bi'[u] <= Iterations(pair'[u])
    BY <1>1, <1>3, <1>6, <1>7, <2>1, <2>2, <2>3 DEF ClaimInv
  <2>5. \A u, v \in Threads : pair'[u] = pair'[v] /\ pair'[u] # NoPair => u = v
    BY <1>1, <1>3, <1>6, <1>7, <2>1 DEF ClaimInv
  <2>6. \A p \in retired : p < next'
    BY <1>1, <1>3, <2>2
  <2> QED
    BY <1>1, <1>2, <2>4, <2>5, <2>6 DEF ClaimInv
<1>9. \A s \in SamplesOf(next) : s \in Samples /\ Progress(s, 0) = 0 /\ LaneOf(s) \in {1, 2}
  <2>1. \A s \in SamplesOf(next) : s \in Samples /\ Blocks(s) \in Nat
    BY <1>1, HeadFacts DEF SamplesOf
  <2> QED
    BY <2>1 DEF Progress, LaneOf
<1>10. ChainsSeparate'
  <2>1. \A s : ChainOf(s, 0) = <<>>
    BY DEF ChainOf
  <2>2. \A s \in SamplesOf(next) : st'[t][LaneOf(s)] = ChainOf(s, Progress(s, bi'[t]))
    BY <1>6, <1>9, <2>1
  <2>3. \A u \in Threads \ {t} : pair'[u] # NoPair =>
          \A s \in SamplesOf(pair'[u]) : st'[u][LaneOf(s)] = ChainOf(s, Progress(s, bi'[u]))
    BY <1>1, <1>7 DEF ChainsSeparate
  <2>4. \A u \in Threads : pair'[u] # NoPair =>
          \A s \in SamplesOf(pair'[u]) : st'[u][LaneOf(s)] = ChainOf(s, Progress(s, bi'[u]))
    BY <1>6, <2>2, <2>3
  <2> QED
    BY <1>2, <2>4 DEF ChainsSeparate, ChainOf, LaneOf
<1>11. NothingMisplaced'
  BY <1>1, <1>2 DEF NothingMisplaced, Stale
<1>12. ProgressInv'
  <2>1. \A s \in SamplesOf(next) : Written(out, s, Progress(s, bi'[t]) * Block)
    BY <1>6, <1>9, BatchAssumption DEF Written
  <2>2. \A u \in Threads : pair'[u] # NoPair =>
          \A s \in SamplesOf(pair'[u]) : Written(out, s, Progress(s, bi'[u]) * Block)
    BY <1>1, <1>6, <1>7, <2>1 DEF ProgressInv
  <2>3. \A o, s, m : Written(o, s, m)' = Written(o, s, m)
    BY <1>1, LayoutFrame
  <2>4. \A s, m : Written(out, s, m)' = Written(out, s, m)
    BY <1>1, <1>2 DEF Written
  <2> QED
    BY <1>1, <1>2, <2>2, <2>4 DEF ProgressInv
<1>13. EachAsAlone'
  BY <1>1 DEF EachAsAlone
<1> QED
  BY <1>4, <1>5, <1>8, <1>10, <1>11, <1>12, <1>13 DEF BatchInv

\* What one iteration writes to the buffer and does to the chains.
LEMMA Iteration ==
  ASSUME BatchInv, NEW t \in Threads, DecryptBlocks(t)
  PROVE  /\ Kept(out, out')
         /\ \A s \in SamplesOf(pair[t]) :
              /\ Written(out', s, Progress(s, bi[t] + 1) * Block)
              /\ st'[t][LaneOf(s)] = ChainOf(s, Progress(s, bi[t] + 1))
         /\ st' \in [Threads -> Chains \X Chains]
<1> DEFINE p == pair[t]
           b == bi[t]
           one == StoreBlock(out, First(p), b, st[t][1])
           two == StoreBlock(one, Second(p), b, st[t][2])
           mine == <<Advance(st[t][1], First(p), b),
                     IF HasSecond(p) THEN Advance(st[t][2], Second(p), b) ELSE st[t][2]>>
<1>1. /\ p # NoPair
      /\ out' = IF HasSecond(p) THEN two ELSE one
      /\ st' = [st EXCEPT ![t] = mine]
  BY DEF DecryptBlocks
<1>2. p \in Pairs /\ Laid /\ TypeOK /\ DOMAIN out = 0 .. total - 1 /\ b \in Nat
  BY <1>1, WorkingFacts DEF Laid
<1>3. /\ First(p) \in Samples /\ LaneOf(First(p)) = 1
      /\ HasSecond(p) => Second(p) \in Samples /\ LaneOf(Second(p)) = 2
      /\ SamplesOf(p) = IF HasSecond(p) THEN {First(p), Second(p)} ELSE {First(p)}
  BY <1>2, PairFacts
<1>4. \A s \in SamplesOf(p) :
        /\ st[t][LaneOf(s)] = ChainOf(s, Progress(s, b))
        /\ Written(out, s, Progress(s, b) * Block)
  BY <1>1 DEF BatchInv, ChainsSeparate, ProgressInv
<1>5. /\ Kept(out, one)
      /\ Written(one, First(p), Progress(First(p), b + 1) * Block)
      /\ Advance(st[t][1], First(p), b) = ChainOf(First(p), Progress(First(p), b + 1))
      /\ Advance(st[t][1], First(p), b) \in Chains
  BY <1>2, <1>3, <1>4, BlockRight
<1>6. DOMAIN one = 0 .. total - 1
  BY <1>2, <1>5 DEF Kept
<1>7. st[t] \in Chains \X Chains
  BY <1>2 DEF TypeOK
<1>8. ASSUME HasSecond(p)
      PROVE  /\ Kept(out, two)
             /\ Written(two, First(p), Progress(First(p), b + 1) * Block)
             /\ Written(two, Second(p), Progress(Second(p), b + 1) * Block)
             /\ Advance(st[t][2], Second(p), b) = ChainOf(Second(p), Progress(Second(p), b + 1))
             /\ Advance(st[t][2], Second(p), b) \in Chains
  <2>1. /\ Second(p) \in Samples
        /\ st[t][2] = ChainOf(Second(p), Progress(Second(p), b))
        /\ Written(out, Second(p), Progress(Second(p), b) * Block)
    BY <1>3, <1>4, <1>8
  <2>2. Written(one, Second(p), Progress(Second(p), b) * Block)
    <3>1. /\ Progress(Second(p), b) * Block \in Nat /\ lens[Second(p)] \in Nat
          /\ Progress(Second(p), b) * Block <= lens[Second(p)]
      BY <1>2, <2>1, ProgressFacts
    <3> HIDE DEF one
    <3> QED
      BY <1>5, <2>1, <3>1, KeptWritten
  <2> HIDE DEF one
  <2>3. /\ Kept(one, two)
        /\ Written(two, Second(p), Progress(Second(p), b + 1) * Block)
        /\ Advance(st[t][2], Second(p), b) = ChainOf(Second(p), Progress(Second(p), b + 1))
        /\ Advance(st[t][2], Second(p), b) \in Chains
    BY <1>2, <1>6, <2>1, <2>2, BlockRight
  <2> HIDE DEF two
  <2>4. Kept(out, two)
    BY <1>5, <2>3, KeptTwice
  <2>5. Written(two, First(p), Progress(First(p), b + 1) * Block)
    <3>1. /\ Progress(First(p), b + 1) * Block \in Nat /\ lens[First(p)] \in Nat
          /\ Progress(First(p), b + 1) * Block <= lens[First(p)]
      <4>1. b + 1 \in Nat
        BY <1>2
      <4> QED
        BY <1>2, <1>3, <4>1, ProgressFacts
    <3> QED
      BY <1>3, <1>5, <2>3, <3>1, KeptWritten
  <2> QED
    BY <2>3, <2>4, <2>5
<1>9. mine \in Chains \X Chains /\ st'[t] = mine
  <2>1. mine \in Chains \X Chains
    BY <1>5, <1>7, <1>8
  <2> QED
    BY <1>1, <1>2, <2>1 DEF TypeOK
<1>10. st' \in [Threads -> Chains \X Chains]
  <2> HIDE DEF mine
  <2> QED
    BY <1>1, <1>2, <1>9 DEF TypeOK
<1>11. CASE HasSecond(p)
  <2>1. SamplesOf(p) = {First(p), Second(p)} /\ out' = two
    BY <1>1, <1>3, <1>11
  <2>2. /\ st'[t][1] = ChainOf(First(p), Progress(First(p), b + 1))
        /\ st'[t][2] = ChainOf(Second(p), Progress(Second(p), b + 1))
    BY <1>5, <1>8, <1>9, <1>11
  <2> HIDE DEF one, two
  <2> QED
    BY <1>3, <1>8, <1>10, <1>11, <2>1, <2>2
<1>12. CASE ~HasSecond(p)
  <2>1. SamplesOf(p) = {First(p)} /\ out' = one
    BY <1>1, <1>3, <1>12
  <2>2. st'[t][1] = ChainOf(First(p), Progress(First(p), b + 1))
    BY <1>5, <1>9
  <2> HIDE DEF one, two
  <2> QED
    BY <1>3, <1>5, <1>10, <2>1, <2>2
<1> QED
  BY <1>11, <1>12

LEMMA DecryptBlocksStep ==
  ASSUME BatchInv, NEW t \in Threads, DecryptBlocks(t)
  PROVE  BatchInv'
<1> DEFINE q == out'
<1>1. /\ TypeOK /\ ClaimInv /\ ChainsSeparate /\ ProgressInv
      /\ pair[t] # NoPair /\ bi[t] < Iterations(pair[t])
      /\ bi' = [bi EXCEPT ![t] = bi[t] + 1]
      /\ \A u \in Threads \ {t} : st'[u] = st[u]
      /\ UNCHANGED input /\ UNCHANGED layout
      /\ UNCHANGED <<n, lens, filled, offs, total, phase, next, retired, pair, results>>
  BY DEF BatchInv, DecryptBlocks, input, layout, TypeOK
<1>2. /\ pair[t] \in Pairs /\ phase = "decrypt" /\ bi[t] \in Nat
      /\ \A u \in Threads : pair[u] = pair[t] => u = t
  BY <1>1, WorkingFacts
<1>3. /\ Kept(out, q)
      /\ \A s \in SamplesOf(pair[t]) :
           /\ Written(q, s, Progress(s, bi[t] + 1) * Block)
           /\ st'[t][LaneOf(s)] = ChainOf(s, Progress(s, bi[t] + 1))
      /\ st' \in [Threads -> Chains \X Chains]
  BY Iteration
<1>4. /\ Samples' = Samples /\ Pairs' = Pairs /\ NumPairs' = NumPairs
      /\ \A s, b : Progress(s, b)' = Progress(s, b)
      /\ \A p : SamplesOf(p)' = SamplesOf(p) /\ Iterations(p)' = Iterations(p)
      /\ \A s, k : DecryptByte(s, k)' = DecryptByte(s, k)
  BY <1>1, InputFrame
<1>5. /\ DOMAIN out' = 0 .. total - 1
      /\ RegionsDisjoint' /\ NothingMisplaced' /\ EachAsAlone'
      /\ \A s \in Samples, m \in Nat :
           m <= lens[s] /\ Written(out, s, m) => Written(q, s, m)
  <2>1. UNCHANGED <<input, layout, phase>>
    BY <1>1
  <2> QED
    BY <1>2, <1>3, <2>1, WriteStep
<1>6. bi'[t] = bi[t] + 1 /\ \A u \in Threads \ {t} : bi'[u] = bi[u]
  BY <1>1 DEF TypeOK
<1>7. TypeOK'
  <2>1. bi' \in [Threads -> Nat]
    BY <1>1, <1>2 DEF TypeOK
  <2> QED
    BY <1>1, <1>2, <1>3, <1>4, <1>5, <2>1 DEF TypeOK
<1>8. ClaimInv'
  <2>1. bi'[t] <= Iterations(pair[t])
    <3>1. Iterations(pair[t]) \in Nat
      BY <1>1, <1>2, PairFacts, HeadFacts DEF Iterations
    <3> QED
      BY <1>1, <1>2, <1>6, <3>1
  <2>2. \A u \in Threads : pair[u] # NoPair => bi'[u] <= Iterations(pair[u])
    BY <1>1, <1>6, <2>1 DEF ClaimInv
  <2> QED
    BY <1>1, <1>4, <2>2 DEF ClaimInv
<1>9. ChainsSeparate'
  <2>1. \A u \in Threads : pair[u] # NoPair =>
          \A s \in SamplesOf(pair[u]) : st'[u][LaneOf(s)] = ChainOf(s, Progress(s, bi'[u]))
    BY <1>1, <1>3, <1>6 DEF ChainsSeparate
  <2> QED
    BY <1>1, <1>4, <2>1 DEF ChainsSeparate, ChainOf, LaneOf
<1>10. ProgressInv'
  <2>1. ASSUME NEW p \in retired, NEW s \in SamplesOf(p)
        PROVE  Written(q, s, lens[s])
    <3>1. s \in Samples /\ lens[s] \in Nat /\ Written(out, s, lens[s])
      BY <1>1, HeadFacts DEF ProgressInv, SamplesOf
    <3> QED
      BY <1>5, <3>1
  <2>2. ASSUME NEW u \in Threads, pair[u] # NoPair, NEW s \in SamplesOf(pair[u])
        PROVE  Written(q, s, Progress(s, bi'[u]) * Block)
    <3>1. CASE u = t
      BY <1>3, <1>6, <3>1
    <3>2. CASE u # t
      <4>1. s \in Samples /\ bi[u] \in Nat /\ bi'[u] = bi[u]
        BY <1>1, <1>6, <3>2 DEF SamplesOf, TypeOK
      <4>2. /\ Progress(s, bi[u]) * Block \in Nat /\ Progress(s, bi[u]) * Block <= lens[s]
            /\ Written(out, s, Progress(s, bi[u]) * Block)
        BY <1>1, <2>2, <4>1, ProgressFacts DEF ProgressInv
      <4> QED
        BY <1>5, <4>1, <4>2
    <3> QED
      BY <3>1, <3>2
  <2>3. \A s, m : Written(out, s, m)' = Written(q, s, m)
    BY <1>1, <1>4 DEF Written
  <2> HIDE DEF q
  <2> QED
    BY <1>1, <1>4, <2>1, <2>2, <2>3 DEF ProgressInv
<1> QED
  BY <1>5, <1>7, <1>8, <1>9, <1>10 DEF BatchInv

\* What the copying of the tails writes.
LEMMA TailsCopied ==
  ASSUME BatchInv, NEW t \in Threads, CopyTails(t)
  PROVE  /\ Kept(out, out')
         /\ \A s \in SamplesOf(pair[t]) : Written(out', s, lens[s])
<1> DEFINE p == pair[t]
           one == Store(out, First(p), Tails(First(p)))
           two == Store(one, Second(p), Tails(Second(p)))
<1>1. p # NoPair /\ bi[t] = Iterations(p) /\ out' = IF HasSecond(p) THEN two ELSE one
  BY DEF CopyTails
<1>2. p \in Pairs /\ Laid /\ TypeOK /\ DOMAIN out = 0 .. total - 1 /\ bi[t] \in Nat
  BY <1>1, WorkingFacts DEF Laid
<1>3. /\ First(p) \in Samples
      /\ HasSecond(p) => Second(p) \in Samples
      /\ SamplesOf(p) = IF HasSecond(p) THEN {First(p), Second(p)} ELSE {First(p)}
  BY <1>2, PairFacts
<1>4. ASSUME NEW s \in SamplesOf(p)
      PROVE  Written(out, s, HeadLen(s)) /\ s \in Samples
  <2>1. s \in Samples /\ Written(out, s, Progress(s, bi[t]) * Block)
    BY <1>1 DEF BatchInv, ProgressInv, SamplesOf
  <2>2. Blocks(s) <= bi[t]
    <3>1. \A r \in Samples : Blocks(r) \in Nat
      BY <1>2, HeadFacts
    <3> QED
      BY <1>1, <1>3, <3>1 DEF Iterations
  <2> QED
    BY <1>2, <2>1, <2>2, ProgressFacts
<1>5. Kept(out, one) /\ Written(one, First(p), lens[First(p)])
  BY <1>2, <1>3, <1>4, TailRight
<1>6. DOMAIN one = 0 .. total - 1
  BY <1>2, <1>5 DEF Kept
<1>7. ASSUME HasSecond(p)
      PROVE  /\ Kept(out, two)
             /\ Written(two, First(p), lens[First(p)])
             /\ Written(two, Second(p), lens[Second(p)])
  <2>1. Second(p) \in Samples /\ Written(out, Second(p), HeadLen(Second(p)))
    BY <1>3, <1>4, <1>7
  <2>2. /\ HeadLen(Second(p)) \in Nat /\ lens[Second(p)] \in Nat
        /\ HeadLen(Second(p)) <= lens[Second(p)] /\ lens[First(p)] \in Nat
    BY <1>2, <1>3, <2>1, HeadFacts
  <2> HIDE DEF one
  <2>3. Written(one, Second(p), HeadLen(Second(p)))
    BY <1>5, <2>1, <2>2, KeptWritten
  <2>4. Kept(one, two) /\ Written(two, Second(p), lens[Second(p)])
    BY <1>2, <1>6, <2>1, <2>3, TailRight
  <2> HIDE DEF two
  <2>5. Kept(out, two) /\ Written(two, First(p), lens[First(p)])
    BY <1>3, <1>5, <2>2, <2>4, KeptTwice, KeptWritten
  <2> QED
    BY <2>4, <2>5
<1> HIDE DEF one, two
<1> QED
  BY <1>1, <1>3, <1>5, <1>7

LEMMA CopyTailsStep ==
  ASSUME BatchInv, NEW t \in Threads, CopyTails(t)
  PROVE  BatchInv'
<1> DEFINE q == out'
<1>1. /\ TypeOK /\ ClaimInv /\ ChainsSeparate /\ ProgressInv
      /\ pair[t] # NoPair
      /\ retired' = retired \cup {pair[t]}
      /\ pair' = [pair EXCEPT ![t] = NoPair]
      /\ UNCHANGED input /\ UNCHANGED layout
      /\ UNCHANGED <<n, lens, filled, offs, total, phase, next, bi, st, results>>
  BY DEF BatchInv, CopyTails, input, layout
<1>2. /\ pair[t] \in Pairs /\ phase = "decrypt"
      /\ \A u \in Threads : pair[u] = pair[t] => u = t
  BY <1>1, WorkingFacts
<1>3. Kept(out, q) /\ \A s \in SamplesOf(pair[t]) : Written(q, s, lens[s])
  BY TailsCopied
<1>4. /\ Samples' = Samples /\ Pairs' = Pairs /\ NumPairs' = NumPairs
      /\ \A s, b : Progress(s, b)' = Progress(s, b)
      /\ \A p : SamplesOf(p)' = SamplesOf(p) /\ Iterations(p)' = Iterations(p)
      /\ \A s, k : DecryptByte(s, k)' = DecryptByte(s, k)
  BY <1>1, InputFrame
<1>5. /\ DOMAIN out' = 0 .. total - 1
      /\ RegionsDisjoint' /\ NothingMisplaced' /\ EachAsAlone'
      /\ \A s \in Samples, m \in Nat :
           m <= lens[s] /\ Written(out, s, m) => Written(q, s, m)
  <2>1. UNCHANGED <<input, layout, phase>>
    BY <1>1
  <2> QED
    BY <1>2, <1>3, <2>1, WriteStep
<1>6. pair'[t] = NoPair /\ \A u \in Threads \ {t} : pair'[u] = pair[u]
  BY <1>1 DEF TypeOK
<1>7. TypeOK'
  <2>1. pair' \in [Threads -> Pairs \cup {NoPair}] /\ retired' \subseteq Pairs
    BY <1>1, <1>2 DEF TypeOK
  <2> QED
    BY <1>1, <1>2, <1>4, <1>5, <2>1 DEF TypeOK
<1>8. ClaimInv'
  <2>1. \A u \in Threads : pair'[u] # NoPair =>
          u # t /\ pair'[u] = pair[u] /\ pair[u] # pair[t]
    BY <1>2, <1>6
  <2>2. \A u \in Threads : pair'[u] # NoPair =>
          /\ pair'[u] < next /\ pair'[u] \notin retired' /\ bi[u] <= Iterations(pair'[u])
    BY <1>1, <2>1 DEF ClaimInv
  <2>3. \A u, v \in Threads : pair'[u] = pair'[v] /\ pair'[u] # NoPair => u = v
    BY <1>1, <2>1 DEF ClaimInv
  <2>4. \A p \in retired' : p < next
    BY <1>1 DEF ClaimInv
  <2> QED
    BY <1>1, <1>2, <1>4, <2>2, <2>3, <2>4 DEF ClaimInv
<1>9. ChainsSeparate'
  <2>1. \A u \in Threads : pair'[u] # NoPair =>
          \A s \in SamplesOf(pair'[u]) : st[u][LaneOf(s)] = ChainOf(s, Progress(s, bi[u]))
    BY <1>1, <1>6 DEF ChainsSeparate
  <2> QED
    BY <1>1, <1>4, <2>1 DEF ChainsSeparate, ChainOf, LaneOf
<1>10. ProgressInv'
  <2>1. ASSUME NEW p \in retired', NEW s \in SamplesOf(p)
        PROVE  Written(q, s, lens[s])
    <3>1. CASE p = pair[t]
      BY <1>3, <3>1
    <3>2. CASE p \in retired
      <4>1. s \in Samples /\ lens[s] \in Nat /\ Written(out, s, lens[s])
        BY <1>1, <3>2, HeadFacts DEF ProgressInv, SamplesOf
      <4> QED
        BY <1>5, <4>1
    <3> QED
      BY <1>1, <3>1, <3>2
  <2>2. ASSUME NEW u \in Threads, pair'[u] # NoPair, NEW s \in SamplesOf(pair'[u])
        PROVE  Written(q, s, Progress(s, bi[u]) * Block)
    <3>1. s \in Samples /\ bi[u] \in Nat /\ pair'[u] = pair[u]
      BY <1>1, <1>6, <2>2 DEF SamplesOf, TypeOK
    <3>2. /\ Progress(s, bi[u]) * Block \in Nat /\ Progress(s, bi[u]) * Block <= lens[s]
          /\ Written(out, s, Progress(s, bi[u]) * Block)
      BY <1>1, <2>2, <3>1, ProgressFacts DEF ProgressInv
    <3> QED
      BY <1>5, <3>1, <3>2
  <2>3. \A s, m : Written(out, s, m)' = Written(q, s, m)
    BY <1>1, <1>4 DEF Written
  <2> HIDE DEF q
  <2> QED
    BY <1>1, <1>4, <2>1, <2>2, <2>3 DEF ProgressInv
<1> QED
  BY <1>5, <1>7, <1>8, <1>9, <1>10 DEF BatchInv

LEMMA SplitStep ==
  ASSUME BatchInv, Split
  PROVE  BatchInv'
<1>1. /\ TypeOK /\ RegionsDisjoint /\ ClaimInv /\ NothingMisplaced /\ ProgressInv
      /\ phase = "decrypt" /\ phase' = "done" /\ retired = Pairs
      /\ results' = [s \in Samples |-> [k \in 0 .. lens[s] - 1 |-> out[offs[s] + k]]]
      /\ UNCHANGED input /\ UNCHANGED layout
      /\ UNCHANGED <<n, lens, filled, offs, total, out, next, retired, pair, bi, st>>
  BY DEF BatchInv, Split, input, layout, lanes
<1>2. /\ Samples' = Samples /\ Pairs' = Pairs /\ NumPairs' = NumPairs
      /\ \A s, k : DecryptByte(s, k)' = DecryptByte(s, k)
      /\ \A s : Decrypt(s)' = Decrypt(s)
      /\ \A p : SamplesOf(p)' = SamplesOf(p)
  BY <1>1, InputFrame
<1>3. \A t \in Threads : pair[t] = NoPair
  BY <1>1 DEF ClaimInv, TypeOK
<1>4. TypeOK'
  BY <1>1, <1>2 DEF TypeOK
<1>5. RegionsDisjoint'
  BY <1>1, LayoutFrame
<1>6. ClaimInv' /\ ChainsSeparate'
  BY <1>1, <1>3 DEF ClaimInv, ChainsSeparate
<1>7. NothingMisplaced'
  BY <1>1, <1>2 DEF NothingMisplaced, Stale
<1>8. ProgressInv'
  <2>1. \A s, m : Written(out, s, m)' = Written(out, s, m)
    BY <1>1, <1>2 DEF Written
  <2> QED
    BY <1>1, <1>2, <1>3, <2>1 DEF ProgressInv
<1>9. EachAsAlone'
  <2>1. ASSUME NEW s \in Samples
        PROVE  [k \in 0 .. lens[s] - 1 |-> out[offs[s] + k]] = Decrypt(s)
    <3>1. PICK p \in Pairs : s \in SamplesOf(p)
      BY <1>1, PairsCover
    <3>2. Written(out, s, lens[s])
      BY <1>1, <3>1 DEF ProgressInv
    <3> QED
      BY <3>2 DEF Written, Decrypt
  <2>2. results' = [s \in Samples |-> Decrypt(s)]
    BY <1>1, <2>1
  <2> QED
    BY <1>2, <2>2 DEF EachAsAlone
<1> QED
  BY <1>4, <1>5, <1>6, <1>7, <1>8, <1>9 DEF BatchInv

LEMMA StutterStep ==
  ASSUME BatchInv, UNCHANGED vars
  PROVE  BatchInv'
<1>1. /\ UNCHANGED input /\ UNCHANGED layout
      /\ UNCHANGED <<n, lens, filled, offs, total, phase, out, next, retired, pair, bi, st,
                     results>>
  BY DEF vars, input, layout, lanes
<1>2. /\ Samples' = Samples /\ Pairs' = Pairs /\ NumPairs' = NumPairs
      /\ \A s : Decrypt(s)' = Decrypt(s)
      /\ \A s, b : Progress(s, b)' = Progress(s, b)
      /\ \A s, k : DecryptByte(s, k)' = DecryptByte(s, k)
      /\ \A p : SamplesOf(p)' = SamplesOf(p) /\ Iterations(p)' = Iterations(p)
  BY <1>1, InputFrame
<1>3. \A s, m : Written(out, s, m)' = Written(out, s, m)
  BY <1>1, <1>2 DEF Written
<1>4. TypeOK'
  BY <1>1, <1>2 DEF BatchInv, TypeOK
<1>5. RegionsDisjoint'
  BY <1>1, LayoutFrame DEF BatchInv
<1>6. ClaimInv'
  BY <1>1, <1>2 DEF BatchInv, ClaimInv
<1>7. ChainsSeparate'
  BY <1>1, <1>2 DEF BatchInv, ChainsSeparate, ChainOf, LaneOf
<1>8. NothingMisplaced'
  BY <1>1, <1>2 DEF BatchInv, NothingMisplaced, Stale
<1>9. ProgressInv'
  BY <1>1, <1>2, <1>3 DEF BatchInv, ProgressInv
<1>10. EachAsAlone'
  BY <1>1, <1>2 DEF BatchInv, EachAsAlone
<1> QED
  BY <1>4, <1>5, <1>6, <1>7, <1>8, <1>9, <1>10 DEF BatchInv

-----------------------------------------------------------------------------
(* Theorems. *)

\* The invariant of par_decrypt_into and what it calls: where the regions are,
\* who works on which pair, and what has been written.
THEOREM BatchInvariance == Spec => []BatchInv
<1>1. Init => BatchInv
  BY InitStep
<1>2. BatchInv /\ [Next]_vars => BatchInv'
  <2> SUFFICES ASSUME BatchInv, [Next]_vars
               PROVE  BatchInv'
    OBVIOUS
  <2>1. CASE PushOffset
    BY <2>1, PushOffsetStep
  <2>2. CASE Begin
    BY <2>2, BeginStep
  <2>3. CASE \E t \in Threads : Claim(t) \/ DecryptBlocks(t) \/ CopyTails(t)
    BY <2>3, ClaimStep, DecryptBlocksStep, CopyTailsStep
  <2>4. CASE Split
    BY <2>4, SplitStep
  <2>5. CASE UNCHANGED vars
    BY <2>5, StutterStep
  <2> QED
    BY <2>1, <2>2, <2>3, <2>4, <2>5 DEF Next
<1> QED
  BY <1>1, <1>2, PTL DEF Spec

\* Every variable of the layout, the lanes and the output has its type.
THEOREM BatchTypeCorrect == Spec => []TypeOK
<1>1. BatchInv => TypeOK
  BY DEF BatchInv
<1> QED
  BY <1>1, BatchInvariance, PTL

\* The SAFETY comment of worker_loop: the regions that threads write through raw
\* pointers at the same time do not overlap and are inside the buffer.
THEOREM DisjointRegions == Spec => []RegionsDisjoint
<1>1. BatchInv => RegionsDisjoint
  BY DEF BatchInv
<1> QED
  BY <1>1, BatchInvariance, PTL

\* decrypt_blocks_pair_into keeps the chains of its two samples apart.
THEOREM LanesApart == Spec => []ChainsSeparate
<1>1. BatchInv => ChainsSeparate
  BY DEF BatchInv
<1> QED
  BY <1>1, BatchInvariance, PTL

\* At no time does the region of a sample hold a byte that is not of its
\* plaintext, at its place.
THEOREM OnlyRightBytes == Spec => []NothingMisplaced
<1>1. BatchInv => NothingMisplaced
  BY DEF BatchInv
<1> QED
  BY <1>1, BatchInvariance, PTL

\* decrypt_par gives for each sample what decrypt gives for it alone.
THEOREM BatchAsSamples == Spec => []EachAsAlone
<1>1. BatchInv => EachAsAlone
  BY DEF BatchInv
<1> QED
  BY <1>1, BatchInvariance, PTL
=============================================================================
