--------------------------- MODULE RoundChainProofs ---------------------------
(***************************************************************************)
(* Proofs about the rounds, for any number of blocks, any size of a page   *)
(* and any width of a register.                                            *)
(*                                                                         *)
(* The first part is the address arithmetic of BlockAddress.               *)
(***************************************************************************)
EXTENDS RoundInvariant, FiniteSetTheorems, TLAPS

-----------------------------------------------------------------------------
\* Induction over the naturals, for sets: the library's theorem takes an operator.
LEMMA NatSetInduction ==
  ASSUME NEW Q, 0 \in Q, \A m \in Nat : m \in Q => m + 1 \in Q
  PROVE  Nat \subseteq Q
<1> SUFFICES ASSUME NEW m \in Nat, m \notin Q PROVE FALSE
  OBVIOUS
<1> DEFINE Below(k) == 0 .. k
           Misses == {k \in 0 .. m : k \notin Q}
           T == {Below(k) : k \in Misses}
<1>1. IsFiniteSet(0 .. m)
  BY FS_Interval
<1>2. IsWellFoundedOn(StrictSubsetOrdering(0 .. m), SUBSET (0 .. m))
  BY <1>1, FS_StrictSubsetOrderingWellFounded, FS_FiniteSubsetsOfFinite
<1>3. Below(m) \in T /\ T \subseteq SUBSET (0 .. m)
  OBVIOUS
<1>4. \A U, V \in SUBSET (0 .. m) :
        U \subseteq V /\ U # V => <<U, V>> \in StrictSubsetOrdering(0 .. m)
  BY DEF StrictSubsetOrdering
<1>5. \E x \in T : \A y \in T : <<y, x>> \notin StrictSubsetOrdering(0 .. m)
  <2> HIDE DEF T
  <2> QED
    BY <1>2, <1>3, WFMin
<1>6. PICK k \in Misses : \A y \in T : <<y, Below(k)>> \notin StrictSubsetOrdering(0 .. m)
  BY <1>5
<1>7. k \in 1 .. m /\ k - 1 \in Nat /\ (k - 1) + 1 = k
  BY <1>6
<1>8. k - 1 \in Misses
  BY <1>6, <1>7
<1>9. Below(k - 1) \subseteq Below(k) /\ k \in Below(k) /\ k \notin Below(k - 1)
  BY <1>7
<1>10. Below(k - 1) \in T /\ Below(k) \in T
  BY <1>8
<1>11. <<Below(k - 1), Below(k)>> \in StrictSubsetOrdering(0 .. m)
  BY <1>3, <1>4, <1>9, <1>10
<1> QED
  BY <1>6, <1>10, <1>11

\* A function defined by recursion along an interval exists.
Unwinds(g, n, c, step) == g[0] = c /\ \A k \in 1 .. n : g[k] = step[k][g[k - 1]]

LEMMA RecursionExists ==
  ASSUME NEW n \in Nat, NEW T, NEW c \in T, NEW step \in [1 .. n -> [T -> T]]
  PROVE  \E g \in [0 .. n -> T] : Unwinds(g, n, c, step)
<1> DEFINE Exists(m) == \E g \in [0 .. m -> T] : Unwinds(g, m, c, step)
           N == {m \in Nat : m <= n => Exists(m)}
<1>1. Exists(0)
  <2> DEFINE g == [k \in 0 .. 0 |-> c]
  <2>1. g \in [0 .. 0 -> T] /\ Unwinds(g, 0, c, step)
    BY DEF Unwinds
  <2> QED
    BY <2>1
<1>2. ASSUME NEW m \in Nat, m + 1 <= n, Exists(m)
      PROVE  Exists(m + 1)
  <2>1. PICK g \in [0 .. m -> T] : Unwinds(g, m, c, step)
    BY <1>2
  <2> DEFINE h == [k \in 0 .. m + 1 |-> IF k = m + 1 THEN step[m + 1][g[m]] ELSE g[k]]
  <2>2. step[m + 1][g[m]] \in T
    BY <1>2
  <2>3. h \in [0 .. m + 1 -> T] /\ h[m + 1] = step[m + 1][g[m]] /\ \A k \in 0 .. m : h[k] = g[k]
    BY <2>2
  <2> HIDE DEF h
  <2>4. ASSUME NEW k \in 1 .. m + 1 PROVE h[k] = step[k][h[k - 1]]
    <3>1. CASE k = m + 1
      BY <3>1, <2>3
    <3>2. CASE k \in 1 .. m
      BY <3>2, <2>1, <2>3 DEF Unwinds
    <3> QED
      BY <3>1, <3>2
  <2>5. Unwinds(h, m + 1, c, step)
    BY <2>1, <2>3, <2>4 DEF Unwinds
  <2> QED
    BY <2>3, <2>5
<1>3. 0 \in N /\ \A m \in Nat : m \in N => m + 1 \in N
  <2> HIDE DEF Exists
  <2> QED
    BY <1>1, <1>2
<1>4. Nat \subseteq N
  <2> HIDE DEF N
  <2> QED
    BY <1>3, NatSetInduction
<1> QED
  BY <1>4

-----------------------------------------------------------------------------
\* Powers of two and the bits of a number.
LEMMA PowerDef ==
  /\ Power \in [0 .. WordBits -> Nat] /\ Power[0] = 1
  /\ \A i \in 1 .. WordBits : Power[i] = 2 * Power[i - 1]
<1> DEFINE step == [k \in 1 .. WordBits |-> [x \in Nat |-> 2 * x]]
           P(g) == g = [i \in 0 .. WordBits |-> IF i = 0 THEN 1 ELSE 2 * g[i - 1]]
<1>1. WordBits \in Nat
  BY AddressAssumption
<1>2. step \in [1 .. WordBits -> [Nat -> Nat]]
  OBVIOUS
<1>3. PICK g \in [0 .. WordBits -> Nat] : Unwinds(g, WordBits, 1, step)
  <2> HIDE DEF step
  <2> QED
    BY <1>1, <1>2, RecursionExists
<1>4. g[0] = 1 /\ \A k \in 1 .. WordBits : g[k] = 2 * g[k - 1]
  <2>1. g[0] = 1
    BY <1>3 DEF Unwinds
  <2>2. ASSUME NEW k \in 1 .. WordBits PROVE g[k] = 2 * g[k - 1]
    <3>1. g[k] = step[k][g[k - 1]]
      <4> HIDE DEF step
      <4> QED
        BY <1>3 DEF Unwinds
    <3>2. g[k - 1] \in Nat
      BY <1>1
    <3>3. step[k] = [x \in Nat |-> 2 * x]
      OBVIOUS
    <3> QED
      BY <3>1, <3>2, <3>3
  <2> QED
    BY <2>1, <2>2
<1>5. P(g)
  BY <1>1, <1>4
<1>6. P(CHOOSE h : P(h))
  <2> HIDE DEF P
  <2> QED
    BY <1>5
<1>7. Power = CHOOSE h : P(h)
  BY DEF Power
<1>8. P(Power)
  <2> HIDE DEF P
  <2> QED
    BY <1>6, <1>7
<1>9. Power[0] = 1 /\ \A i \in 1 .. WordBits : Power[i] = 2 * Power[i - 1]
  BY <1>1, <1>8
<1> DEFINE N == {i \in Nat : i <= WordBits => Power[i] \in Nat}
<1>10. 0 \in N /\ \A i \in Nat : i \in N => i + 1 \in N
  <2>1. 0 \in N
    BY <1>9
  <2>2. ASSUME NEW i \in Nat, i \in N, i + 1 <= WordBits PROVE Power[i + 1] \in Nat
    <3>1. Power[i + 1] = 2 * Power[(i + 1) - 1] /\ (i + 1) - 1 = i
      BY <1>1, <1>9, <2>2
    <3> QED
      BY <1>1, <2>2, <3>1
  <2> QED
    BY <2>1, <2>2
<1>11. Nat \subseteq N
  <2> HIDE DEF N
  <2> QED
    BY <1>10, NatSetInduction
<1>12. \A i \in 0 .. WordBits : Power[i] \in Nat
  BY <1>1, <1>11
<1> QED
  BY <1>1, <1>8, <1>9, <1>12

LEMMA PowerPositive == \A i \in 0 .. WordBits : Power[i] \in Nat /\ Power[i] >= 1
<1> DEFINE N == {i \in Nat : i <= WordBits => Power[i] >= 1}
<1>1. WordBits \in Nat /\ \A i \in 0 .. WordBits : Power[i] \in Nat
  BY AddressAssumption, PowerDef
<1>2. 0 \in N
  BY PowerDef
<1>3. ASSUME NEW i \in Nat, i \in N, i + 1 <= WordBits PROVE Power[i + 1] >= 1
  <2>1. i \in 0 .. WordBits /\ i + 1 \in 1 .. WordBits /\ (i + 1) - 1 = i
    BY <1>1, <1>3
  <2>2. Power[i + 1] = 2 * Power[i] /\ Power[i] \in Nat /\ Power[i] >= 1
    BY <1>1, <1>3, <2>1, PowerDef
  <2> QED
    BY <2>2
<1>4. \A i \in Nat : i \in N => i + 1 \in N
  BY <1>3
<1>5. Nat \subseteq N
  <2> HIDE DEF N
  <2> QED
    BY <1>2, <1>4, NatSetInduction
<1> QED
  BY <1>1, <1>5

LEMMA SixteenPowers ==
  ASSUME NEW i \in 4 .. WordBits
  PROVE  Power[i] = 16 * Power[i - 4] /\ i - 4 \in 0 .. WordBits
<1>1. WordBits \in Nat
  BY AddressAssumption
<1>2. /\ i \in 1 .. WordBits /\ i - 1 \in 1 .. WordBits /\ (i - 1) - 1 = i - 2
      /\ i - 2 \in 1 .. WordBits /\ (i - 2) - 1 = i - 3
      /\ i - 3 \in 1 .. WordBits /\ (i - 3) - 1 = i - 4 /\ i - 4 \in 0 .. WordBits
  BY <1>1
<1>3. /\ Power[i] = 2 * Power[i - 1] /\ Power[i - 1] = 2 * Power[i - 2]
      /\ Power[i - 2] = 2 * Power[i - 3] /\ Power[i - 3] = 2 * Power[i - 4]
  BY <1>2, PowerDef
<1>4. Power[i - 4] \in Nat
  BY <1>2, PowerPositive
<1> QED
  BY <1>2, <1>3, <1>4

LEMMA LowPowers == Power[0] = 1 /\ Power[1] = 2 /\ Power[2] = 4 /\ Power[3] = 8
<1>1. 1 \in 1 .. WordBits /\ 2 \in 1 .. WordBits /\ 3 \in 1 .. WordBits
  BY AddressAssumption
<1>2. Power[1] = 2 * Power[1 - 1] /\ Power[2] = 2 * Power[2 - 1] /\ Power[3] = 2 * Power[3 - 1]
  BY <1>1, PowerDef
<1> QED
  BY <1>2, PowerDef

\* Dividing twice is dividing by the product.
LEMMA DivideTwice ==
  ASSUME NEW n \in Nat, NEW p \in Nat, p >= 1
  PROVE  /\ (n \div p) \div 2 = n \div (2 * p)
         /\ (n \div 16) \div p = n \div (16 * p)
         /\ n \div p \in Nat
<1>1. (n \div p) \div 2 = n \div (2 * p)
  OBVIOUS
<1>2. (n \div 16) \div p = n \div (16 * p)
  OBVIOUS
<1>3. n \div p \in Nat
  OBVIOUS
<1> QED
  BY <1>1, <1>2, <1>3

\* NatOf reads the bits of a number that fits the register.
LEMMA AboveDef ==
  ASSUME NEW bits
  PROVE  /\ Above(bits) \in [0 .. WordBits -> Nat] /\ Above(bits)[0] = 0
         /\ \A j \in 1 .. WordBits : Above(bits)[j] =
              2 * Above(bits)[j - 1] + (IF WordBits - j \in bits THEN 1 ELSE 0)
<1> DEFINE bit(j) == IF WordBits - j \in bits THEN 1 ELSE 0
           step == [j \in 1 .. WordBits |-> [x \in Nat |-> 2 * x + bit(j)]]
           P(g) == g = [j \in 0 .. WordBits |->
                IF j = 0 THEN 0
                ELSE 2 * g[j - 1] + (IF WordBits - j \in bits THEN 1 ELSE 0)]
<1>1. WordBits \in Nat /\ \A j : bit(j) \in Nat
  BY AddressAssumption
<1>2. step \in [1 .. WordBits -> [Nat -> Nat]]
  <2> HIDE DEF bit
  <2> QED
    BY <1>1
<1>3. PICK g \in [0 .. WordBits -> Nat] : Unwinds(g, WordBits, 0, step)
  <2> HIDE DEF step
  <2> QED
    BY <1>1, <1>2, RecursionExists
<1>4. g[0] = 0 /\ \A j \in 1 .. WordBits : g[j] = 2 * g[j - 1] + bit(j)
  <2>1. g[0] = 0
    BY <1>3 DEF Unwinds
  <2>2. ASSUME NEW j \in 1 .. WordBits PROVE g[j] = 2 * g[j - 1] + bit(j)
    <3>1. g[j] = step[j][g[j - 1]]
      <4> HIDE DEF step
      <4> QED
        BY <1>3 DEF Unwinds
    <3>2. g[j - 1] \in Nat
      BY <1>1
    <3> HIDE DEF bit
    <3>3. step[j] = [x \in Nat |-> 2 * x + bit(j)]
      OBVIOUS
    <3> QED
      BY <3>1, <3>2, <3>3
  <2> QED
    BY <2>1, <2>2
<1>5. P(g)
  BY <1>1, <1>4
<1>6. P(CHOOSE h : P(h))
  <2> HIDE DEF P
  <2> QED
    BY <1>5
<1>7. Above(bits) = CHOOSE h : P(h)
  BY DEF Above
<1>8. P(Above(bits))
  <2> HIDE DEF P
  <2> QED
    BY <1>6, <1>7
<1>9. DOMAIN Above(bits) = 0 .. WordBits /\ Above(bits)[0] = 0
      /\ \A j \in 1 .. WordBits : Above(bits)[j] = 2 * Above(bits)[j - 1] + bit(j)
  BY <1>1, <1>8
<1> DEFINE N == {j \in Nat : j <= WordBits => Above(bits)[j] \in Nat}
<1>10. 0 \in N
  BY <1>9
<1>11. ASSUME NEW j \in Nat, j \in N, j + 1 <= WordBits PROVE Above(bits)[j + 1] \in Nat
  <2>1. j + 1 \in 1 .. WordBits /\ (j + 1) - 1 = j
    BY <1>1, <1>11
  <2> HIDE DEF bit
  <2>2. Above(bits)[j + 1] = 2 * Above(bits)[j] + bit(j + 1)
    BY <1>9, <2>1
  <2> QED
    BY <1>1, <1>11, <2>2
<1>12. Nat \subseteq N
  <2>1. \A j \in Nat : j \in N => j + 1 \in N
    BY <1>11
  <2> HIDE DEF N
  <2> QED
    BY <1>10, <2>1, NatSetInduction
<1>13. \A j \in 0 .. WordBits : Above(bits)[j] \in Nat
  BY <1>1, <1>12
<1>14. Above(bits) = [j \in 0 .. WordBits |-> Above(bits)[j]]
  BY <1>8
<1> QED
  BY <1>9, <1>13, <1>14

LEMMA NumberFromBits ==
  ASSUME NEW n \in Nat, n < Power[WordBits]
  PROVE  NatOf(BitsOf(n)) = n
<1> DEFINE A == Above(BitsOf(n))
           N == {j \in Nat : j <= WordBits => A[j] = n \div Power[WordBits - j]}
<1>1. WordBits \in Nat /\ Power[WordBits] \in Nat /\ Power[WordBits] >= 1
  BY AddressAssumption, PowerPositive
<1>2. 0 \in N
  <2>1. WordBits - 0 = WordBits /\ A[0] = 0
    BY <1>1, AboveDef
  <2>2. n \div Power[WordBits] = 0
    BY <1>1
  <2> QED
    BY <2>1, <2>2
<1>3. ASSUME NEW j \in Nat, j \in N, j + 1 <= WordBits
      PROVE  A[j + 1] = n \div Power[WordBits - (j + 1)]
  <2> DEFINE i == WordBits - (j + 1)
  <2>1. /\ i \in 0 .. WordBits - 1 /\ i + 1 = WordBits - j /\ i + 1 \in 1 .. WordBits
        /\ (i + 1) - 1 = i /\ j + 1 \in 1 .. WordBits /\ (j + 1) - 1 = j /\ i \in 0 .. WordBits
    BY <1>1, <1>3
  <2> HIDE DEF i
  <2>2. Power[i + 1] = 2 * Power[i]
    BY <2>1, PowerDef
  <2>3. Power[i] \in Nat /\ Power[i] >= 1
    BY <2>1, PowerPositive
  <2>4. PICK h \in Nat : h = n \div Power[i] /\ h \div 2 = n \div Power[i + 1]
    <3>1. (n \div Power[i]) \div 2 = n \div (2 * Power[i]) /\ n \div Power[i] \in Nat
      BY <2>3, DivideTwice
    <3> QED
      BY <2>2, <3>1
  <2>5. A[j] = h \div 2
    BY <1>1, <1>3, <2>1, <2>4
  <2>6. i \in BitsOf(n) <=> h % 2 = 1
    BY <2>1, <2>4 DEF BitsOf, Word
  <2>7. A[j + 1] = 2 * A[j] + (IF i \in BitsOf(n) THEN 1 ELSE 0)
    <3>1. A[j + 1] = 2 * A[(j + 1) - 1] + (IF WordBits - (j + 1) \in BitsOf(n) THEN 1 ELSE 0)
      BY <2>1, AboveDef
    <3> QED
      BY <2>1, <3>1 DEF i
  <2>8. A[j + 1] = h
    <3>1. h = 2 * (h \div 2) + (h % 2) /\ h % 2 \in {0, 1} /\ h \div 2 \in Nat
      OBVIOUS
    <3> HIDE DEF A
    <3> QED
      BY <2>5, <2>6, <2>7, <3>1
  <2> QED
    BY <2>4, <2>8 DEF i
<1>4. Nat \subseteq N
  <2>1. \A j \in Nat : j \in N => j + 1 \in N
    BY <1>3
  <2> HIDE DEF N
  <2> QED
    BY <1>2, <2>1, NatSetInduction
<1>5. A[WordBits] = n \div Power[0]
  BY <1>1, <1>4
<1>6. n \div 1 = n
  OBVIOUS
<1> QED
  BY <1>5, <1>6, LowPowers DEF NatOf

-----------------------------------------------------------------------------
\* The bits of the constant that matter: none below bit 2.
LEMMA MaskFacts ==
  /\ Nibble \cap Mask = {2} /\ Nibble \cap MaskNoBit2 = {}
  /\ Mask = MaskNoBit2 \cup {2} /\ 2 \in Nibble
BY DEF Nibble, Mask, MaskNoBit2

\* A block number shifted left by four leaves the nibble free.
LEMMA ShiftedFree ==
  ASSUME NEW block \in SUBSET Nat
  PROVE  Shifted(block) \cap Nibble = {} /\ 3 \notin Shifted(block)
BY DEF Shifted, Nibble

\* XORing the constant out again leaves the shifted block number with the ORed
\* nibble; bit 2, which the constant has, is lost from the nibble.
THEOREM OffsetWithMask ==
  ASSUME NEW block \in SUBSET Nat, NEW or \in SUBSET Nibble
  PROVE  Offset(block, or, Mask) = Shifted(block) \cup (or \ {2})
<1>1. Shifted(block) \cap Nibble = {} /\ or \cap Shifted(block) = {}
  BY ShiftedFree
<1>2. \A i \in or : i \in Mask <=> i = 2
  BY MaskFacts
<1> HIDE DEF Mask
<1> QED
  BY <1>1, <1>2 DEF Offset, rdi, Xor

\* The constant without bit 2 leaves bit 2 set, whatever was ORed in.
THEOREM OffsetWithoutBit2 ==
  ASSUME NEW block \in SUBSET Nat, NEW or \in SUBSET Nibble
  PROVE  Offset(block, or, MaskNoBit2) = Shifted(block) \cup or \cup {2}
<1>1. Shifted(block) \cap Nibble = {} /\ or \cap Shifted(block) = {} /\ 2 \notin Shifted(block)
  BY ShiftedFree, MaskFacts
<1>2. \A i \in or : i \notin MaskNoBit2
  BY MaskFacts
<1>3. Mask = MaskNoBit2 \cup {2} /\ 2 \notin MaskNoBit2
  BY MaskFacts
<1> HIDE DEF Mask, MaskNoBit2
<1> QED
  BY <1>1, <1>2, <1>3 DEF Offset, rdi, Xor

\* The page part of an index comes from the offset and the rest from another
\* register: put together they are the offset again, on whatever page the block
\* begins.
THEOREM AddressIsOffset ==
  ASSUME NEW block \in SUBSET Nat, NEW n \in SUBSET Nibble
  PROVE  Address(block, Shifted(block) \cup n) = Shifted(block) \cup n
<1>1. Nibble \subseteq Page
  BY AddressAssumption DEF Nibble, Page
<1>2. 3 \in Page
  BY AddressAssumption DEF Page
<1> QED
  BY <1>1, <1>2 DEF Address, rsi

\* Bytes of different blocks have different addresses as long as the block number
\* fits the register without its lowest four bits: no two bytes of a sample are
\* read for one another.
THEOREM AddressesDistinct ==
  ASSUME NEW b1 \in SUBSET (0 .. WordBits - 5), NEW b2 \in SUBSET (0 .. WordBits - 5),
         NEW n1 \in SUBSET Nibble, NEW n2 \in SUBSET Nibble,
         Address(b1, Shifted(b1) \cup n1) = Address(b2, Shifted(b2) \cup n2)
  PROVE  b1 = b2 /\ n1 = n2
<1>1. b1 \in SUBSET Nat /\ b2 \in SUBSET Nat
  BY AddressAssumption
<1>2. Shifted(b1) \cup n1 = Shifted(b2) \cup n2
  BY <1>1, AddressIsOffset
<1>3. /\ Shifted(b1) \cap Nibble = {}
      /\ Shifted(b2) \cap Nibble = {}
  BY <1>1, ShiftedFree
<1>4. n1 = n2 /\ Shifted(b1) = Shifted(b2)
  BY <1>2, <1>3
<1>5. ASSUME NEW b \in SUBSET (0 .. WordBits - 5), NEW i \in 0 .. WordBits - 5
      PROVE  i \in b <=> i + 4 \in Shifted(b)
  <2>1. i + 4 \in Word
    BY AddressAssumption DEF Word
  <2>2. \A j \in b : j + 4 = i + 4 => j = i
    BY AddressAssumption
  <2> QED
    BY <2>1, <2>2 DEF Shifted
<1> QED
  BY <1>4, <1>5

-----------------------------------------------------------------------------
\* A nibble is the set of the bits of a number below sixteen.
LEMMA LowBits ==
  ASSUME NEW n \in Nat, NEW i \in Nibble
  PROVE  /\ i = 0 => (i \in BitsOf(n) <=> n % 2 = 1)
         /\ i = 1 => (i \in BitsOf(n) <=> (n \div 2) % 2 = 1)
         /\ i = 2 => (i \in BitsOf(n) <=> (n \div 4) % 2 = 1)
         /\ i = 3 => (i \in BitsOf(n) <=> (n \div 8) % 2 = 1)
<1>1. i \in Word
  BY AddressAssumption DEF Word, Nibble
<1>2. n \div 1 = n
  OBVIOUS
<1>3. i \in BitsOf(n) <=> (n \div Power[i]) % 2 = 1
  BY <1>1 DEF BitsOf
<1> QED
  BY <1>2, <1>3, LowPowers

LEMMA NibbleIsNumber ==
  /\ \A k \in 0 .. 15 : BitsOf(k) \subseteq Nibble
  /\ \A m \in SUBSET Nibble : NibbleNumber(m) \in 0 .. 15 /\ BitsOf(NibbleNumber(m)) = m
<1>1. ASSUME NEW k \in 0 .. 15, NEW i \in BitsOf(k) PROVE i \in Nibble
  <2>1. i \in 0 .. WordBits - 1 /\ (k \div Power[i]) % 2 = 1 /\ WordBits \in Nat
    BY AddressAssumption DEF BitsOf, Word
  <2>2. SUFFICES ASSUME i >= 4 PROVE FALSE
    BY <2>1 DEF Nibble
  <2>3. i \in 4 .. WordBits
    BY <2>1, <2>2
  <2>4. PICK p \in Nat : p >= 1 /\ Power[i] = 16 * p
    BY <2>3, SixteenPowers, PowerPositive
  <2>5. k \div Power[i] = 0
    BY <2>4
  <2> QED
    BY <2>1, <2>5
<1>2. ASSUME NEW m \in SUBSET Nibble
      PROVE  NibbleNumber(m) \in 0 .. 15 /\ BitsOf(NibbleNumber(m)) = m
  <2> DEFINE bit(i) == IF i \in m THEN 1 ELSE 0
             k == bit(0) + 2 * bit(1) + 4 * bit(2) + 8 * bit(3)
  <2>1. /\ bit(0) \in {0, 1} /\ bit(1) \in {0, 1} /\ bit(2) \in {0, 1} /\ bit(3) \in {0, 1}
    OBVIOUS
  <2>2. /\ k \in 0 .. 15 /\ k % 2 = bit(0) /\ (k \div 2) % 2 = bit(1)
        /\ (k \div 4) % 2 = bit(2) /\ (k \div 8) % 2 = bit(3)
    <3> HIDE DEF bit
    <3> QED
      BY <2>1
  <2>3. /\ bit(0) = 1 <=> 0 \in m
        /\ bit(1) = 1 <=> 1 \in m
        /\ bit(2) = 1 <=> 2 \in m
        /\ bit(3) = 1 <=> 3 \in m
    OBVIOUS
  <2> HIDE DEF bit, k
  <2>4. ASSUME NEW i \in Nibble PROVE i \in BitsOf(k) <=> i \in m
    <3>1. i \in {0, 1, 2, 3} /\ k \in Nat
      BY <2>2 DEF Nibble
    <3> QED
      BY <2>2, <2>3, <3>1, LowBits
  <2>5. BitsOf(k) = m
    BY <1>1, <2>2, <2>4
  <2>6. NibbleNumber(m) = k
    BY DEF NibbleNumber, k, bit
  <2> QED
    BY <2>2, <2>5, <2>6
<1> QED
  BY <1>1, <1>2

\* The bits of offset k of block b: those of the block, four places up, and v's.
LEMMA BitsOfOffset ==
  ASSUME NEW b \in Nat, NEW k \in 0 .. 15
  PROVE  BitsOf(16 * b + k) = Shifted(BitsOf(b)) \cup BitsOf(k)
<1> DEFINE n == 16 * b + k
<1>1. n \in Nat /\ n \div 16 = b /\ WordBits \in Nat
  BY AddressAssumption
<1>2. /\ n % 2 = k % 2 /\ (n \div 2) % 2 = (k \div 2) % 2
      /\ (n \div 4) % 2 = (k \div 4) % 2 /\ (n \div 8) % 2 = (k \div 8) % 2
  OBVIOUS
<1>3. BitsOf(n) \subseteq Word /\ Shifted(BitsOf(b)) \subseteq Word /\ BitsOf(k) \subseteq Word
  BY DEF BitsOf, Shifted
<1>4. BitsOf(b) \in SUBSET Nat
  BY <1>1 DEF BitsOf, Word
<1> HIDE DEF n
<1>5. ASSUME NEW i \in Word, i \in Nibble
      PROVE  i \in BitsOf(n) <=> i \in Shifted(BitsOf(b)) \cup BitsOf(k)
  <2>1. i \notin Shifted(BitsOf(b))
    BY <1>4, <1>5, ShiftedFree
  <2>2. i \in BitsOf(n) <=> i \in BitsOf(k)
    <3>1. i \in {0, 1, 2, 3} /\ k \in Nat
      BY <1>5 DEF Nibble
    <3> QED
      BY <1>1, <1>2, <1>5, <3>1, LowBits
  <2> QED
    BY <2>1, <2>2
<1>6. ASSUME NEW i \in Word, i \notin Nibble
      PROVE  i \in BitsOf(n) <=> i \in Shifted(BitsOf(b)) \cup BitsOf(k)
  <2>1. i \in 4 .. WordBits /\ i - 4 \in Word /\ (i - 4) + 4 = i
    BY <1>1, <1>6 DEF Word, Nibble
  <2>2. i \notin BitsOf(k)
    BY <1>6, NibbleIsNumber
  <2>3. i \in Shifted(BitsOf(b)) <=> i - 4 \in BitsOf(b)
    <3>1. \A j \in BitsOf(b) : j + 4 = i => j = i - 4
      BY <1>4, <2>1
    <3> QED
      BY <2>1, <3>1 DEF Shifted
  <2>4. n \div Power[i] = b \div Power[i - 4]
    <3>1. PICK p \in Nat : p >= 1 /\ p = Power[i - 4] /\ Power[i] = 16 * p
      BY <2>1, SixteenPowers, PowerPositive
    <3>2. (n \div 16) \div p = n \div (16 * p)
      BY <1>1, <3>1, DivideTwice
    <3>3. n \div 16 = b
      BY <1>1
    <3> QED
      BY <3>1, <3>2, <3>3
  <2> QED
    BY <2>1, <2>2, <2>3, <2>4 DEF BitsOf
<1>7. BitsOf(n) = Shifted(BitsOf(b)) \cup BitsOf(k)
  BY <1>3, <1>5, <1>6
<1> QED
  BY <1>7 DEF n

\* The numbers of the blocks that a register can address.
Blocks == {b \in Nat : b < Power[WordBits - 4]}

LEMMA NumberOfOffset ==
  ASSUME NEW b \in Blocks, NEW k \in 0 .. 15
  PROVE  /\ 16 * b + k \in Nat /\ 16 * b + k < Power[WordBits]
         /\ NatOf(Shifted(BitsOf(b)) \cup BitsOf(k)) = 16 * b + k
<1>1. WordBits \in 4 .. WordBits
  BY AddressAssumption
<1>2. /\ Power[WordBits] = 16 * Power[WordBits - 4] /\ Power[WordBits - 4] \in Nat
      /\ b \in Nat /\ b < Power[WordBits - 4]
  BY <1>1, SixteenPowers, PowerPositive DEF Blocks
<1>3. 16 * b + k \in Nat /\ 16 * b + k < Power[WordBits]
  BY <1>2
<1> QED
  BY <1>2, <1>3, NumberFromBits, BitsOfOffset

\* The number that an offset step computes is the nibble the code means, in the
\* block it runs for: what was ORed in, without bit 2 or with it.
THEOREM OffsetNumber ==
  ASSUME NEW step, step.of[1] \subseteq Nibble, step.of[2] \in BOOLEAN, NEW b \in Blocks
  PROVE  /\ Meant(step) \in 0 .. 15
         /\ OffsetValue(step, b) = NumberOf(16 * b + Meant(step))
<1> DEFINE or == step.of[1]
           bit2 == step.of[2]
           m == IF bit2 THEN or \ {2} ELSE or \cup {2}
           k == Meant(step)
<1>1. m \in SUBSET Nibble
  BY MaskFacts
<1>2. k \in 0 .. 15 /\ BitsOf(k) = m
  BY <1>1, NibbleIsNumber DEF Meant
<1> HIDE DEF k
<1>3. Offset(BitsOf(b), or, IF bit2 THEN Mask ELSE MaskNoBit2)
                = Shifted(BitsOf(b)) \cup BitsOf(k)
  <2>1. BitsOf(b) \in SUBSET Nat
    BY AddressAssumption DEF BitsOf, Word
  <2>2. CASE bit2
    <3>1. Offset(BitsOf(b), or, Mask) = Shifted(BitsOf(b)) \cup (or \ {2})
      BY <2>1, OffsetWithMask
    <3> QED
      BY <1>2, <2>2, <3>1
  <2>3. CASE ~ bit2
    <3>1. Offset(BitsOf(b), or, MaskNoBit2) = Shifted(BitsOf(b)) \cup or \cup {2}
      BY <2>1, OffsetWithoutBit2
    <3> QED
      BY <1>2, <2>3, <3>1
  <2> QED
    BY <2>2, <2>3
<1>4. NatOf(Shifted(BitsOf(b)) \cup BitsOf(k)) = 16 * b + k
  BY <1>2, NumberOfOffset
<1>5. OffsetValue(step, b) = NumberOf(NatOf(Offset(BitsOf(b), or, IF bit2 THEN Mask ELSE MaskNoBit2)))
  BY DEF OffsetValue
<1> QED
  BY <1>2, <1>3, <1>4, <1>5 DEF k

\* The byte that is read at an offset of a block is the byte at that offset.
THEOREM AddressNumber ==
  ASSUME NEW b \in Blocks, NEW k \in 0 .. 15
  PROVE  NatOf(Address(BitsOf(b), BitsOf(16 * b + k))) = 16 * b + k
<1>1. BitsOf(b) \in SUBSET Nat /\ b \in Nat
  BY AddressAssumption DEF BitsOf, Word, Blocks
<1>2. BitsOf(k) \in SUBSET Nibble
  BY NibbleIsNumber
<1>3. Address(BitsOf(b), BitsOf(16 * b + k)) = Shifted(BitsOf(b)) \cup BitsOf(k)
  BY <1>1, <1>2, BitsOfOffset, AddressIsOffset
<1> QED
  BY <1>3, NumberOfOffset

LEMMA RsiNumber ==
  ASSUME NEW b \in Blocks
  PROVE  NatOf(rsi(BitsOf(b))) = 16 * b + 8
<1>1. BitsOf(8) = {3}
  <2>1. BitsOf(8) \subseteq Nibble
    BY NibbleIsNumber
  <2>2. 8 % 2 = 0 /\ (8 \div 2) % 2 = 0 /\ (8 \div 4) % 2 = 0 /\ (8 \div 8) % 2 = 1
    OBVIOUS
  <2>3. \A i \in Nibble : i \in BitsOf(8) <=> i = 3
    BY <2>2, LowBits DEF Nibble
  <2>4. 3 \in Nibble
    BY DEF Nibble
  <2> QED
    BY <2>1, <2>3, <2>4
<1>2. rsi(BitsOf(b)) = Shifted(BitsOf(b)) \cup BitsOf(8)
  BY <1>1 DEF rsi
<1>3. 8 \in 0 .. 15
  OBVIOUS
<1> QED
  BY <1>2, <1>3, NumberOfOffset

-----------------------------------------------------------------------------
(***************************************************************************)
(* The second part: a step of the program does in block b what it does in  *)
(* the first block, with b added to the block of every value.              *)
(***************************************************************************)

\* A slot is not a local, and is known by its number.
LEMMA PlaceFacts ==
  /\ \A n : S(n)[2] = n /\ S(n) \notin Locals
  /\ \A o \in Places : o \notin Locals => o[2] \in Slots /\ o = S(o[2])
  /\ \A n \in Slots : S(n) \in Places
<1>1. \A n : S(n)[1] = "st" /\ S(n)[2] = n
  BY DEF S
<1>2. \A o \in Locals : o[1] # "st"
  BY DEF Locals
<1>3. Places = Locals \cup {S(n) : n \in Slots}
  BY DEF Places
<1> HIDE DEF Locals, Slots
<1> QED
  BY <1>1, <1>2, <1>3

LEMMA KeptFacts ==
  ASSUME NEW o \in Kept
  PROVE  /\ o \in Places /\ o \notin Locals /\ o \notin Stored /\ o \notin Carried
         /\ o # S(Counter) /\ o = S(o[2]) /\ o[2] # Counter
<1>1. o \in Places /\ o \notin Locals /\ o \notin Stored /\ o \notin Carried /\ o # S(Counter)
  BY DEF Kept
<1> QED
  BY <1>1, PlaceFacts

\* The value of the first block is block b's but for the block.
LEMMA AtFacts ==
  ASSUME NEW b \in Nat, NEW x
  PROVE  /\ At(b, x).parts = x.parts /\ At(b, x).sel = x.sel
         /\ At(b, x).blocks = {b + i : i \in x.blocks}
BY DEF At, Value

LEMMA AtValue ==
  ASSUME NEW b \in Nat, NEW B, NEW p, NEW s
  PROVE  At(b, Value(B, p, s)) = Value({b + i : i \in B}, p, s)
BY DEF At, Value

LEMMA AtTemplate ==
  ASSUME NEW b \in Nat, NEW p, NEW s
  PROVE  At(b, Value({}, p, s)) = Value({}, p, s)
<1>1. {b + i : i \in {}} = {}
  OBVIOUS
<1> QED
  BY <1>1, AtValue

LEMMA AtNumber ==
  ASSUME NEW b \in Nat, NEW n \in 0 .. 15
  PROVE  /\ At(b, NumberOf(n)) = NumberOf(16 * b + n)
         /\ At(b, CipherByte(n)) = CipherByte(16 * b + n)
         /\ NumberOf(16 * b + n) = Value({b}, {Number(n)}, Whole)
         /\ CipherByte(16 * b + n) = Value({b}, {Cipher(n, 0)}, Whole)
<1>1. (16 * b + n) \div 16 = b /\ (16 * b + n) % 16 = n /\ n \div 16 = 0 /\ n % 16 = n
  OBVIOUS
<1>2. {b + i : i \in {0}} = {b}
  OBVIOUS
<1>3. /\ NumberOf(16 * b + n) = Value({b}, {Number(n)}, Whole)
      /\ CipherByte(16 * b + n) = Value({b}, {Cipher(n, 0)}, Whole)
      /\ NumberOf(n) = Value({0}, {Number(n)}, Whole)
      /\ CipherByte(n) = Value({0}, {Cipher(n, 0)}, Whole)
  BY <1>1 DEF NumberOf, CipherByte
<1> QED
  BY <1>2, <1>3, AtValue

LEMMA NumberInNumber ==
  ASSUME NEW m \in Nat
  PROVE  NumberIn(NumberOf(m)) = m
<1> DEFINE x == NumberOf(m)
<1>1. x.blocks = {m \div 16} /\ x.parts = {Number(m % 16)}
  BY DEF NumberOf, Value
<1>2. (CHOOSE b \in x.blocks : TRUE) = m \div 16 /\ (CHOOSE y \in x.parts : TRUE) = Number(m % 16)
  BY <1>1
<1>3. Number(m % 16).k = m % 16
  BY DEF Number
<1>4. 16 * (m \div 16) + (m % 16) = m
  OBVIOUS
<1> QED
  BY <1>2, <1>3, <1>4 DEF NumberIn

\* The terms of a sum see the same in block b as in the first.
BlocksRead(os, h) == UNION {h[o].blocks : o \in os}
Moved(b, B) == {b + i : i \in B}

LEMMA SeenAt ==
  ASSUME NEW b \in Nat, NEW os, NEW h, NEW g, \A o \in os : h[o] = At(b, g[o])
  PROVE  /\ Seen(os, h) = Seen(os, g)
         /\ BlocksRead(os, h) = Moved(b, BlocksRead(os, g))
<1>1. \A o \in os : /\ h[o].parts = g[o].parts /\ h[o].sel = g[o].sel
                    /\ h[o].blocks = {b + i : i \in g[o].blocks}
  BY AtFacts
<1>2. Seen(os, h) = Seen(os, g)
  BY <1>1 DEF Seen
<1>3. BlocksRead(os, h) = Moved(b, BlocksRead(os, g))
  BY <1>1 DEF BlocksRead, Moved
<1> QED
  BY <1>2, <1>3

\* What a step computes in block b, as the actions of RoundChain do.
Effect(step, b, h) ==
    CASE step.op = "sum"    -> SumValue(step, h)
      [] step.op = "copy"   -> h[step.at]
      [] step.op = "byte"   -> ByteValue(step, h)
      [] step.op = "offset" -> OffsetValue(step, b)
      [] step.op = "load"   -> LoadValue(step, b, h)

LEMMA StepReads ==
  ASSUME NEW step
  PROVE  /\ step.op = "sum" => ReadBy(step) = Summed(step)
         /\ step.op \in {"copy", "byte", "load"} => ReadBy(step) = {step.at}
BY DEF ReadBy

LEMMA SumAt ==
  ASSUME NEW step, NEW b \in Nat, NEW h, NEW g, \A o \in Summed(step) : h[o] = At(b, g[o])
  PROVE  SumValue(step, h) = At(b, SumValue(step, g))
<1> DEFINE os == Summed(step)
<1>1. Seen(os, h) = Seen(os, g) /\ BlocksRead(os, h) = Moved(b, BlocksRead(os, g))
  <2>1. \A o \in os : h[o] = At(b, g[o])
    OBVIOUS
  <2> HIDE DEF os
  <2> QED
    BY <2>1, SeenAt
<1>2. /\ SumValue(step, g) = Value(BlocksRead(os, g), SumOf(step.of, Seen(os, g)), Whole)
      /\ SumValue(step, h) = Value(BlocksRead(os, h), SumOf(step.of, Seen(os, h)), Whole)
  BY DEF SumValue, BlocksRead
<1> HIDE DEF os
<1>3. At(b, SumValue(step, g)) =
        Value(Moved(b, BlocksRead(os, g)), SumOf(step.of, Seen(os, g)), Whole)
  BY <1>2, AtValue DEF Moved
<1> QED
  BY <1>1, <1>2, <1>3

LEMMA ByteAt ==
  ASSUME NEW step, NEW b \in Nat, NEW h, NEW g, h[step.at] = At(b, g[step.at])
  PROVE  ByteValue(step, h) = At(b, ByteValue(step, g))
<1> DEFINE x == g[step.at]
           y == h[step.at]
           parts == IF x.sel \in {step.sel, Whole} THEN x.parts ELSE {Junk}
<1>1. y.parts = x.parts /\ y.sel = x.sel /\ y.blocks = {b + i : i \in x.blocks}
  BY AtFacts
<1>2. ByteValue(step, h) = Value(y.blocks, parts, step.sel)
  BY <1>1 DEF ByteValue
<1>3. ByteValue(step, g) = Value(x.blocks, parts, step.sel)
  BY DEF ByteValue
<1>4. At(b, Value(x.blocks, parts, step.sel)) =
        Value({b + i : i \in x.blocks}, parts, step.sel)
  <2> HIDE DEF x, parts
  <2> QED
    BY AtValue
<1> HIDE DEF x, y, parts
<1> QED
  BY <1>1, <1>2, <1>3, <1>4

LEMMA LoadAt ==
  ASSUME NEW step, NEW b \in Blocks, NEW h, NEW g, h[step.at] = At(b, g[step.at]),
         NEW n \in 0 .. 15, g[step.at] = NumberOf(n)
  PROVE  LoadValue(step, b, h) = At(b, CipherByte(NumberIn(g[step.at])))
<1>1. b \in Nat
  BY DEF Blocks
<1>2. h[step.at] = NumberOf(16 * b + n)
  BY <1>1, AtNumber
<1>3. NumberIn(h[step.at]) = 16 * b + n
  BY <1>1, <1>2, NumberInNumber
<1>4. LoadValue(step, b, h) = CipherByte(16 * b + n)
  BY <1>3, AddressNumber DEF LoadValue
<1>5. NumberIn(g[step.at]) = n
  BY NumberInNumber
<1> QED
  BY <1>1, <1>4, <1>5, AtNumber

LEMMA OffsetAt ==
  ASSUME NEW step, step.of[1] \subseteq Nibble, step.of[2] \in BOOLEAN, NEW b \in Blocks
  PROVE  OffsetValue(step, b) = At(b, NumberOf(Meant(step)))
<1>1. b \in Nat
  BY DEF Blocks
<1>2. Meant(step) \in 0 .. 15 /\ OffsetValue(step, b) = NumberOf(16 * b + Meant(step))
  BY OffsetNumber
<1> QED
  BY <1>1, <1>2, AtNumber

\* The whole step.
LEMMA EffectAt ==
  ASSUME NEW k \in DOMAIN Program, StepFits(Program[k], Ready(k)), NEW src,
         ValueFits(Program[k], FirstBlock[src][k], FirstBlock[src][k + 1]), NEW b \in Blocks,
         NEW h, \A o \in ReadBy(Program[k]) : h[o] = At(b, FirstBlock[src][k][o])
  PROVE  Effect(Program[k], b, h) = At(b, FirstEffect(Program[k], FirstBlock[src][k]))
<1> DEFINE step == Program[k]
           g == FirstBlock[src][k]
<1>1. step.op \in {"sum", "copy", "byte", "offset", "load"} /\ b \in Nat
  BY DEF StepFits, Blocks
<1>2. /\ step.op = "offset" => step.of[1] \subseteq Nibble /\ step.of[2] \in BOOLEAN
      /\ step.op = "load" => \E n \in 0 .. 15 : g[step.at] = NumberOf(n)
  BY DEF StepFits, ValueFits
<1>3. \A o \in ReadBy(step) : h[o] = At(b, g[o])
  OBVIOUS
<1> HIDE DEF step, g
<1>4. CASE step.op = "sum"
  <2>1. SumValue(step, h) = At(b, SumValue(step, g))
    BY <1>1, <1>3, <1>4, StepReads, SumAt
  <2> QED
    BY <1>4, <2>1 DEF Effect, FirstEffect, step, g
<1>5. CASE step.op = "copy"
  <2>1. h[step.at] = At(b, g[step.at])
    BY <1>3, <1>5, StepReads
  <2> QED
    BY <1>5, <2>1 DEF Effect, FirstEffect, step, g
<1>6. CASE step.op = "byte"
  <2>1. h[step.at] = At(b, g[step.at])
    BY <1>3, <1>6, StepReads
  <2>2. ByteValue(step, h) = At(b, ByteValue(step, g))
    BY <1>1, <2>1, ByteAt
  <2> QED
    BY <1>6, <2>2 DEF Effect, FirstEffect, step, g
<1>7. CASE step.op = "offset"
  <2>1. OffsetValue(step, b) = At(b, NumberOf(Meant(step)))
    BY <1>2, <1>7, OffsetAt
  <2> QED
    BY <1>7, <2>1 DEF Effect, FirstEffect, step, g
<1>8. CASE step.op = "load"
  <2>1. h[step.at] = At(b, g[step.at])
    BY <1>3, <1>8, StepReads
  <2>2. LoadValue(step, b, h) = At(b, CipherByte(NumberIn(g[step.at])))
    BY <1>2, <1>8, <2>1, LoadAt
  <2> QED
    BY <1>8, <2>2 DEF Effect, FirstEffect, step, g
<1> QED
  BY <1>1, <1>4, <1>5, <1>6, <1>7, <1>8

LEMMA WordsAt ==
  ASSUME NEW k \in DOMAIN Program, Program[k].op = "sum", NEW src \in Sources, NEW b \in Nat,
         NEW h, \A o \in ReadBy(Program[k]) : h[o] = At(b, FirstBlock[src][k][o])
  PROVE  LookedUp(Program[k].of, Seen(Summed(Program[k]), h)) \subseteq Words(src)
<1> DEFINE os == Summed(Program[k])
           g  == FirstBlock[src][k]
<1>1. \A o \in os : h[o] = At(b, g[o])
  BY StepReads
<1>2. Seen(os, h) = Seen(os, g)
  <2> HIDE DEF os, g
  <2> QED
    BY <1>1, SeenAt
<1>3. LookedUp(Program[k].of, Seen(os, g)) \subseteq Words(src)
  BY DEF Words, Sought
<1> QED
  BY <1>2, <1>3

-----------------------------------------------------------------------------
(***************************************************************************)
(* The third part: the steps of the program, the entry to a block and its  *)
(* end keep what RoundInvariant says of the slots.                         *)
(***************************************************************************)
Clean(x) == Junk \notin x.parts /\ Cardinality(x.blocks) <= 1

LEMMA CleanValues ==
  ASSUME NEW b, NEW B, B \subseteq {b}, NEW p, Junk \notin p, NEW s
  PROVE  Clean(Value(B, p, s))
<1>1. B = {} \/ B = {b}
  OBVIOUS
<1>2. Cardinality(B) <= 1
  <2>1. CASE B = {}
    BY <2>1, FS_EmptySet
  <2>2. CASE B = {b}
    <3>1. Cardinality({b}) = 1
      BY FS_Singleton
    <3> QED
      BY <2>2, <3>1
  <2> QED
    BY <1>1, <2>1, <2>2
<1>3. Value(B, p, s).parts = p /\ Value(B, p, s).blocks = B
  BY DEF Value
<1> QED
  BY <1>2, <1>3 DEF Clean

LEMMA AtomsNotJunk ==
  \A s, n : Key(s) # Junk /\ Number(n) # Junk
<1>1. Junk.kind = "junk"
  BY DEF Junk
<1>2. \A s, n : Key(s).kind = "key" /\ Number(n).kind = "num"
  BY DEF Key, Number
<1> QED
  BY <1>1, <1>2

LEMMA NumberClean ==
  ASSUME NEW n PROVE Clean(NumberOf(n))
<1>1. NumberOf(n) = Value({n \div 16}, {Number(n % 16)}, Whole)
  BY DEF NumberOf
<1>2. Junk \notin {Number(n % 16)}
  BY AtomsNotJunk
<1> QED
  BY <1>1, <1>2, CleanValues

LEMMA TemplateClean ==
  ASSUME NEW s PROVE Clean(Value({}, {Key(s)}, Whole)) /\ Clean(Nothing)
<1>1. Junk \notin {Key(s)} /\ {} \subseteq {0} /\ Junk \notin {}
  BY AtomsNotJunk
<1>2. Clean(Value({}, {Key(s)}, Whole))
  BY <1>1, CleanValues
<1>3. Clean(Value({}, {}, Whole))
  BY <1>1, CleanValues
<1> QED
  BY <1>2, <1>3 DEF Nothing

LEMMA LoadedFacts ==
  ASSUME NEW src, NEW s
  PROVE  /\ Clean(Loaded(src, s))
         /\ s = Counter => Loaded(src, s) = NumberOf(FirstOffset)
         /\ s # Counter => \A b \in Nat : At(b, Loaded(src, s)) = Loaded(src, s)
<1>1. s = Counter => Loaded(src, s) = NumberOf(FirstOffset)
  <2>1. Counter \in StSlots
    BY DEF Counter, StSlots
  <2> QED
    BY <2>1 DEF Loaded
<1>2. s # Counter => Loaded(src, s) \in {Nothing, Value({}, {Key(s)}, Whole)}
  BY DEF Loaded
<1>3. \A b \in Nat : /\ At(b, Nothing) = Nothing
                     /\ At(b, Value({}, {Key(s)}, Whole)) = Value({}, {Key(s)}, Whole)
  BY AtTemplate DEF Nothing
<1> QED
  BY <1>1, <1>2, <1>3, NumberClean, TemplateClean

LEMMA RegisterAt ==
  ASSUME NEW b \in Blocks, NEW o
  PROVE  Register(b, o) = At(b, FirstRegister(o)) /\ Clean(Register(b, o))
<1>1. b \in Nat
  BY DEF Blocks
<1>2. CASE o = RSI
  <2>1. RSI \notin {RCX, RAX}
    BY DEF RSI, RCX, RAX
  <2>2. Register(b, o) = NumberOf(NatOf(rsi(BitsOf(b))))
    BY <1>2, <2>1 DEF Register
  <2>3. Register(b, o) = NumberOf(16 * b + 8)
    BY <2>2, RsiNumber
  <2>4. At(b, NumberOf(8)) = NumberOf(16 * b + 8)
    <3>1. 8 \in 0 .. 15
      OBVIOUS
    <3> QED
      BY <1>1, <3>1, AtNumber
  <2> QED
    BY <1>2, <2>3, <2>4, NumberClean DEF FirstRegister
<1>3. CASE o \in {RCX, RAX} /\ o # RSI
  <2>1. /\ Register(b, o) = Value({}, {Key(0 - o[2])}, Whole)
        /\ Register(0, o) = Value({}, {Key(0 - o[2])}, Whole)
    BY <1>3 DEF Register
  <2> QED
    BY <1>1, <1>3, <2>1, AtTemplate, TemplateClean DEF FirstRegister
<1>4. CASE o \notin {RCX, RAX} /\ o # RSI
  <2>1. Register(b, o) = Nothing /\ Register(0, o) = Nothing
    BY <1>4 DEF Register
  <2> QED
    BY <1>1, <1>4, <2>1, AtTemplate, TemplateClean DEF FirstRegister, Nothing
<1> QED
  BY <1>2, <1>3, <1>4

\* The program, step after step.
LEMMA ReadyFacts ==
  ASSUME ProgramFits
  PROVE  /\ Past \in Nat /\ Past >= 1 /\ DOMAIN Program = 1 .. Past - 1
         /\ \A k \in 1 .. Past : Ready(k) \subseteq Places
         /\ \A k \in DOMAIN Program : Ready(k + 1) = Ready(k) \cup {Program[k].to}
         /\ Ready(1) = Kept \cup Locals
         /\ Locals \subseteq Places /\ Kept \subseteq Places
<1>1. Past \in Nat /\ Past >= 1 /\ DOMAIN Program = 1 .. Past - 1
  BY DEF ProgramFits, Past
<1>2. \A k \in DOMAIN Program : Program[k].to \in Places
  BY DEF ProgramFits, StepFits
<1>3. Locals \subseteq Places /\ Kept \subseteq Places
  BY DEF Kept, Places
<1>4. \A k \in 1 .. Past : Ready(k) \subseteq Places
  BY <1>1, <1>2, <1>3 DEF Ready
<1>5. \A k \in DOMAIN Program : Ready(k + 1) = Ready(k) \cup {Program[k].to}
  <2> SUFFICES ASSUME NEW k \in DOMAIN Program
               PROVE  Ready(k + 1) = Ready(k) \cup {Program[k].to}
    OBVIOUS
  <2>1. k \in Nat /\ k >= 1 /\ 1 .. (k + 1) - 1 = (1 .. k - 1) \cup {k}
    BY <1>1
  <2> QED
    BY <2>1 DEF Ready
<1>6. Ready(1) = Kept \cup Locals
  <2>1. 1 .. 1 - 1 = {}
    OBVIOUS
  <2> QED
    BY <2>1 DEF Ready
<1> QED
  BY <1>1, <1>3, <1>4, <1>5, <1>6

LEMMA FirstBlockFacts ==
  ASSUME ProgramFits, NEW src \in Sources, NEW k \in DOMAIN Program
  PROVE  /\ StepFits(Program[k], Ready(k))
         /\ ValueFits(Program[k], FirstBlock[src][k], FirstBlock[src][k + 1])
         /\ FirstBlock[src][k + 1][Program[k].to] = FirstEffect(Program[k], FirstBlock[src][k])
         /\ \A o \in Places :
              o # Program[k].to => FirstBlock[src][k + 1][o] = FirstBlock[src][k][o]
<1>1. /\ StepFits(Program[k], Ready(k))
      /\ ValueFits(Program[k], FirstBlock[src][k], FirstBlock[src][k + 1])
  BY DEF ProgramFits
<1>2. Program[k].to \in Places
  BY <1>1 DEF StepFits
<1>3. /\ DOMAIN FirstBlock[src][k] = Places
      /\ FirstBlock[src][k + 1] = [FirstBlock[src][k] EXCEPT ![Program[k].to] =
                                      FirstEffect(Program[k], FirstBlock[src][k])]
  BY <1>1 DEF ValueFits
<1> QED
  BY <1>1, <1>2, <1>3

LEMMA BlockNumber ==
  ASSUME SampleFits, TypeOK
  PROVE  bi \in Nat /\ (bi < NBlocks => bi \in Blocks)
<1>1. WordBits - 4 \in 0 .. WordBits
  BY AddressAssumption
<1>2. Power[WordBits - 4] \in Nat
  BY <1>1, PowerPositive
<1> QED
  BY <1>2, SampleAssumption DEF SampleFits, TypeOK, Blocks

SlotsFit == TypeOK /\ Matches /\ ColumnsWhole

\* A step of the program.
LEMMA ProgramStep ==
  ASSUME ProgramFits, SampleFits, SlotsFit, pc \in DOMAIN Program,
         Write(Effect(Current, bi, held)), words' \subseteq Words(source)
  PROVE  SlotsFit'
<1> DEFINE to == Program[pc].to
           x  == Effect(Program[pc], bi, held)
           y  == FirstEffect(Program[pc], FirstBlock[source][pc])
<1>1. /\ source \in Sources /\ bi \in 0 .. NBlocks /\ pc \in 0 .. Past /\ pc # 0 /\ bi < NBlocks
      /\ DOMAIN held = Places /\ held = [o \in Places |-> held[o]]
      /\ out = [b \in 1 .. bi |-> out[b]]
  BY ReadyFacts DEF SlotsFit, TypeOK
<1>2. bi \in Blocks /\ bi \in Nat
  BY <1>1, BlockNumber DEF SlotsFit
<1>3. /\ StepFits(Program[pc], Ready(pc))
      /\ ValueFits(Program[pc], FirstBlock[source][pc], FirstBlock[source][pc + 1])
      /\ FirstBlock[source][pc + 1][to] = y
      /\ \A o \in Places : o # to => FirstBlock[source][pc + 1][o] = FirstBlock[source][pc][o]
  BY <1>1, FirstBlockFacts
<1>4. /\ \A o \in Ready(pc) : held[o] = At(bi, FirstBlock[source][pc][o])
      /\ \A o \in Kept : held[o] = Loaded(source, o[2])
      /\ CarriedMatch
  BY <1>1 DEF SlotsFit, Matches, ReadyMatch, KeptMatch
<1>5. x = At(bi, y)
  <2>1. \A o \in ReadBy(Program[pc]) : held[o] = At(bi, FirstBlock[source][pc][o])
    BY <1>3, <1>4 DEF StepFits
  <2> QED
    BY <1>2, <1>3, <2>1, EffectAt
<1>6. to \in Places /\ to \in Stored
  BY <1>3 DEF StepFits, Stored, WrittenBy
<1>7. /\ held' = [held EXCEPT ![to] = x] /\ pc' = pc + 1
      /\ source' = source /\ bi' = bi /\ out' = out
  BY DEF Write, Current
<1>8. Junk \notin y.parts /\ y.blocks \subseteq {0}
  BY <1>3 DEF ValueFits
<1> HIDE DEF to, x, y
<1>9. held'[to] = x /\ \A o \in Places : o # to => held'[o] = held[o]
  BY <1>1, <1>6, <1>7
<1>10. TypeOK'
  <2>1. pc' \in 0 .. Past /\ bi' < NBlocks
    BY <1>1, <1>7, ReadyFacts
  <2>2. DOMAIN held' = Places /\ held' = [o \in Places |-> held'[o]]
    BY <1>1, <1>7
  <2>3. out' = [b \in 1 .. bi' |-> out'[b]]
    BY <1>1, <1>7
  <2> QED
    BY <1>1, <1>7, <2>1, <2>2, <2>3 DEF TypeOK
<1>11. KeptMatch'
  <2>1. ASSUME NEW o \in Kept PROVE held'[o] = Loaded(source, o[2])
    <3>1. o \in Places /\ o # to
      BY <1>6, KeptFacts
    <3> QED
      BY <1>4, <1>9, <3>1
  <2> QED
    BY <1>7, <2>1 DEF KeptMatch
<1>12. ReadyMatch'
  <2>1. ASSUME NEW o \in Ready(pc + 1)
        PROVE  held'[o] = At(bi, FirstBlock[source][pc + 1][o])
    <3>1. CASE o = to
      BY <1>3, <1>5, <1>9, <3>1
    <3>2. CASE o # to
      <4>1. o \in Ready(pc)
        BY <2>1, <3>2, ReadyFacts DEF to
      <4>2. o \in Places
        BY <1>1, <4>1, ReadyFacts
      <4> QED
        BY <1>3, <1>4, <1>9, <3>2, <4>1, <4>2
    <3> QED
      BY <3>1, <3>2
  <2> QED
    BY <1>7, <2>1 DEF ReadyMatch
<1>13. CarriedMatch'
  <2>1. ASSUME NEW p \in Copies PROVE held'[S(p[1])] = held[S(p[1])]
    <3>1. S(p[1]) # to
      BY <1>6 DEF ProgramFits, Carried
    <3>2. S(p[1]) \in Places
      <4>1. p[1] \in Slots
        BY DEF Slots
      <4> QED
        BY <4>1, PlaceFacts
    <3> QED
      BY <1>9, <3>1, <3>2
  <2> QED
    BY <1>4, <1>7, <2>1 DEF CarriedMatch
<1>14. ColumnsWhole'
  <2>1. \A o \in Places : Clean(held[o])
    BY DEF SlotsFit, ColumnsWhole, Clean
  <2>2. Clean(x)
    <3>1. {bi + i : i \in y.blocks} \subseteq {bi}
      BY <1>2, <1>8
    <3>2. Clean(Value({bi + i : i \in y.blocks}, y.parts, y.sel))
      <4> DEFINE B == {bi + i : i \in y.blocks}
      <4>1. B \subseteq {bi}
        BY <3>1
      <4> HIDE DEF B
      <4>2. Clean(Value(B, y.parts, y.sel))
        BY <1>8, <4>1, CleanValues
      <4> QED
        BY <4>2 DEF B
    <3> QED
      BY <1>5, <3>2 DEF At
  <2>3. \A o \in Places : Clean(held'[o])
    BY <1>9, <2>1, <2>2
  <2> QED
    BY <2>3 DEF ColumnsWhole, Clean
<1> QED
  BY <1>7, <1>10, <1>11, <1>12, <1>13, <1>14 DEF SlotsFit, Matches

LEMMA ActionIsStep ==
  ASSUME ProgramFits, SampleFits, SlotsFit,
         ComputeSum \/ Copy \/ CutByte \/ StoreOffset \/ LoadByte
  PROVE  /\ pc \in DOMAIN Program /\ Write(Effect(Current, bi, held))
         /\ words' \subseteq Words(source)
<1>1. words \subseteq Words(source)
  BY DEF SlotsFit, Matches
<1>2. CASE ComputeSum
  <2>1. pc \in DOMAIN Program /\ Program[pc].op = "sum"
    BY <1>2 DEF ComputeSum, Running, Current
  <2>2. Write(Effect(Current, bi, held))
    BY <1>2, <2>1 DEF ComputeSum, Effect, Current
  <2>3. LookedUp(Program[pc].of, Seen(Summed(Program[pc]), held)) \subseteq Words(source)
    <3>1. source \in Sources /\ pc # 0 /\ bi \in Nat
      BY <2>1, ReadyFacts, BlockNumber DEF SlotsFit, TypeOK
    <3>2. \A o \in Ready(pc) : held[o] = At(bi, FirstBlock[source][pc][o])
      BY <3>1 DEF SlotsFit, Matches, ReadyMatch
    <3>3. StepFits(Program[pc], Ready(pc))
      BY <2>1 DEF ProgramFits
    <3>4. \A o \in ReadBy(Program[pc]) : held[o] = At(bi, FirstBlock[source][pc][o])
      BY <3>2, <3>3 DEF StepFits
    <3> QED
      BY <2>1, <3>1, <3>4, WordsAt
  <2> QED
    BY <1>1, <1>2, <2>1, <2>2, <2>3 DEF ComputeSum, Current
<1>3. CASE Copy
  BY <1>1, <1>3 DEF Copy, Running, Current, Effect
<1>4. CASE CutByte
  BY <1>1, <1>4 DEF CutByte, Running, Current, Effect
<1>5. CASE StoreOffset
  BY <1>1, <1>5 DEF StoreOffset, Running, Current, Effect
<1>6. CASE LoadByte
  BY <1>1, <1>6 DEF LoadByte, Running, Current, Effect
<1> QED
  BY <1>2, <1>3, <1>4, <1>5, <1>6

\* The entry to a block: fresh registers, and what is kept is the first block's.
LEMMA BeginStep ==
  ASSUME ProgramFits, SampleFits, SlotsFit, Begin
  PROVE  SlotsFit'
<1>1. /\ source \in Sources /\ bi \in 0 .. NBlocks /\ pc = 0 /\ bi < NBlocks
      /\ DOMAIN held = Places /\ out = [b \in 1 .. bi |-> out[b]]
  BY DEF SlotsFit, TypeOK, Begin
<1>2. bi \in Blocks /\ bi \in Nat
  BY <1>1, BlockNumber DEF SlotsFit
<1>3. /\ held' = [o \in Places |-> IF o \in Locals THEN Register(bi, o) ELSE held[o]]
      /\ pc' = 1 /\ source' = source /\ bi' = bi /\ out' = out /\ words' = words
  BY DEF Begin
<1>4. /\ \A o \in Locals : held'[o] = Register(bi, o)
      /\ \A o \in Places : o \notin Locals => held'[o] = held[o]
  BY <1>3, ReadyFacts
<1>5. KeptMatch /\ CarriedMatch /\ words \subseteq Words(source)
      /\ \A o \in Places : Clean(held[o])
  BY DEF SlotsFit, Matches, ColumnsWhole, Clean
<1>6. TypeOK'
  <2>1. DOMAIN held' = Places /\ held' = [o \in Places |-> held'[o]]
    BY <1>3
  <2>2. pc' \in 0 .. Past
    BY <1>3, ReadyFacts
  <2>3. out' = [b \in 1 .. bi' |-> out'[b]]
    BY <1>1, <1>3
  <2> QED
    BY <1>1, <1>3, <2>1, <2>2, <2>3 DEF TypeOK
<1>7. ASSUME NEW o \in Kept PROVE held'[o] = Loaded(source, o[2])
  BY <1>4, <1>5, KeptFacts DEF KeptMatch
<1>8. ASSUME NEW o \in Kept \cup Locals
      PROVE  held'[o] = At(bi, FirstBlock[source][1][o])
  <2>1. FirstBlock[source][1] = Entered(source)
    BY <1>1 DEF ProgramFits
  <2>2. CASE o \in Locals
    <3>1. FirstBlock[source][1][o] = FirstRegister(o)
      BY <2>1, <2>2, ReadyFacts DEF Entered
    <3> QED
      BY <1>2, <1>4, <2>2, <3>1, RegisterAt
  <2>3. CASE o \in Kept
    <3>1. FirstBlock[source][1][o] = Loaded(source, o[2])
      BY <2>1, <2>3, KeptFacts DEF Entered
    <3>2. At(bi, Loaded(source, o[2])) = Loaded(source, o[2])
      BY <1>2, <2>3, KeptFacts, LoadedFacts
    <3> QED
      BY <1>7, <2>3, <3>1, <3>2
  <2> QED
    BY <1>8, <2>2, <2>3
<1>9. ReadyMatch'
  BY <1>3, <1>8, ReadyFacts DEF ReadyMatch
<1>10. CarriedMatch'
  <2>1. ASSUME NEW p \in Copies PROVE held'[S(p[1])] = held[S(p[1])]
    <3>1. p[1] \in Slots
      BY DEF Slots
    <3> QED
      BY <1>4, <3>1, PlaceFacts
  <2> QED
    BY <1>3, <1>5, <2>1 DEF CarriedMatch
<1>11. ColumnsWhole'
  <2>1. \A o \in Places : Clean(held'[o])
    BY <1>2, <1>4, <1>5, RegisterAt
  <2> QED
    BY <2>1 DEF ColumnsWhole, Clean
<1>12. KeptMatch'
  BY <1>3, <1>7 DEF KeptMatch
<1> QED
  BY <1>3, <1>5, <1>6, <1>9, <1>10, <1>11, <1>12 DEF SlotsFit, Matches

\* The end of a block: the ciphertext is carried over, the rest stays.
LEMMA EndStep ==
  ASSUME ProgramFits, SampleFits, SlotsFit, EndBlock
  PROVE  /\ \A p \in Copies : held'[S(p[1])] = held[S(p[2])]
         /\ \A o \in Places : o \notin Carried /\ o # S(Counter) => held'[o] = held[o]
         /\ held'[S(Counter)] = NumberOf(NextCounter(NumberIn(held[S(Counter)])))
         /\ SlotsFit'
<1>1. /\ source \in Sources /\ bi \in 0 .. NBlocks /\ pc = Past /\ pc # 0 /\ bi < NBlocks
      /\ DOMAIN held = Places /\ out = [b \in 1 .. bi |-> out[b]]
  BY ReadyFacts DEF SlotsFit, TypeOK, EndBlock, Past
<1>2. bi \in Nat
  BY <1>1
<1> DEFINE Next0 == NumberOf(NextCounter(NumberIn(held[S(Counter)])))
           Source(o) == CHOOSE p \in Copies : S(p[1]) = o
<1>3. /\ held' = [o \in Places |->
            CASE o = S(Counter) -> NumberOf(NextCounter(NumberIn(held[o])))
              [] \E p \in Copies : S(p[1]) = o -> held[S(Source(o)[2])]
              [] OTHER -> held[o]]
      /\ bi' = bi + 1 /\ pc' = 0 /\ source' = source /\ words' = words
  BY DEF EndBlock
<1>4. KeptMatch /\ ReadyMatch /\ CarriedMatch /\ words \subseteq Words(source)
      /\ \A o \in Places : Clean(held[o])
  BY DEF SlotsFit, Matches, ColumnsWhole, Clean
<1>5. /\ \A p \in Copies : S(p[1]) \in Places /\ S(p[1]) \in Carried /\ S(p[2]) \in Ready(Past)
      /\ S(Counter) \in Places /\ S(Counter) \notin Carried
      /\ \A p, q \in Copies : S(p[1]) = S(q[1]) => p = q
  <2>1. \A p \in Copies : p[1] \in Slots
    BY DEF Slots
  <2>2. Counter \in Slots
    BY DEF Slots
  <2> QED
    BY <2>1, <2>2, PlaceFacts DEF ProgramFits, Carried
<1>6. ASSUME NEW p \in Copies PROVE held'[S(p[1])] = held[S(p[2])]
  <2>1. S(p[1]) # S(Counter) /\ S(p[1]) \in Places
    BY <1>5
  <2>2. Source(S(p[1])) \in Copies /\ S(Source(S(p[1]))[1]) = S(p[1])
    OBVIOUS
  <2>3. Source(S(p[1])) = p
    BY <1>5, <2>2
  <2> HIDE DEF Source
  <2> QED
    BY <1>3, <2>1, <2>3
<1>7. ASSUME NEW o \in Places, o \notin Carried, o # S(Counter) PROVE held'[o] = held[o]
  <2>1. ~ \E p \in Copies : S(p[1]) = o
    BY <1>7 DEF Carried
  <2> HIDE DEF Source
  <2> QED
    BY <1>3, <1>7, <2>1
<1>8. held'[S(Counter)] = Next0
  <2>1. ~ \E p \in Copies : S(p[1]) = S(Counter)
    BY <1>5
  <2> HIDE DEF Source
  <2> QED
    BY <1>3, <1>5, <2>1
<1>9. DOMAIN held' = Places /\ held' = [o \in Places |-> held'[o]]
  BY <1>3
<1> HIDE DEF Next0, Source
<1>10. TypeOK'
  <2>1. out' = [b \in 1 .. bi' |-> out'[b]]
    <3>1. out' = Append(out, Reconstructed({PlainByte(pt[i]) : i \in DOMAIN pt}))
      BY DEF EndBlock
    <3> HIDE DEF Reconstructed
    <3>2. \A e : Append(out, e) = [b \in 1 .. bi + 1 |-> IF b = bi + 1 THEN e ELSE out[b]]
      <4>1. Len(out) = bi
        BY <1>1, <1>2
      <4> QED
        BY <1>1, <4>1
    <3> QED
      BY <1>3, <3>1, <3>2
  <2>2. bi' \in 0 .. NBlocks /\ pc' = 0 /\ 0 \in 0 .. Past
    BY <1>1, <1>3, SampleAssumption, ReadyFacts
  <2> QED
    BY <1>1, <1>3, <1>9, <2>1, <2>2 DEF TypeOK
<1>11. KeptMatch'
  <2>1. ASSUME NEW o \in Kept PROVE held'[o] = Loaded(source, o[2])
    BY <1>4, <1>7, KeptFacts DEF KeptMatch
  <2> QED
    BY <1>3, <2>1 DEF KeptMatch
<1>12. ReadyMatch'
  BY <1>3 DEF ReadyMatch
<1>13. CarriedMatch'
  <2>1. ASSUME NEW p \in Copies
        PROVE  held'[S(p[1])] = At(bi, FirstBlock[source][Past][S(p[2])])
    <3>1. held[S(p[2])] = At(bi, FirstBlock[source][pc][S(p[2])])
      BY <1>1, <1>4, <1>5 DEF ReadyMatch
    <3> QED
      BY <1>1, <1>6, <3>1
  <2>2. bi' # 0 /\ bi' - 1 = bi
    BY <1>2, <1>3
  <2> QED
    BY <1>3, <2>1, <2>2 DEF CarriedMatch
<1>14. ColumnsWhole'
  <2>1. ASSUME NEW o \in Places PROVE Clean(held'[o])
    <3>1. CASE o = S(Counter)
      BY <1>8, <3>1, NumberClean DEF Next0
    <3>2. CASE o \in Carried
      <4>1. PICK p \in Copies : o = S(p[1])
        BY <3>2 DEF Carried
      <4>2. S(p[2]) \in Places
        BY <1>5, ReadyFacts
      <4> QED
        BY <1>4, <1>6, <4>1, <4>2
    <3> QED
      BY <1>4, <1>7, <3>1, <3>2
  <2> QED
    BY <2>1 DEF ColumnsWhole, Clean
<1> QED
  BY <1>3, <1>4, <1>6, <1>7, <1>8, <1>10, <1>11, <1>12, <1>13, <1>14
     DEF SlotsFit, Matches, Next0

-----------------------------------------------------------------------------
(***************************************************************************)
(* The theorems about the slots, under what TLC finds of the program.      *)
(***************************************************************************)
LEMMA SlotsInit ==
  ASSUME ProgramFits, Init
  PROVE  SlotsFit
<1>1. /\ source \in Sources /\ bi = 0 /\ pc = 0 /\ out = <<>> /\ words = {}
      /\ held = [o \in Places |-> IF o \in Locals THEN Nothing ELSE Loaded(source, o[2])]
  BY DEF Init, Sources
<1>2. /\ \A o \in Locals : held[o] = Nothing
      /\ \A o \in Places : o \notin Locals => held[o] = Loaded(source, o[2])
  BY <1>1, ReadyFacts
<1>3. TypeOK
  <2>1. DOMAIN held = Places /\ held = [o \in Places |-> held[o]]
    BY <1>1
  <2>2. out = [b \in 1 .. bi |-> out[b]]
    BY <1>1
  <2>3. bi \in 0 .. NBlocks /\ pc \in 0 .. Past
    BY <1>1, SampleAssumption, ReadyFacts
  <2> QED
    BY <1>1, <2>1, <2>2, <2>3 DEF TypeOK
<1>4. KeptMatch
  BY <1>2, KeptFacts DEF KeptMatch
<1>5. CarriedMatch
  <2>1. ASSUME NEW p \in Copies PROVE held[S(p[1])] = Loaded(source, p[1])
    <3>1. p[1] \in Slots
      BY DEF Slots
    <3> QED
      BY <1>2, <3>1, PlaceFacts
  <2> QED
    BY <1>1, <2>1 DEF CarriedMatch
<1>6. ColumnsWhole
  <2>1. \A o \in Places : Clean(held[o])
    BY <1>2, LoadedFacts, TemplateClean
  <2> QED
    BY <2>1 DEF ColumnsWhole, Clean
<1>7. ReadyMatch /\ words \subseteq Words(source)
  BY <1>1 DEF ReadyMatch
<1> QED
  BY <1>3, <1>4, <1>5, <1>6, <1>7 DEF SlotsFit, Matches

LEMMA SlotsNext ==
  ASSUME ProgramFits, SampleFits, SlotsFit, [Next]_vars
  PROVE  SlotsFit'
<1>1. CASE Begin
  BY <1>1, BeginStep
<1>2. CASE ComputeSum \/ Copy \/ CutByte \/ StoreOffset \/ LoadByte
  <2>1. /\ pc \in DOMAIN Program /\ Write(Effect(Current, bi, held))
        /\ words' \subseteq Words(source)
    BY <1>2, ActionIsStep
  <2> QED
    BY <2>1, ProgramStep
<1>3. CASE EndBlock
  BY <1>3, EndStep
<1>4. CASE Finished \/ UNCHANGED vars
  BY <1>4 DEF Finished, vars, SlotsFit, TypeOK, Matches, KeptMatch, ReadyMatch, CarriedMatch,
              ColumnsWhole
<1> QED
  BY <1>1, <1>2, <1>3, <1>4 DEF Next

\* Every value of every block is that of the first block, with the number of the
\* block in it: no step of decrypt_blocks_into reads what an earlier block left
\* behind, but for the ciphertext and the counter that the code carries over.
THEOREM BlocksAlike ==
  ASSUME ProgramFits, SampleFits
  PROVE  Spec => [](TypeOK /\ Matches)
<1>1. Init => SlotsFit
  BY SlotsInit
<1>2. SlotsFit /\ [Next]_vars => SlotsFit'
  BY SlotsNext
<1>3. SlotsFit => TypeOK /\ Matches
  BY DEF SlotsFit
<1> QED
  BY <1>1, <1>2, <1>3, PTL DEF Spec

\* Every number that indexes a round table is a whole word, of a whole column and
\* a whole key, and no number is put together from two blocks: no store of one
\* round lands on what another still needs, in any block.
THEOREM WholeColumns ==
  ASSUME ProgramFits, SampleFits
  PROVE  Spec => []ColumnsWhole
<1>1. Init => SlotsFit
  BY SlotsInit
<1>2. SlotsFit /\ [Next]_vars => SlotsFit'
  BY SlotsNext
<1>3. SlotsFit => ColumnsWhole
  BY DEF SlotsFit
<1> QED
  BY <1>1, <1>2, <1>3, PTL DEF Spec

\* The round keys: a slot serves one column of one round, the template's keys
\* are still in their slots when a block ends, and the two branches of rounds 7
\* to 9 never share a word.
THEOREM KeysServeOnce ==
  ASSUME ProgramFits, SampleFits
  PROVE  Spec => []RoundKeys
<1>1. Init => SlotsFit
  BY SlotsInit
<1>2. SlotsFit /\ [Next]_vars => SlotsFit'
  BY SlotsNext
<1>3. SlotsFit => RoundKeys
  <2> SUFFICES ASSUME SlotsFit PROVE RoundKeys
    OBVIOUS
  <2>1. words \subseteq Words(source) /\ KeptMatch /\ source \in Sources
    BY DEF SlotsFit, Matches, TypeOK
  <2>2. WordsFit(source, Words(source))
    BY <2>1 DEF ProgramFits
  <2>3. SlotsServeOnce
    BY <2>1, <2>2 DEF WordsFit, SlotsServeOnce
  <2>4. BranchesSeparate
    BY <2>1, <2>2 DEF WordsFit, BranchesSeparate
  <2>5. KeysKept
    <3>1. ASSUME NEW w \in words, NEW s \in w.key \cap Slots
          PROVE  held[S(s)].parts = {Key(s)}
      <4>1. S(s) \in Kept /\ Loaded(source, s).parts = {Key(s)}
        BY <2>1, <2>2, <3>1 DEF WordsFit
      <4>2. held[S(s)] = Loaded(source, S(s)[2])
        BY <2>1, <4>1 DEF KeptMatch
      <4> QED
        BY <4>1, <4>2, PlaceFacts
    <3> QED
      BY <3>1 DEF KeysKept
  <2> QED
    BY <2>3, <2>4, <2>5 DEF RoundKeys
<1> QED
  BY <1>1, <1>2, <1>3, PTL DEF Spec

-----------------------------------------------------------------------------
(***************************************************************************)
(* The fourth part: the block that leaves.                                 *)
(***************************************************************************)
LEMMA SingleBlock ==
  ASSUME NEW x, NEW b, x.blocks = {b}
  PROVE  BlockOf(x) = b
<1>1. Cardinality({b}) = 1
  BY FS_Singleton
<1>2. (CHOOSE i \in {b} : TRUE) = b
  OBVIOUS
<1> QED
  BY <1>1, <1>2 DEF BlockOf

LEMMA AesAt ==
  ASSUME NEW b \in Nat, NEW x, NEW j, NEW m, x.blocks = {0}, AesByte(x, j) = <<0, m>>
  PROVE  AesByte(At(b, x), j) = <<b, m>>
<1> DEFINE c == 4 * NameOf(x.parts, "last").c + 3 - j
<1>1. BlockOf(x) = 0
  BY SingleBlock
<1>2. AesByte(x, j) = IF IsWord(x.parts, "last") THEN <<0, c>> ELSE <<-1, -1>>
  BY <1>1 DEF AesByte
<1>3. At(b, x).parts = x.parts /\ At(b, x).blocks = {b + i : i \in {0}}
  BY AtFacts
<1>4. At(b, x).blocks = {b}
  BY <1>3
<1>5. BlockOf(At(b, x)) = b
  BY <1>4, SingleBlock
<1>6. AesByte(At(b, x), j) = IF IsWord(x.parts, "last") THEN <<b, c>> ELSE <<-1, -1>>
  BY <1>3, <1>5 DEF AesByte
<1> HIDE DEF c
<1> QED
  BY <1>2, <1>6

LEMMA AtomsDistinct ==
  /\ \A s, k, l : Key(s) # Cipher(k, l)
  /\ \A s, u : Key(s) = Key(u) => s = u
  /\ \A k, n, l : Cipher(k, l) = Cipher(n, l) => k = n
<1>1. \A s, k, l : Key(s).kind = "key" /\ Cipher(k, l).kind = "ct"
  BY DEF Key, Cipher
<1>2. \A s, k, l : Key(s).slot = s /\ Cipher(k, l).k = k
  BY DEF Key, Cipher
<1>3. \A s, k, l : Key(s) # Cipher(k, l)
  BY <1>1
<1>4. \A s, u : Key(s) = Key(u) => s = u
  BY <1>2
<1>5. \A k, n, l : Cipher(k, l) = Cipher(n, l) => k = n
  BY <1>2
<1> QED
  BY <1>3, <1>4, <1>5

\* The first block is chained to the initial vector, the others to ciphertext.
LEMMA FirstChained ==
  ASSUME ResultFits, NEW x, NEW m \in 0 .. 15, x.parts = Vector(m)
  PROVE  ChainByte(x) = <<"iv", m>>
<1>1. \A k \in 0 .. 15 : Vector(k) = {Key(pt[k + 1][2])}
  BY DEF Vector
<1>2. ~ \E k \in 0 .. 15 : x.parts = {Cipher(k, 0)}
  BY <1>1, AtomsDistinct
<1>3. \A k \in 0 .. 15 : x.parts = Vector(k) => k = m
  <2> SUFFICES ASSUME NEW k \in 0 .. 15, Vector(m) = Vector(k) PROVE k = m
    OBVIOUS
  <2>1. Key(pt[m + 1][2]) = Key(pt[k + 1][2])
    BY <1>1
  <2>2. pt[m + 1][2] = pt[k + 1][2]
    BY <2>1, AtomsDistinct
  <2>3. m + 1 \in 1 .. 16 /\ k + 1 \in 1 .. 16
    OBVIOUS
  <2>4. m + 1 = k + 1
    BY <2>2, <2>3 DEF ResultFits
  <2> QED
    BY <2>4
<1>4. (CHOOSE k \in 0 .. 15 : x.parts = Vector(k)) = m
  BY <1>3
<1>5. \E k \in 0 .. 15 : x.parts = Vector(k)
  OBVIOUS
<1> HIDE DEF Vector
<1> QED
  BY <1>2, <1>4, <1>5 DEF ChainByte

LEMMA LaterChained ==
  ASSUME NEW b \in Nat, NEW m \in 0 .. 15
  PROVE  ChainByte(CipherByte(16 * b + m)) = <<"ct", 16 * b + m>>
<1> DEFINE x == CipherByte(16 * b + m)
<1>1. x = Value({b}, {Cipher(m, 0)}, Whole)
  BY AtNumber
<1>2. x.parts = {Cipher(m, 0)} /\ x.blocks = {b}
  BY <1>1 DEF Value
<1> HIDE DEF x
<1>3. \A k \in 0 .. 15 : x.parts = {Cipher(k, 0)} => k = m
  <2> SUFFICES ASSUME NEW k \in 0 .. 15, {Cipher(m, 0)} = {Cipher(k, 0)} PROVE k = m
    BY <1>2
  <2>1. Cipher(m, 0) = Cipher(k, 0)
    OBVIOUS
  <2> QED
    BY <2>1, AtomsDistinct
<1>4. (CHOOSE k \in 0 .. 15 : x.parts = {Cipher(k, 0)}) = m
  BY <1>2, <1>3
<1>5. \E k \in 0 .. 15 : x.parts = {Cipher(k, 0)}
  BY <1>2
<1>6. ~ \E k \in 0 .. 15 : x.parts = Vector(k)
  BY <1>2, AtomsDistinct DEF Vector
<1>7. BlockOf(x) = b
  BY <1>2, SingleBlock
<1>8. ChainByte(x) = <<"ct", 16 * b + m>>
  BY <1>4, <1>5, <1>6, <1>7 DEF ChainByte
<1> QED
  BY <1>8 DEF x

\* What block b has to deliver at place m.
ByteOf(b, m) ==
    [offset |-> 16 * b + m, aes |-> <<b, m>>,
     chain |-> IF b = 0 THEN <<"iv", m>> ELSE <<"ct", 16 * (b - 1) + m>>]

LEMMA ByteOut ==
  ASSUME ProgramFits, ResultFits, SampleFits, SlotsFit, Delivered, pc = Past, NEW i \in 1 .. 16
  PROVE  PlainByte(pt[i]) = ByteOf(bi, i - 1)
<1> DEFINE m == i - 1
           h == FirstBlock[source][Past]
<1>1. source \in Sources /\ bi \in Nat /\ bi < NBlocks /\ m \in 0 .. 15
  BY ReadyFacts, BlockNumber DEF SlotsFit, TypeOK
<1>2. /\ \A o \in Ready(Past) : held[o] = At(bi, h[o])
      /\ CarriedMatch /\ KeptMatch
  BY ReadyFacts DEF SlotsFit, Matches, ReadyMatch
<1>3. ByteFits(source, FirstBlock[source][Past], Ready(Past), i)
  BY <1>1 DEF ResultFits
<1>4. NumberIn(held[S(pt[i][1])]) = 16 * bi + m
  <2>1. CASE S(pt[i][1]) = S(Counter) /\ i = 9
    <3>1. held[S(Counter)] = NumberOf(16 * bi + 8)
      BY <1>1 DEF Delivered
    <3>2. m = 8 /\ 16 * bi + 8 \in Nat
      BY <1>1, <2>1
    <3> QED
      BY <2>1, <3>1, <3>2, NumberInNumber
  <2>2. CASE S(pt[i][1]) \in Ready(Past) /\ h[S(pt[i][1])] = NumberOf(m)
    <3>1. held[S(pt[i][1])] = At(bi, NumberOf(m))
      BY <1>2, <2>2
    <3>2. held[S(pt[i][1])] = NumberOf(16 * bi + m)
      BY <1>1, <3>1, AtNumber
    <3> QED
      BY <1>1, <3>2, NumberInNumber
  <2> QED
    BY <1>3, <2>1, <2>2 DEF ByteFits
<1>5. AesByte(held[pt[i][3]], pt[i][4]) = <<bi, m>>
  <2>1. held[pt[i][3]] = At(bi, h[pt[i][3]])
    BY <1>2, <1>3 DEF ByteFits
  <2>2. h[pt[i][3]].blocks = {0} /\ AesByte(h[pt[i][3]], pt[i][4]) = <<0, m>>
    BY <1>3 DEF ByteFits
  <2> HIDE DEF h, m
  <2> QED
    BY <1>1, <2>1, <2>2, AesAt
<1>6. ChainByte(held[S(pt[i][2])]) = IF bi = 0 THEN <<"iv", m>> ELSE <<"ct", 16 * (bi - 1) + m>>
  <2>1. PICK p \in Copies : p[1] = pt[i][2] /\ h[S(p[2])] = CipherByte(m)
    BY <1>3 DEF ByteFits
  <2>2. CASE bi = 0
    <3>1. held[S(pt[i][2])] = Loaded(source, pt[i][2])
      BY <1>2, <2>1, <2>2 DEF CarriedMatch
    <3>2. held[S(pt[i][2])].parts = Vector(m)
      BY <1>3, <3>1 DEF ByteFits
    <3> QED
      BY <1>1, <2>2, <3>2, FirstChained
  <2>3. CASE bi # 0
    <3>1. held[S(pt[i][2])] = At(bi - 1, CipherByte(m))
      BY <1>2, <2>1, <2>3 DEF CarriedMatch
    <3>2. bi - 1 \in Nat
      BY <1>1, <2>3
    <3>3. held[S(pt[i][2])] = CipherByte(16 * (bi - 1) + m)
      BY <1>1, <3>1, <3>2, AtNumber
    <3> QED
      BY <1>1, <2>3, <3>2, <3>3, LaterChained
  <2> QED
    BY <2>2, <2>3
<1> HIDE DEF m
<1> QED
  BY <1>4, <1>5, <1>6 DEF PlainByte, ByteOf, m

\* Sixteen bytes with consecutive offsets leave in their order.
LEMMA Rebuilt ==
  ASSUME NEW b \in Nat
  PROVE  PlainBlock(Reconstructed({ByteOf(b, m) : m \in 0 .. 15})) = Cbc!Plaintext(b)
<1> DEFINE bytes == {ByteOf(b, m) : m \in 0 .. 15}
           offsets == {x.offset : x \in bytes}
           blk == Reconstructed(bytes)
<1>1. \A m \in 0 .. 15 : ByteOf(b, m).offset = 16 * b + m
  BY DEF ByteOf
<1>2. offsets = {16 * b + m : m \in 0 .. 15}
  BY <1>1
<1>3. Min(offsets) = 16 * b
  <2>1. 16 * b \in offsets /\ \A y \in offsets : 16 * b =< y /\ y \in Nat
    <3>1. 16 * b = 16 * b + 0 /\ 0 \in 0 .. 15
      OBVIOUS
    <3>2. 16 * b \in offsets
      BY <1>2, <3>1
    <3>3. \A m \in 0 .. 15 : 16 * b =< 16 * b + m /\ 16 * b + m \in Nat
      OBVIOUS
    <3> HIDE DEF offsets
    <3> QED
      BY <1>2, <3>2, <3>3
  <2> HIDE DEF offsets
  <2>2. \A x \in offsets : (\A y \in offsets : x =< y) => x = 16 * b
    BY <2>1
  <2> QED
    BY <2>1, <2>2 DEF Min
<1>4. blk = [k \in 0 .. 15 |-> {x \in bytes : x.offset - 16 * b = k}]
  <2> HIDE DEF bytes
  <2> QED
    BY <1>3 DEF Reconstructed
<1>5. ASSUME NEW k \in 0 .. 15 PROVE {x \in bytes : x.offset - 16 * b = k} = {ByteOf(b, k)}
  <2>1. \A m \in 0 .. 15 : ByteOf(b, m).offset - 16 * b = m
    BY <1>1
  <2> QED
    BY <2>1
<1> HIDE DEF bytes, blk
<1>6. \A k \in 0 .. 15 : blk[k] = {ByteOf(b, k)}
  BY <1>4, <1>5
<1>7. ASSUME NEW k \in 0 .. 15 PROVE PlainBlock(blk)[k] = Cbc!Plaintext(b)[k]
  <2>1. Cardinality({ByteOf(b, k)}) = 1
    BY FS_Singleton
  <2>2. (CHOOSE y \in {ByteOf(b, k)} : TRUE) = ByteOf(b, k)
    OBVIOUS
  <2>3. PlainBlock(blk)[k] = [aes |-> ByteOf(b, k).aes, chain |-> ByteOf(b, k).chain]
    BY <1>6, <2>1, <2>2 DEF PlainBlock
  <2>4. Cbc!Plaintext(b)[k] =
          [aes |-> <<b, k>>,
           chain |-> IF b = 0 THEN <<"iv", k>> ELSE <<"ct", 16 * (b - 1) + k>>]
    BY DEF Cbc!Plaintext
  <2> QED
    BY <2>3, <2>4 DEF ByteOf
<1>8. /\ PlainBlock(blk) = [k \in 0 .. 15 |-> PlainBlock(blk)[k]]
      /\ Cbc!Plaintext(b) = [k \in 0 .. 15 |-> Cbc!Plaintext(b)[k]]
  BY DEF PlainBlock, Cbc!Plaintext
<1>9. PlainBlock(blk) = Cbc!Plaintext(b)
  BY <1>7, <1>8
<1> QED
  BY <1>9 DEF blk, bytes

LEMMA CounterKept ==
  ASSUME ProgramFits, TypeOK, pc \in DOMAIN Program, NEW x, Write(x)
  PROVE  held'[S(Counter)] = held[S(Counter)]
<1>1. Program[pc].to \in Stored /\ S(Counter) \notin Stored
  BY DEF ProgramFits, Stored, WrittenBy
<1>2. Counter \in Slots
  BY DEF Slots
<1>3. S(Counter) \in Places
  BY <1>2, PlaceFacts
<1>4. held' = [held EXCEPT ![Program[pc].to] = x] /\ held = [o \in Places |-> held[o]]
  BY DEF Write, Current, TypeOK
<1> QED
  BY <1>1, <1>3, <1>4

LEMMA PlainOut ==
  ASSUME ProgramFits, ResultFits, SampleFits, SlotsFit, Delivered, EndBlock
  PROVE  \E blk : out' = Append(out, blk) /\ PlainBlock(blk) = Cbc!Plaintext(bi)
<1> DEFINE bytes == {PlainByte(pt[i]) : i \in DOMAIN pt}
           blk == Reconstructed(bytes)
<1>1. pc = Past /\ out' = Append(out, blk)
  BY DEF EndBlock, Past
<1>2. DOMAIN pt = 1 .. 16 /\ bi \in Nat
  BY BlockNumber DEF ResultFits, SlotsFit
<1>3. \A i \in 1 .. 16 : PlainByte(pt[i]) = ByteOf(bi, i - 1)
  BY <1>1, ByteOut
<1>4. bytes = {ByteOf(bi, m) : m \in 0 .. 15}
  <2>1. \A m \in 0 .. 15 : m + 1 \in 1 .. 16 /\ (m + 1) - 1 = m
    OBVIOUS
  <2>2. \A i \in 1 .. 16 : i - 1 \in 0 .. 15
    OBVIOUS
  <2> QED
    BY <1>2, <1>3, <2>1, <2>2
<1>5. PlainBlock(blk) = Cbc!Plaintext(bi)
  BY <1>2, <1>4, Rebuilt
<1> HIDE DEF blk
<1> QED
  BY <1>1, <1>5

LEMMA DeliveredInit ==
  ASSUME ResultFits, Init
  PROVE  Delivered
<1>1. Counter \in Slots
  BY DEF Slots
<1>2. S(Counter) \in Places /\ S(Counter) \notin Locals /\ S(Counter)[2] = Counter
  BY <1>1, PlaceFacts
<1>3. held[S(Counter)] = Loaded(source, Counter)
  BY <1>2 DEF Init
<1>4. held[S(Counter)] = NumberOf(8)
  BY <1>3, LoadedFacts DEF ResultFits
<1>5. bi = 0 /\ 16 * 0 + 8 = 8 /\ 1 .. 0 = {}
  BY DEF Init
<1> QED
  BY <1>4, <1>5 DEF Delivered

\* The counter after a block is that of the next one: it does not wrap.
LEMMA CounterNext ==
  ASSUME SampleFits, NEW b \in Nat, b + 1 < NBlocks
  PROVE  NextCounter(16 * b + 8) = 16 * (b + 1) + 8
<1>1. WordBits \in 4 .. WordBits
  BY AddressAssumption
<1>2. /\ Power[WordBits] = 16 * Power[WordBits - 4] /\ Power[WordBits - 4] \in Nat
      /\ b + 1 < Power[WordBits - 4]
  BY <1>1, SixteenPowers, PowerPositive, SampleAssumption DEF SampleFits
<1>3. (16 * b + 8) + 16 < Power[WordBits] /\ Power[WordBits] \in Nat
  BY <1>2
<1>4. ASSUME NEW n \in Nat, NEW p \in Nat, n < p PROVE n % p = n
  BY <1>4
<1> QED
  BY <1>3, <1>4 DEF NextCounter

LEMMA DeliveredNext ==
  ASSUME ProgramFits, ResultFits, SampleFits, SlotsFit, Delivered, [Next]_vars
  PROVE  Delivered'
<1>1. bi \in Nat /\ out = [b \in 1 .. bi |-> out[b]]
  BY BlockNumber DEF SlotsFit, TypeOK
<1>2. Counter \in Slots
  BY DEF Slots
<1>3. S(Counter) \in Places /\ S(Counter) \notin Locals
  BY <1>2, PlaceFacts
<1>4. CASE Begin
  BY <1>3, <1>4 DEF Begin, Delivered
<1>5. CASE ComputeSum \/ Copy \/ CutByte \/ StoreOffset \/ LoadByte
  <2>1. pc \in DOMAIN Program /\ Write(Effect(Current, bi, held))
    BY <1>5, ActionIsStep
  <2>2. held'[S(Counter)] = held[S(Counter)]
    BY <2>1, CounterKept DEF SlotsFit
  <2> QED
    BY <2>1, <2>2 DEF Write, Delivered
<1>6. CASE EndBlock
  <2>1. PICK blk : out' = Append(out, blk) /\ PlainBlock(blk) = Cbc!Plaintext(bi)
    BY <1>6, PlainOut
  <2>2. bi' = bi + 1 /\ Len(out) = bi
    BY <1>1, <1>6 DEF EndBlock
  <2>3. ASSUME NEW b \in 1 .. bi + 1 PROVE PlainBlock(out'[b]) = Cbc!Plaintext(b - 1)
    <3>1. CASE b = bi + 1
      <4>1. out'[b] = blk /\ b - 1 = bi
        BY <1>1, <2>1, <2>2, <3>1
      <4> QED
        BY <2>1, <4>1
    <3>2. CASE b \in 1 .. bi
      <4>1. out'[b] = out[b]
        BY <1>1, <2>1, <2>2, <3>2
      <4> QED
        BY <3>2, <4>1 DEF Delivered
    <3> QED
      BY <3>1, <3>2, <1>1
  <2>4. ASSUME bi + 1 < NBlocks
        PROVE  held'[S(Counter)] = NumberOf(16 * (bi + 1) + 8)
    <3>1. held'[S(Counter)] = NumberOf(NextCounter(NumberIn(held[S(Counter)])))
      BY <1>6, EndStep
    <3>2. held[S(Counter)] = NumberOf(16 * bi + 8)
      BY <1>1, <2>4, SampleAssumption DEF Delivered
    <3>3. NumberIn(held[S(Counter)]) = 16 * bi + 8
      BY <1>1, <3>2, NumberInNumber
    <3> QED
      BY <1>1, <2>4, <3>1, <3>3, CounterNext
  <2> QED
    BY <2>2, <2>3, <2>4 DEF Delivered
<1>7. CASE Finished \/ UNCHANGED vars
  BY <1>7 DEF Finished, vars, Delivered
<1> QED
  BY <1>4, <1>5, <1>6, <1>7 DEF Next

-----------------------------------------------------------------------------
(***************************************************************************)
(* The theorems about the output.                                          *)
(***************************************************************************)

\* The whole invariant: besides the slots, the counter and every block written.
THEOREM RoundInvariance ==
  ASSUME ProgramFits, ResultFits, SampleFits
  PROVE  Spec => []RoundInv
<1>1. Init => SlotsFit /\ Delivered
  BY SlotsInit, DeliveredInit
<1>2. SlotsFit /\ Delivered /\ [Next]_vars => SlotsFit' /\ Delivered'
  BY SlotsNext, DeliveredNext
<1>3. SlotsFit /\ Delivered => RoundInv
  BY DEF RoundInv, SlotsFit
<1> QED
  BY <1>1, <1>2, <1>3, PTL DEF Spec

\* decrypt_blocks_into is cipher block chaining: every block it writes is the
\* deciphered block XORed with the ciphertext before it, the first one with the
\* initial vector; blocks leave in their order, each once.  That all of them
\* leave needs fairness and is checked by TLC (CbcSpec).
THEOREM RoundsImplementCbc ==
  ASSUME ProgramFits, ResultFits, SampleFits
  PROVE  Spec => Cbc!Safety
<1> DEFINE Good == SlotsFit /\ Delivered
<1>1. Init => Good
  BY SlotsInit, DeliveredInit
<1>2. Good /\ [Next]_vars => Good'
  BY SlotsNext, DeliveredNext
<1>3. Init => Cbc!Init
  <2> SUFFICES ASSUME Init PROVE Plain = <<>>
    BY DEF Cbc!Init
  <2>1. out = <<>>
    BY DEF Init
  <2> QED
    BY <2>1 DEF Plain
<1>4. Good /\ [Next]_vars => [Cbc!NextBlock]_Plain
  <2> SUFFICES ASSUME Good, [Next]_vars PROVE Cbc!NextBlock \/ Plain' = Plain
    OBVIOUS
  <2>1. CASE EndBlock
    <3>1. PICK blk : out' = Append(out, blk) /\ PlainBlock(blk) = Cbc!Plaintext(bi)
      BY <2>1, PlainOut
    <3>2. bi \in Nat /\ bi < NBlocks /\ out = [b \in 1 .. bi |-> out[b]]
      <4>1. pc = Past /\ pc # 0
        BY <2>1, ReadyFacts DEF EndBlock, Past
      <4> QED
        BY <4>1, BlockNumber DEF SlotsFit, TypeOK
    <3>3. Plain = [b \in 1 .. bi |-> PlainBlock(out[b])]
      BY <3>2 DEF Plain
    <3>4. Len(Plain) = bi /\ \A b \in 1 .. bi : b # bi + 1 /\ Plain[b] = PlainBlock(out[b])
      BY <3>2, <3>3
    <3>5. Plain' = Append(Plain, Cbc!Plaintext(bi))
      <4>1. /\ DOMAIN out' = 1 .. bi + 1 /\ out'[bi + 1] = blk
            /\ \A b \in 1 .. bi : out'[b] = out[b]
        BY <3>1, <3>2
      <4>2. Plain' = [b \in 1 .. bi + 1 |-> PlainBlock(out'[b])]
        BY <4>1 DEF Plain
      <4>3. Append(Plain, Cbc!Plaintext(bi)) =
              [b \in 1 .. bi + 1 |-> IF b = bi + 1 THEN Cbc!Plaintext(bi) ELSE Plain[b]]
        BY <3>2, <3>3, <3>4
      <4>4. ASSUME NEW b \in 1 .. bi + 1
            PROVE  PlainBlock(out'[b]) = IF b = bi + 1 THEN Cbc!Plaintext(bi) ELSE Plain[b]
        <5>1. CASE b = bi + 1
          BY <3>1, <4>1, <5>1
        <5>2. CASE b # bi + 1
          <6>1. b \in 1 .. bi
            BY <3>2, <5>2
          <6> QED
            BY <3>4, <4>1, <5>2, <6>1
        <5> QED
          BY <5>1, <5>2
      <4> QED
        BY <4>2, <4>3, <4>4
    <3> QED
      BY <3>2, <3>4, <3>5 DEF Cbc!NextBlock
  <2>2. CASE ~ EndBlock
    <3>1. out' = out
      BY <2>2 DEF Next, Begin, ComputeSum, Copy, CutByte, StoreOffset, LoadByte, Write, Finished,
                  vars
    <3> QED
      BY <3>1 DEF Plain
  <2> QED
    BY <2>1, <2>2
<1> QED
  BY <1>1, <1>2, <1>3, <1>4, PTL DEF Spec, Cbc!Safety
===============================================================================
