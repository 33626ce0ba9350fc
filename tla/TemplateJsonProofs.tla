-------------------------- MODULE TemplateJsonProofs --------------------------
(***************************************************************************)
(* Proofs about TemplateJson, for every document TemplateDocuments allows, *)
(* of any length, cut anywhere, and any sizes of its parts.                *)
(*                                                                         *)
(* First the helpers: base64_decode puts out what RFC 4648 says of a string*)
(* (Accumulated), and the parser's turns keep Inv and lessen Turns.  Then  *)
(* where the parser is in its document (Track), and from it what the fields*)
(* are, of a document that arrived (WholeInv) and of one that was cut      *)
(* (KeysInv).  Recursive functions are proved about by induction over the  *)
(* naturals in the form of a set (NatSetInduction).                        *)
(***************************************************************************)
EXTENDS TemplateDocuments, FiniteSetTheorems, SequenceTheorems, TLAPS

-----------------------------------------------------------------------------
\* Induction over the naturals, for sets: the library's theorem takes an operator.
LEMMA NatSetInduction ==
  ASSUME NEW S, 0 \in S, \A m \in Nat : m \in S => m + 1 \in S
  PROVE  Nat \subseteq S
<1> SUFFICES ASSUME NEW m \in Nat, m \notin S PROVE FALSE
  OBVIOUS
<1> DEFINE Below(k) == 0 .. k
           Counter == {k \in 0 .. m : k \notin S}
           T == {Below(k) : k \in Counter}
<1>1. IsFiniteSet(0 .. m)
  BY FS_Interval
<1>2. IsWellFoundedOn(StrictSubsetOrdering(0 .. m), SUBSET (0 .. m))
  BY <1>1, FS_StrictSubsetOrderingWellFounded, FS_FiniteSubsetsOfFinite
<1>3. Below(m) \in T /\ T \subseteq SUBSET (0 .. m)
  OBVIOUS
<1>4. \A U, V \in SUBSET (0 .. m) :
        U \subseteq V /\ U # V => <<U, V>> \in StrictSubsetOrdering(0 .. m)
  BY DEF StrictSubsetOrdering
<1>5. \E x \in T : \A y \in T : <<y, x>> \notin StrictSubsetOrdering(0 .. m)
  <2> HIDE DEF T
  <2> QED
    BY <1>2, <1>3, WFMin
<1>6. PICK k \in Counter : \A y \in T : <<y, Below(k)>> \notin StrictSubsetOrdering(0 .. m)
  BY <1>5
<1>7. k \in 1 .. m /\ k - 1 \in Nat /\ (k - 1) + 1 = k
  BY <1>6
<1>8. k - 1 \in Counter
  BY <1>6, <1>7
<1>9. Below(k - 1) \subseteq Below(k) /\ k \in Below(k) /\ k \notin Below(k - 1)
  BY <1>7
<1>10. Below(k - 1) \in T /\ Below(k) \in T
  BY <1>8
<1>11. <<Below(k - 1), Below(k)>> \in StrictSubsetOrdering(0 .. m)
  BY <1>3, <1>4, <1>9, <1>10
<1> QED
  BY <1>6, <1>10, <1>11

\* A set of naturals that is not empty has a least element, and a bounded one a
\* greatest.
LEMMA LeastOf ==
  ASSUME NEW S \in SUBSET Nat, S # {}
  PROVE  Min(S) \in S /\ \A y \in S : Min(S) <= y
<1> DEFINE N == {m \in Nat : (\E y \in S : y <= m) => \E x \in S : \A y \in S : x <= y}
<1>1. 0 \in N
  OBVIOUS
<1>2. \A m \in Nat : m \in N => m + 1 \in N
  <2> SUFFICES ASSUME NEW m \in Nat, m \in N, NEW z \in S, z <= m + 1
               PROVE  \E x \in S : \A y \in S : x <= y
    OBVIOUS
  <2>1. CASE \E y \in S : y <= m
    BY <2>1
  <2>2. CASE \A y \in S : m + 1 <= y
    BY <2>2
  <2> QED
    BY <2>1, <2>2
<1>3. Nat \subseteq N
  <2> HIDE DEF N
  <2> QED
    BY <1>1, <1>2, NatSetInduction
<1>4. PICK z \in S : TRUE
  OBVIOUS
<1>5. z \in N /\ z <= z
  BY <1>3
<1>6. \E x \in S : \A y \in S : x <= y
  BY <1>5
<1> QED
  BY <1>6 DEF Min

LEMMA GreatestOf ==
  ASSUME NEW S \in SUBSET Nat, S # {}, NEW b \in Nat, \A y \in S : y <= b
  PROVE  Max(S) \in S /\ \A y \in S : y <= Max(S)
<1> DEFINE T == {b - y : y \in S}
<1>1. T \in SUBSET Nat /\ T # {}
  <2>1. \A y \in S : b - y \in Nat
    OBVIOUS
  <2> QED
    BY <2>1
<1>2. Min(T) \in T /\ \A z \in T : Min(T) <= z
  BY <1>1, LeastOf
<1>3. PICK x \in S : Min(T) = b - x
  BY <1>2
<1>4. \A y \in S : y <= x
  BY <1>2, <1>3
<1>5. \E w \in S : \A y \in S : w >= y
  BY <1>4
<1> QED
  BY <1>5 DEF Max

-----------------------------------------------------------------------------
\* base64.  One more character of the string.
After(l, c) == IF c \in DOMAIN Letter THEN Append(l, Letter[c]) ELSE l
Follows(g, s, m) == g[0] = <<>> /\ \A k \in 1 .. m : g[k] = After(g[k - 1], s[k])
Letters == Seq(0 .. 63)

LEMMA LetterValue == \A c \in DOMAIN Letter : Letter[c] \in 0 .. 63
  BY SMTT(30) DEF Letter

LEMMA AfterType ==
  ASSUME NEW l \in Letters, NEW c
  PROVE  After(l, c) \in Letters
  BY LetterValue DEF After, Letters

LEMMA LettersExist ==
  ASSUME NEW s \in Seq(Char), NEW m \in 0 .. Len(s)
  PROVE  \E g \in [0 .. m -> Letters] : Follows(g, s, m)
<1> DEFINE Exists(k) == \E g \in [0 .. k -> Letters] : Follows(g, s, k)
           N == {k \in Nat : Exists(k)}
<1>1. 0 \in N
  <2> DEFINE g == [k \in 0 .. 0 |-> <<>>]
  <2>1. g \in [0 .. 0 -> Letters] /\ Follows(g, s, 0)
    BY DEF Letters, Follows
  <2> QED
    BY <2>1
<1>2. \A k \in Nat : k \in N => k + 1 \in N
  <2> SUFFICES ASSUME NEW k \in Nat, Exists(k)
               PROVE  Exists(k + 1)
    OBVIOUS
  <2>1. PICK g \in [0 .. k -> Letters] : Follows(g, s, k)
    OBVIOUS
  <2>2. PICK a \in Letters : a = After(g[k], s[k + 1])
    BY AfterType
  <2> DEFINE h == [j \in 0 .. k + 1 |-> IF j = k + 1 THEN a ELSE g[j]]
  <2>3. h \in [0 .. k + 1 -> Letters] /\ h[k + 1] = a /\ \A j \in 0 .. k : h[j] = g[j]
    OBVIOUS
  <2> HIDE DEF h
  <2>4. Follows(h, s, k + 1)
    <3>1. h[0] = <<>>
      BY <2>1, <2>3 DEF Follows
    <3>2. ASSUME NEW j \in 1 .. k + 1 PROVE h[j] = After(h[j - 1], s[j])
      <4>1. CASE j = k + 1
        BY <4>1, <2>2, <2>3
      <4>2. CASE j \in 1 .. k
        <5>1. g[j] = After(g[j - 1], s[j]) /\ h[j] = g[j] /\ h[j - 1] = g[j - 1]
          BY <4>2, <2>1, <2>3 DEF Follows
        <5> QED
          BY <5>1
      <4> QED
        BY <4>1, <4>2
    <3> QED
      BY <3>1, <3>2 DEF Follows
  <2> QED
    BY <2>3, <2>4
<1>3. Nat \subseteq N
  <2> HIDE DEF N
  <2> QED
    BY <1>1, <1>2, NatSetInduction
<1> QED
  BY <1>3

\* What the recursive function computes.
LEMMA LettersDef ==
  ASSUME NEW s \in Seq(Char)
  PROVE  LettersIn(s) \in [0 .. Len(s) -> Letters] /\ Follows(LettersIn(s), s, Len(s))
<1> DEFINE P(g) == g = [k \in 0 .. Len(s) |->
                IF k = 0 THEN <<>>
                ELSE IF s[k] \in DOMAIN Letter THEN Append(g[k - 1], Letter[s[k]]) ELSE g[k - 1]]
           f == CHOOSE g : P(g)
<1>1. Len(s) \in Nat
  OBVIOUS
<1>2. PICK g \in [0 .. Len(s) -> Letters] : Follows(g, s, Len(s))
  BY <1>1, LettersExist
<1>3. P(g)
  <2> DEFINE step(k) == IF k = 0 THEN <<>>
                        ELSE IF s[k] \in DOMAIN Letter THEN Append(g[k - 1], Letter[s[k]])
                        ELSE g[k - 1]
  <2>1. ASSUME NEW k \in 0 .. Len(s) PROVE g[k] = step(k)
    <3>1. CASE k = 0
      BY <3>1, <1>2 DEF Follows
    <3>2. CASE k \in 1 .. Len(s)
      BY <3>2, <1>2 DEF Follows, After
    <3> QED
      BY <1>1, <3>1, <3>2
  <2>2. g = [k \in 0 .. Len(s) |-> g[k]]
    BY <1>2
  <2> HIDE DEF step
  <2>3. g = [k \in 0 .. Len(s) |-> step(k)]
    BY <2>1, <2>2
  <2> QED
    BY <2>3 DEF step
<1>4. P(f)
  <2> HIDE DEF P
  <2> QED
    BY <1>3
<1>5. LettersIn(s) = f
  BY DEF LettersIn
<1> HIDE DEF f
<1>6. f[0] = <<>> /\ \A k \in 1 .. Len(s) : f[k] = After(f[k - 1], s[k])
  <2> DEFINE step(k) == IF k = 0 THEN <<>>
                        ELSE IF s[k] \in DOMAIN Letter THEN Append(f[k - 1], Letter[s[k]])
                        ELSE f[k - 1]
  <2>1. f = [k \in 0 .. Len(s) |-> step(k)]
    BY <1>4
  <2> HIDE DEF step, P
  <2>2. \A k \in 0 .. Len(s) : f[k] = step(k)
    BY <2>1
  <2> USE DEF step
  <2>3. f[0] = <<>>
    BY <1>1, <2>2
  <2>4. ASSUME NEW k \in 1 .. Len(s) PROVE f[k] = After(f[k - 1], s[k])
    <3>1. k \in 0 .. Len(s) /\ k # 0
      OBVIOUS
    <3> QED
      BY <2>2, <3>1 DEF After
  <2> QED
    BY <2>3, <2>4
<1>7. DOMAIN f = 0 .. Len(s) /\ f = [k \in 0 .. Len(s) |-> f[k]]
  BY <1>4
<1> HIDE DEF P
<1>8. ASSUME NEW k \in 0 .. Len(s) PROVE f[k] \in Letters
  <2> DEFINE N == {j \in Nat : j <= Len(s) => f[j] \in Letters}
  <2>1. 0 \in N
    <3>1. <<>> \in Letters
      BY DEF Letters
    <3> QED
      BY <3>1, <1>6
  <2>2. \A j \in Nat : j \in N => j + 1 \in N
    <3> SUFFICES ASSUME NEW j \in Nat, f[j] \in Letters, j + 1 <= Len(s)
                 PROVE  f[j + 1] \in Letters
      BY <1>1
    <3>1. f[j + 1] = After(f[j], s[j + 1])
      BY <1>1, <1>6
    <3> QED
      BY <3>1, AfterType
  <2>3. Nat \subseteq N
    <3> HIDE DEF N
    <3> QED
      BY <2>1, <2>2, NatSetInduction
  <2> QED
    BY <2>3
<1> QED
  BY <1>5, <1>6, <1>7, <1>8 DEF Follows

\* The letters of the first m characters depend on those only.
LEMMA LettersAgree ==
  ASSUME NEW s \in Seq(Char), NEW t \in Seq(Char), NEW m \in Nat,
         m <= Len(s), m <= Len(t),
         \A k \in 1 .. m : s[k] = t[k] \/ (s[k] \notin DOMAIN Letter /\ t[k] \notin DOMAIN Letter)
  PROVE  LettersIn(s)[m] = LettersIn(t)[m]
<1> DEFINE N == {k \in Nat : k <= m => LettersIn(s)[k] = LettersIn(t)[k]}
<1>1. Follows(LettersIn(s), s, Len(s)) /\ Follows(LettersIn(t), t, Len(t))
  BY LettersDef
<1>2. 0 \in N
  BY <1>1 DEF Follows
<1>3. \A k \in Nat : k \in N => k + 1 \in N
  <2> SUFFICES ASSUME NEW k \in Nat, LettersIn(s)[k] = LettersIn(t)[k], k + 1 <= m
               PROVE  LettersIn(s)[k + 1] = LettersIn(t)[k + 1]
    OBVIOUS
  <2>1. k + 1 \in 1 .. Len(s) /\ k + 1 \in 1 .. Len(t) /\ (k + 1) - 1 = k /\ k + 1 \in 1 .. m
    OBVIOUS
  <2>2. /\ LettersIn(s)[k + 1] = After(LettersIn(s)[k], s[k + 1])
        /\ LettersIn(t)[k + 1] = After(LettersIn(t)[k], t[k + 1])
    BY <1>1, <2>1 DEF Follows
  <2> QED
    BY <2>1, <2>2 DEF After
<1>4. Nat \subseteq N
  <2> HIDE DEF N
  <2> QED
    BY <1>2, <1>3, NatSetInduction
<1> QED
  BY <1>4

-----------------------------------------------------------------------------
\* The padding begins at the first "=".
LEMMA PaddingIs ==
  ASSUME NEW s \in Seq(Char)
  PROVE  /\ Padding(s) \in 1 .. Len(s) + 1
         /\ \A k \in 1 .. Padding(s) - 1 : s[k] # "="
         /\ Padding(s) <= Len(s) => s[Padding(s)] = "="
<1> DEFINE S == {k \in DOMAIN s : s[k] = "="} \cup {Len(s) + 1}
<1>1. Len(s) \in Nat /\ DOMAIN s = 1 .. Len(s)
  OBVIOUS
<1>2. S \in SUBSET Nat /\ Len(s) + 1 \in S
  BY <1>1
<1>3. /\ \A k \in S : k \in 1 .. Len(s) + 1 /\ (k <= Len(s) => s[k] = "=")
      /\ \A k \in 1 .. Len(s) : s[k] = "=" => k \in S
  BY <1>1
<1>4. Padding(s) = Min(S)
  BY DEF Padding
<1> HIDE DEF S
<1>5. Padding(s) \in S /\ \A y \in S : Padding(s) <= y
  BY <1>2, <1>4, LeastOf
<1>6. ASSUME NEW k \in 1 .. Padding(s) - 1 PROVE s[k] # "="
  BY <1>1, <1>3, <1>5
<1> QED
  BY <1>3, <1>5, <1>6

LEMMA PaddingAt ==
  ASSUME NEW s \in Seq(Char), NEW m \in 1 .. Len(s) + 1,
         \A k \in 1 .. m - 1 : s[k] # "=", m = Len(s) + 1 \/ s[m] = "="
  PROVE  Padding(s) = m
<1>1. Len(s) \in Nat
  OBVIOUS
<1>2. CASE Padding(s) < m
  <2>1. Padding(s) \in 1 .. m - 1 /\ Padding(s) <= Len(s)
    BY <1>1, <1>2, PaddingIs
  <2> QED
    BY <2>1, PaddingIs
<1>3. CASE m < Padding(s)
  <2>1. m \in 1 .. Padding(s) - 1 /\ m <= Len(s)
    BY <1>1, <1>3, PaddingIs
  <2> QED
    BY <1>1, <2>1, PaddingIs
<1> QED
  BY <1>1, <1>2, <1>3, PaddingIs

-----------------------------------------------------------------------------
LEMMA LettersAre ==
  ASSUME NEW l \in Letters
  PROVE  Len(l) \in Nat /\ \A j \in 1 .. Len(l) : l[j] \in 0 .. 63
  BY ElementOfSeq, LenProperties DEF Letters

\* The letters a byte is made of.
LEMMA ByteIndex ==
  ASSUME NEW k \in Nat \ {0}, NEW m \in Nat, k <= (6 * m) \div 8
  PROVE  \E q \in Nat, r \in 0 .. 2 :
            /\ q = (k - 1) \div 3 /\ r = (k - 1) % 3 /\ k = 3 * q + r + 1
            /\ 4 * q + r + 2 <= m
<1>1. PICK q \in Nat, r \in 0 .. 2 : q = (k - 1) \div 3 /\ r = (k - 1) % 3 /\ k = 3 * q + r + 1
  OBVIOUS
<1>2. PICK h \in Nat : h = (6 * m) \div 8 /\ 8 * h <= 6 * m
  OBVIOUS
<1>3. 4 * q + r + 2 <= m
  BY <1>1, <1>2
<1> QED
  BY <1>1, <1>3

LEMMA ByteType ==
  ASSUME NEW l \in Letters, NEW k \in 1 .. (6 * Len(l)) \div 8
  PROVE  ByteAt(l, k) \in 0 .. 255
<1>1. Len(l) \in Nat /\ \A j \in 1 .. Len(l) : l[j] \in 0 .. 63
  BY LettersAre
<1>2. k \in Nat \ {0} /\ k <= (6 * Len(l)) \div 8
  BY <1>1
<1>3. PICK q \in Nat, r \in 0 .. 2 :
        q = (k - 1) \div 3 /\ r = (k - 1) % 3 /\ 4 * q + r + 2 <= Len(l)
  BY <1>1, <1>2, ByteIndex
<1>4. 4 * q + r + 1 \in 1 .. Len(l) /\ 4 * q + r + 2 \in 1 .. Len(l)
  BY <1>1, <1>3
<1>5. PICK a \in 0 .. 63, b \in 0 .. 63 : a = l[4 * q + r + 1] /\ b = l[4 * q + r + 2]
  BY <1>1, <1>4
<1>6. a * 4 + b \div 16 \in 0 .. 255 /\ (a % 16) * 16 + b \div 4 \in 0 .. 255
      /\ (a % 4) * 64 + b \in 0 .. 255
  OBVIOUS
<1>7. CASE r = 0
  <2>1. a = l[4 * q + 1] /\ b = l[4 * q + 2]
    BY <1>5, <1>7
  <2>2. ByteAt(l, k) = l[4 * q + 1] * 4 + l[4 * q + 2] \div 16
    <3>1. (k - 1) % 3 = 0 /\ q = (k - 1) \div 3
      BY <1>3, <1>7
    <3> QED
      BY <3>1 DEF ByteAt
  <2>3. ByteAt(l, k) = a * 4 + b \div 16
    BY <2>1, <2>2
  <2> QED
    BY <2>3, <1>6
<1>8. CASE r = 1
  <2>1. a = l[4 * q + 2] /\ b = l[4 * q + 3]
    BY <1>5, <1>8
  <2>2. ByteAt(l, k) = (l[4 * q + 2] % 16) * 16 + l[4 * q + 3] \div 4
    BY <1>3, <1>8 DEF ByteAt
  <2>3. ByteAt(l, k) = (a % 16) * 16 + b \div 4
    BY <2>1, <2>2
  <2> QED
    BY <2>3, <1>6
<1>9. CASE r = 2
  <2>1. a = l[4 * q + 3] /\ b = l[4 * q + 4]
    BY <1>5, <1>9
  <2>2. ByteAt(l, k) = (l[4 * q + 3] % 4) * 64 + l[4 * q + 4]
    BY <1>3, <1>9 DEF ByteAt
  <2>3. ByteAt(l, k) = (a % 4) * 64 + b
    BY <2>1, <2>2
  <2> QED
    BY <2>3, <1>6
<1> QED
  BY <1>7, <1>8, <1>9

LEMMA BytesType ==
  ASSUME NEW l \in Letters
  PROVE  Bytes(l) \in Seq(0 .. 255) /\ Len(Bytes(l)) = (6 * Len(l)) \div 8
<1>1. PICK m \in Nat : m = (6 * Len(l)) \div 8
  BY LettersAre
<1>2. \A k \in 1 .. m : ByteAt(l, k) \in 0 .. 255
  BY <1>1, ByteType
<1>3. Bytes(l) = [k \in 1 .. m |-> ByteAt(l, k)]
  BY <1>1 DEF Bytes
<1> QED
  BY <1>1, <1>2, <1>3

\* b begins with a.
Begins(a, b) == Len(a) <= Len(b) /\ \A k \in 1 .. Len(a) : b[k] = a[k]

LEMMA BytesBegin ==
  ASSUME NEW l \in Letters, NEW x \in Letters, Begins(l, x)
  PROVE  Begins(Bytes(l), Bytes(x))
<1>1. /\ Len(l) \in Nat /\ Len(x) \in Nat /\ Len(l) <= Len(x)
      /\ \A j \in 1 .. Len(l) : x[j] = l[j]
  BY LettersAre DEF Begins
<1>2. (6 * Len(l)) \div 8 <= (6 * Len(x)) \div 8 /\ (6 * Len(l)) \div 8 \in Nat
      /\ (6 * Len(x)) \div 8 \in Nat
  BY <1>1
<1>3. ASSUME NEW k \in 1 .. (6 * Len(l)) \div 8
      PROVE  Bytes(x)[k] = Bytes(l)[k]
  <2>1. k \in Nat \ {0} /\ k <= (6 * Len(l)) \div 8
    BY <1>2
  <2>2. PICK q \in Nat, r \in 0 .. 2 :
          q = (k - 1) \div 3 /\ r = (k - 1) % 3 /\ 4 * q + r + 2 <= Len(l)
    BY <1>1, <2>1, ByteIndex
  <2>3. Bytes(l)[k] = ByteAt(l, k) /\ Bytes(x)[k] = ByteAt(x, k)
    BY <1>2 DEF Bytes
  <2>4. CASE r = 0
    <3>1. x[4 * q + 1] = l[4 * q + 1] /\ x[4 * q + 2] = l[4 * q + 2]
      BY <1>1, <2>2, <2>4
    <3>2. (k - 1) % 3 = 0 /\ 4 * ((k - 1) \div 3) = 4 * q
      BY <2>2, <2>4
    <3>3. ByteAt(l, k) = l[4 * q + 1] * 4 + l[4 * q + 2] \div 16
      BY <3>2, SMTT(20) DEF ByteAt
    <3>4. ByteAt(x, k) = x[4 * q + 1] * 4 + x[4 * q + 2] \div 16
      BY <3>2, SMTT(20) DEF ByteAt
    <3> QED
      BY <2>3, <3>1, <3>3, <3>4, Zenon
  <2>5. CASE r = 1
    <3>1. x[4 * q + 2] = l[4 * q + 2] /\ x[4 * q + 3] = l[4 * q + 3]
      BY <1>1, <2>2, <2>5
    <3>2. (k - 1) % 3 = 1 /\ 4 * ((k - 1) \div 3) = 4 * q
      BY <2>2, <2>5
    <3>3. ByteAt(l, k) = (l[4 * q + 2] % 16) * 16 + l[4 * q + 3] \div 4
      BY <3>2, SMTT(20) DEF ByteAt
    <3>4. ByteAt(x, k) = (x[4 * q + 2] % 16) * 16 + x[4 * q + 3] \div 4
      BY <3>2, SMTT(20) DEF ByteAt
    <3> QED
      BY <2>3, <3>1, <3>3, <3>4, Zenon
  <2>6. CASE r = 2
    <3>1. x[4 * q + 3] = l[4 * q + 3] /\ x[4 * q + 4] = l[4 * q + 4]
      BY <1>1, <2>2, <2>6
    <3>2. (k - 1) % 3 = 2 /\ 4 * ((k - 1) \div 3) = 4 * q
      BY <2>2, <2>6
    <3>3. ByteAt(l, k) = (l[4 * q + 3] % 4) * 64 + l[4 * q + 4]
      BY <3>2, SMTT(20) DEF ByteAt
    <3>4. ByteAt(x, k) = (x[4 * q + 3] % 4) * 64 + x[4 * q + 4]
      BY <3>2, SMTT(20) DEF ByteAt
    <3> QED
      BY <2>3, <3>1, <3>3, <3>4, Zenon
  <2> QED
    BY <2>4, <2>5, <2>6
<1> QED
  BY <1>2, <1>3, BytesType DEF Begins

LEMMA LettersBegin ==
  ASSUME NEW s \in Seq(Char), NEW k \in 0 .. Len(s), NEW m \in k .. Len(s)
  PROVE  Begins(LettersIn(s)[k], LettersIn(s)[m])
<1> DEFINE N == {j \in Nat : j + k <= Len(s) => Begins(LettersIn(s)[k], LettersIn(s)[j + k])}
<1>1. Len(s) \in Nat /\ k \in Nat /\ m \in Nat
  OBVIOUS
<1>2. /\ \A j \in 0 .. Len(s) : LettersIn(s)[j] \in Letters
      /\ \A j \in 1 .. Len(s) : LettersIn(s)[j] = After(LettersIn(s)[j - 1], s[j])
  BY LettersDef DEF Follows
<1>3. 0 \in N
  BY <1>1, <1>2 DEF Begins, Letters
<1>4. \A j \in Nat : j \in N => j + 1 \in N
  <2> SUFFICES ASSUME NEW j \in Nat, j \in N, (j + 1) + k <= Len(s)
               PROVE  Begins(LettersIn(s)[k], LettersIn(s)[(j + 1) + k])
    OBVIOUS
  <2>1. j + k \in 0 .. Len(s) /\ (j + 1) + k \in 1 .. Len(s) /\ ((j + 1) + k) - 1 = j + k
    BY <1>1
  <2>2. PICK a \in Letters : a = LettersIn(s)[k]
    BY <1>2
  <2>3. PICK b \in Letters : b = LettersIn(s)[j + k]
    BY <1>2, <2>1
  <2>4. Begins(a, b)
    BY <2>1, <2>2, <2>3
  <2>5. LettersIn(s)[(j + 1) + k] = After(b, s[(j + 1) + k])
    BY <1>2, <2>1, <2>3
  <2>6. \A x : Begins(a, After(b, x))
    BY <2>4, LetterValue DEF After, Begins, Letters
  <2> QED
    BY <2>2, <2>5, <2>6
<1>5. Nat \subseteq N
  <2> HIDE DEF N
  <2> QED
    BY <1>3, <1>4, NatSetInduction
<1>6. m - k \in Nat /\ (m - k) + k = m /\ m <= Len(s)
  BY <1>1
<1>7. m - k \in N
  BY <1>5, <1>6
<1> QED
  BY <1>6, <1>7

-----------------------------------------------------------------------------
\* The bytes of one letter more: none, or one made of the last two letters.
LEMMA BytesAppend ==
  ASSUME NEW l \in Letters, NEW v \in 0 .. 63
  PROVE  LET m == Len(l) IN
         /\ m % 4 = 0 => Bytes(Append(l, v)) = Bytes(l)
         /\ m % 4 = 1 => Bytes(Append(l, v)) = Append(Bytes(l), l[m] * 4 + v \div 16)
         /\ m % 4 = 2 => Bytes(Append(l, v)) = Append(Bytes(l), (l[m] % 16) * 16 + v \div 4)
         /\ m % 4 = 3 => Bytes(Append(l, v)) = Append(Bytes(l), (l[m] % 4) * 64 + v)
<1> DEFINE m == Len(l)
           x == Append(l, v)
           h == (6 * m) \div 8
<1>1. /\ m \in Nat /\ x \in Letters /\ Len(x) = m + 1 /\ x[m + 1] = v
      /\ \A j \in 1 .. m : x[j] = l[j]
  BY LettersAre DEF Letters
<1>2. Begins(Bytes(l), Bytes(x))
  <2>1. Begins(l, x)
    BY <1>1 DEF Begins
  <2> QED
    BY <1>1, <2>1, BytesBegin
<1>3. /\ Bytes(l) \in Seq(0 .. 255) /\ Len(Bytes(l)) = h
      /\ Bytes(x) \in Seq(0 .. 255) /\ Len(Bytes(x)) = (6 * (m + 1)) \div 8
  BY <1>1, BytesType
<1> HIDE DEF x, m
<1>4. h \in Nat
  BY <1>1
<1>5. CASE m % 4 = 0
  <2>1. (6 * (m + 1)) \div 8 = h
    BY <1>1, <1>5
  <2>2. Bytes(x) = Bytes(l)
    BY <2>1, <1>2, <1>3, SMTT(30) DEF Begins
  <2> QED
    BY <2>2, <1>5, <1>1 DEF x, m
<1>6. ASSUME m % 4 # 0, NEW w, Bytes(x)[h + 1] = w
      PROVE  Bytes(x) = Append(Bytes(l), w)
  <2>1. (6 * (m + 1)) \div 8 = h + 1
    BY <1>1, <1>6
  <2> HIDE DEF h
  <2>2. w \in 0 .. 255
    <3>1. h + 1 \in 1 .. Len(Bytes(x))
      BY <1>3, <1>4, <2>1
    <3> QED
      BY <1>3, <1>6, <3>1, ElementOfSeq
  <2>3. Append(Bytes(l), w) \in Seq(0 .. 255) /\ Len(Append(Bytes(l), w)) = h + 1
    BY <1>3, <2>2
  <2>4. \A k \in 1 .. h + 1 : Bytes(x)[k] = Append(Bytes(l), w)[k]
    BY <1>2, <1>3, <1>4, <1>6, <2>2 DEF Begins
  <2> QED
    BY <1>3, <1>4, <2>1, <2>3, <2>4, SeqEqual
<1>7. m % 4 # 0 => /\ h + 1 \in 1 .. (6 * Len(x)) \div 8
                   /\ Bytes(x)[h + 1] = ByteAt(x, h + 1)
  BY <1>1, <1>4 DEF Bytes
<1>8. CASE m % 4 = 1
  <2>1. PICK q \in Nat : m = 4 * q + 1
    BY <1>1, <1>8
  <2>2. h = 3 * q
    BY <2>1
  <2>3. ((h + 1) - 1) % 3 = 0 /\ ((h + 1) - 1) \div 3 = q
    BY <2>1, <2>2
  <2>4. ByteAt(x, h + 1) = x[4 * q + 1] * 4 + x[4 * q + 2] \div 16
    BY <2>3 DEF ByteAt
  <2>5. x[4 * q + 1] = l[m] /\ x[4 * q + 2] = v
    BY <1>1, <2>1
  <2>6. Bytes(x) = Append(Bytes(l), l[m] * 4 + v \div 16)
    BY <1>6, <1>7, <1>8, <2>4, <2>5
  <2> QED
    BY <2>6, <1>8, <1>1 DEF x, m
<1>9. CASE m % 4 = 2
  <2>1. PICK q \in Nat : m = 4 * q + 2
    BY <1>1, <1>9
  <2>2. h = 3 * q + 1
    BY <2>1
  <2>3. ((h + 1) - 1) % 3 = 1 /\ ((h + 1) - 1) \div 3 = q
    BY <2>1, <2>2
  <2>4. ByteAt(x, h + 1) = (x[4 * q + 2] % 16) * 16 + x[4 * q + 3] \div 4
    BY <2>3 DEF ByteAt
  <2>5. x[4 * q + 2] = l[m] /\ x[4 * q + 3] = v
    BY <1>1, <2>1
  <2>6. Bytes(x) = Append(Bytes(l), (l[m] % 16) * 16 + v \div 4)
    BY <1>6, <1>7, <1>9, <2>4, <2>5
  <2> QED
    BY <2>6, <1>9, <1>1 DEF x, m
<1>10. CASE m % 4 = 3
  <2>1. PICK q \in Nat : m = 4 * q + 3
    BY <1>1, <1>10
  <2>2. h = 3 * q + 2
    BY <2>1
  <2>3. ((h + 1) - 1) % 3 = 2 /\ ((h + 1) - 1) \div 3 = q
    BY <2>1, <2>2
  <2>4. ByteAt(x, h + 1) = (x[4 * q + 3] % 4) * 64 + x[4 * q + 4]
    BY <2>3 DEF ByteAt
  <2>5. x[4 * q + 3] = l[m] /\ x[4 * q + 4] = v
    BY <1>1, <2>1
  <2>6. Bytes(x) = Append(Bytes(l), (l[m] % 4) * 64 + v)
    BY <1>6, <1>7, <1>10, <2>4, <2>5
  <2> QED
    BY <2>6, <1>10, <1>1 DEF x, m
<1> QED
  BY <1>1, <1>5, <1>8, <1>9, <1>10 DEF x, m

\* The buffer holds the last letters, whatever has been shifted out of it.
Holds(a, v, b) ==
  /\ b = (a * 64 + v) % BufRange
  /\ b % 256 = (a % 4) * 64 + v
  /\ (b \div 4) % 256 = (a % 16) * 16 + v \div 4
  /\ (b \div 16) % 256 = (a % 64) * 4 + v \div 16
  /\ b % 64 = v /\ b % 16 = v % 16 /\ b % 4 = v % 4

LEMMA ShiftedIn ==
  ASSUME NEW a \in Nat, NEW v \in 0 .. 63
  PROVE  \E b \in 0 .. BufRange - 1 : Holds(a, v, b)
<1> DEFINE b == (a * 64 + v) % BufRange
<1>1. PICK R \in Nat \ {0} : R = BufRange
  BY TemplateAssumption
<1>2. PICK c \in Nat : R = 16384 * c
  <2>1. R % 16384 = 0
    BY <1>1, TemplateAssumption
  <2> QED
    BY <2>1
<1>3. PICK y \in Nat : y = a * 64 + v
  OBVIOUS
<1>4. PICK d \in Int : y = R * d + (y % R) /\ y % R \in 0 .. R - 1
  <2>1. y = R * (y \div R) + (y % R) /\ y \div R \in Int /\ y % R \in 0 .. R - 1
    BY <1>1, <1>3
  <2> QED
    BY <2>1
<1>5. PICK e \in Int : e = c * d
  OBVIOUS
<1>6. R * d = 16384 * e
  BY <1>2, <1>5
<1>7. b = y % R
  BY <1>1, <1>3
<1> HIDE DEF b
<1>8. b \in 0 .. R - 1 /\ b = a * 64 + v - 16384 * e
  <2>1. PICK f \in Int : f = R * d
    OBVIOUS
  <2> QED
    BY <2>1, <1>3, <1>4, <1>6, <1>7
<1>9. b \in Nat
  BY <1>1, <1>8
<1>10. b % 256 = (a % 4) * 64 + v
  BY <1>8, <1>9
<1>11. (b \div 4) % 256 = (a % 16) * 16 + v \div 4
  BY <1>8, <1>9
<1>12. (b \div 16) % 256 = (a % 64) * 4 + v \div 16
  BY <1>8, <1>9
<1>13. b % 64 = v /\ b % 16 = v % 16 /\ b % 4 = v % 4
  BY <1>8, <1>9
<1> QED
  BY <1>1, <1>8, <1>10, <1>11, <1>12, <1>13 DEF b, Holds

-----------------------------------------------------------------------------
\* What base64_decode keeps of the letters l it has read: the bytes they make, and
\* the bits of the last one that are in none of them.
Accumulated(a, l) ==
  LET m == Len(l) IN
  /\ a \in [buf : 0 .. BufRange - 1, bits : {0, 2, 4, 6}, out : Seq(0 .. 255)]
  /\ a.out = Bytes(l)
  /\ m % 4 = 0 => a.bits = 0
  /\ m % 4 = 1 => a.bits = 6 /\ a.buf % 64 = l[m]
  /\ m % 4 = 2 => a.bits = 4 /\ a.buf % 16 = l[m] % 16
  /\ m % 4 = 3 => a.bits = 2 /\ a.buf % 4 = l[m] % 4

\* One letter more.
ShiftIn(a, v) ==
  LET b    == (a.buf * 64 + v) % BufRange
      bits == a.bits + 6
  IN IF bits < 8 THEN [a EXCEPT !.buf = b, !.bits = bits]
     ELSE [buf |-> b, bits |-> bits - 8, out |-> Append(a.out, (b \div 2 ^ (bits - 8)) % 256)]

LEMMA NothingAccumulated == Accumulated(Nothing, <<>>)
<1>1. BufRange - 1 \in Nat
  BY TemplateAssumption
<1>2. <<>> \in Letters /\ Len(<<>>) = 0
  BY DEF Letters
<1>3. Bytes(<<>>) \in Seq(0 .. 255) /\ Len(Bytes(<<>>)) = 0
  BY <1>2, BytesType
<1>4. Bytes(<<>>) = <<>>
  BY <1>3, EmptySeq
<1> QED
  BY <1>1, <1>2, <1>3, <1>4 DEF Accumulated, Nothing

LEMMA LetterAccumulated ==
  ASSUME NEW l \in Letters, NEW v \in 0 .. 63, NEW a, Accumulated(a, l)
  PROVE  Accumulated(ShiftIn(a, v), Append(l, v))
<1>1. PICK m \in Nat : m = Len(l)
  BY LettersAre
<1>2. PICK x \in Letters : x = Append(l, v)
  <2>1. Append(l, v) \in Letters
    BY AppendProperties DEF Letters
  <2> QED
    BY <2>1
<1>3. Len(x) = m + 1 /\ x[m + 1] = v /\ Bytes(x) \in Seq(0 .. 255)
  <2>1. Bytes(x) \in Seq(0 .. 255)
    BY BytesType
  <2> QED
    BY <2>1, <1>1, <1>2, AppendProperties DEF Letters
<1>4. /\ a \in [buf : 0 .. BufRange - 1, bits : {0, 2, 4, 6}, out : Seq(0 .. 255)]
      /\ a.out = Bytes(l)
      /\ m % 4 = 0 => a.bits = 0
      /\ m % 4 = 1 => a.bits = 6 /\ a.buf % 64 = l[m]
      /\ m % 4 = 2 => a.bits = 4 /\ a.buf % 16 = l[m] % 16
      /\ m % 4 = 3 => a.bits = 2 /\ a.buf % 4 = l[m] % 4
  BY <1>1 DEF Accumulated
<1>5. PICK c \in Nat : c = a.buf
  BY <1>4, TemplateAssumption
<1>13. PICK b \in 0 .. BufRange - 1 : Holds(c, v, b)
  BY ShiftedIn
<1>6. /\ b = (c * 64 + v) % BufRange
      /\ b % 256 = (c % 4) * 64 + v
      /\ (b \div 4) % 256 = (c % 16) * 16 + v \div 4
      /\ (b \div 16) % 256 = (c % 64) * 4 + v \div 16
      /\ b % 64 = v /\ b % 16 = v % 16 /\ b % 4 = v % 4
  BY <1>13 DEF Holds
<1>14. b = (a.buf * 64 + v) % BufRange
  BY <1>5, <1>6
<1>7. /\ m % 4 = 0 => Bytes(x) = Bytes(l)
      /\ m % 4 = 1 => Bytes(x) = Append(Bytes(l), l[m] * 4 + v \div 16)
      /\ m % 4 = 2 => Bytes(x) = Append(Bytes(l), (l[m] % 16) * 16 + v \div 4)
      /\ m % 4 = 3 => Bytes(x) = Append(Bytes(l), (l[m] % 4) * 64 + v)
  BY <1>1, <1>2, BytesAppend
<1>8. b \in Nat
  BY TemplateAssumption
<1>9. CASE m % 4 = 0
  <2>1. a.bits = 0 /\ (m + 1) % 4 = 1 /\ a.bits + 6 = 6
    BY <1>4, <1>9
  <2>2. ShiftIn(a, v) = [a EXCEPT !.buf = b, !.bits = 6]
    <3>1. PICK s, e : s = a.bits + 6 /\ e = s - 8 /\ s = 6 /\ s < 8
      BY <2>1
    <3>2. ShiftIn(a, v) = [a EXCEPT !.buf = b, !.bits = s]
      BY <3>1, <1>14 DEF ShiftIn
    <3> QED
      BY <3>1, <3>2
  <2>3. /\ ShiftIn(a, v) \in [buf : 0 .. BufRange - 1, bits : {0, 2, 4, 6}, out : Seq(0 .. 255)]
        /\ ShiftIn(a, v).bits = 6 /\ ShiftIn(a, v).buf = b /\ ShiftIn(a, v).out = Bytes(x)
    BY <2>2, <1>4, <1>7, <1>9
  <2> QED
    BY <2>1, <2>3, <1>2, <1>3, <1>6 DEF Accumulated
<1>10. CASE m % 4 = 1
  <2>1. a.bits = 6 /\ (m + 1) % 4 = 2 /\ a.bits + 6 = 12 /\ (a.bits + 6) - 8 = 4
        /\ ~ (a.bits + 6 < 8)
    BY <1>4, <1>10
  <2>2. 2 ^ 4 = 16
    BY <1>8
  <2>3. ShiftIn(a, v) = [buf |-> b, bits |-> 4, out |-> Append(a.out, (b \div 16) % 256)]
    <3>1. PICK s, e : s = a.bits + 6 /\ e = s - 8 /\ e = 4 /\ ~ (s < 8)
      BY <2>1
    <3>2. ShiftIn(a, v) = [buf |-> b, bits |-> e, out |-> Append(a.out, (b \div 2 ^ e) % 256)]
      BY <3>1, <1>14 DEF ShiftIn
    <3>3. (b \div 2 ^ e) % 256 = (b \div 16) % 256
      BY <3>1, <2>2, Zenon
    <3> QED
      BY <3>1, <3>2, <3>3
  <2>4. Bytes(x) = Append(a.out, (b \div 16) % 256)
    BY <1>4, <1>5, <1>6, <1>7, <1>10
  <2>5. /\ ShiftIn(a, v) \in [buf : 0 .. BufRange - 1, bits : {0, 2, 4, 6}, out : Seq(0 .. 255)]
        /\ ShiftIn(a, v).bits = 4 /\ ShiftIn(a, v).buf = b /\ ShiftIn(a, v).out = Bytes(x)
    BY <2>3, <2>4, <1>3
  <2> QED
    BY <2>1, <2>5, <1>2, <1>3, <1>6 DEF Accumulated
<1>11. CASE m % 4 = 2
  <2>1. a.bits = 4 /\ (m + 1) % 4 = 3 /\ a.bits + 6 = 10 /\ (a.bits + 6) - 8 = 2
        /\ ~ (a.bits + 6 < 8)
    BY <1>4, <1>11
  <2>2. 2 ^ 2 = 4
    BY <1>8
  <2>3. ShiftIn(a, v) = [buf |-> b, bits |-> 2, out |-> Append(a.out, (b \div 4) % 256)]
    <3>1. PICK s, e : s = a.bits + 6 /\ e = s - 8 /\ e = 2 /\ ~ (s < 8)
      BY <2>1
    <3>2. ShiftIn(a, v) = [buf |-> b, bits |-> e, out |-> Append(a.out, (b \div 2 ^ e) % 256)]
      BY <3>1, <1>14 DEF ShiftIn
    <3>3. (b \div 2 ^ e) % 256 = (b \div 4) % 256
      BY <3>1, <2>2, Zenon
    <3> QED
      BY <3>1, <3>2, <3>3
  <2>4. Bytes(x) = Append(a.out, (b \div 4) % 256)
    BY <1>4, <1>5, <1>6, <1>7, <1>11
  <2>5. /\ ShiftIn(a, v) \in [buf : 0 .. BufRange - 1, bits : {0, 2, 4, 6}, out : Seq(0 .. 255)]
        /\ ShiftIn(a, v).bits = 2 /\ ShiftIn(a, v).buf = b /\ ShiftIn(a, v).out = Bytes(x)
    BY <2>3, <2>4, <1>3
  <2> QED
    BY <2>1, <2>5, <1>2, <1>3, <1>6 DEF Accumulated
<1>12. CASE m % 4 = 3
  <2> (m + 1) % 4 = 0
    BY <1>12
  <2>1. a.bits = 2 /\ (m + 1) % 4 = 0 /\ a.bits + 6 = 8 /\ (a.bits + 6) - 8 = 0
        /\ ~ (a.bits + 6 < 8)
    BY <1>4, <1>12
  <2>2. 2 ^ 0 = 1
    BY <1>8
  <2>6. b \div 1 = b
    BY <1>8
  <2>3. ShiftIn(a, v) = [buf |-> b, bits |-> 0, out |-> Append(a.out, b % 256)]
    <3>1. PICK s, e : s = a.bits + 6 /\ e = s - 8 /\ e = 0 /\ ~ (s < 8)
      BY <2>1
    <3>2. ShiftIn(a, v) = [buf |-> b, bits |-> e, out |-> Append(a.out, (b \div 2 ^ e) % 256)]
      BY <3>1, <1>14 DEF ShiftIn
    <3>3. (b \div 2 ^ e) % 256 = (b \div 1) % 256
      BY <3>1, <2>2, Zenon
    <3>4. (b \div 1) % 256 = b % 256
      BY <2>6
    <3> QED
      BY <3>1, <3>2, <3>3, <3>4
  <2>4. Bytes(x) = Append(a.out, b % 256)
    BY <1>4, <1>5, <1>6, <1>7, <1>12
  <2>5. /\ ShiftIn(a, v) \in [buf : 0 .. BufRange - 1, bits : {0, 2, 4, 6}, out : Seq(0 .. 255)]
        /\ ShiftIn(a, v).bits = 0 /\ ShiftIn(a, v).buf = b /\ ShiftIn(a, v).out = Bytes(x)
    BY <2>3, <2>4, <1>3
  <2> QED
    BY <2>1, <2>5, <1>2, <1>3, <1>6 DEF Accumulated
<1> QED
  BY <1>1, <1>9, <1>10, <1>11, <1>12, <1>2

-----------------------------------------------------------------------------
\* Strings that decode alike: up to m, they differ in characters only that are
\* neither letters nor padding.
Alike(s, t, m) ==
  \A k \in 1 .. m : s[k] = t[k] \/ {s[k], t[k]} \cap (DOMAIN Letter \cup {"="}) = {}

LEMMA DecodedType ==
  ASSUME NEW s \in Seq(Char)
  PROVE  /\ LettersIn(s)[Padding(s) - 1] \in Letters
         /\ Decoded(s) \in Seq(0 .. 255)
<1>1. Padding(s) - 1 \in 0 .. Len(s)
  BY PaddingIs
<1> QED
  BY <1>1, LettersDef, BytesType DEF Decoded

\* What a string decodes to begins with what its beginning decodes to.
LEMMA DecodedBegins ==
  ASSUME NEW s \in Seq(Char), NEW t \in Seq(Char), Len(s) <= Len(t), Alike(s, t, Len(s))
  PROVE  Begins(Decoded(s), Decoded(t))
<1>1. PICK p \in Nat : p = Padding(s) - 1 /\ p <= Len(s)
  BY PaddingIs
<1>2. PICK q \in Nat : q = Padding(t) - 1 /\ q <= Len(t)
  BY PaddingIs
<1>3. Len(s) \in Nat /\ Len(t) \in Nat
  OBVIOUS
<1>4. p <= q
  <2> SUFFICES ASSUME q < p PROVE FALSE
    BY <1>1, <1>2
  <2>1. Padding(t) = q + 1 /\ q + 1 \in 1 .. Padding(s) - 1 /\ q + 1 \in 1 .. Len(s)
        /\ Padding(t) <= Len(t)
    BY <1>1, <1>2, <1>3, PaddingIs
  <2>2. t[q + 1] = "=" /\ s[q + 1] # "="
    BY <2>1, PaddingIs
  <2>3. s[q + 1] = t[q + 1] \/ {s[q + 1], t[q + 1]} \cap (DOMAIN Letter \cup {"="}) = {}
    BY <2>1 DEF Alike
  <2> QED
    BY <2>2, <2>3
<1>5. LettersIn(s)[p] = LettersIn(t)[p]
  <2>1. \A k \in 1 .. p : k \in 1 .. Len(s)
    BY <1>1, <1>3
  <2>2. \A k \in 1 .. p : s[k] = t[k] \/ (s[k] \notin DOMAIN Letter /\ t[k] \notin DOMAIN Letter)
    BY <2>1 DEF Alike
  <2> QED
    BY <2>2, <1>1, <1>3, LettersAgree
<1>6. Begins(LettersIn(t)[p], LettersIn(t)[q])
  BY <1>1, <1>2, <1>3, <1>4, LettersBegin
<1>7. LettersIn(s)[p] \in Letters /\ LettersIn(t)[q] \in Letters
  BY <1>1, <1>2, DecodedType
<1> QED
  BY <1>1, <1>2, <1>5, <1>6, <1>7, BytesBegin DEF Decoded

LEMMA DecodedAlike ==
  ASSUME NEW s \in Seq(Char), NEW t \in Seq(Char), Len(s) = Len(t), Alike(s, t, Len(s))
  PROVE  Decoded(s) = Decoded(t)
<1>1. Alike(t, s, Len(t))
  BY DEF Alike
<1>2. Begins(Decoded(s), Decoded(t)) /\ Begins(Decoded(t), Decoded(s))
  BY <1>1, DecodedBegins
<1>3. Decoded(s) \in Seq(0 .. 255) /\ Decoded(t) \in Seq(0 .. 255)
  BY DecodedType
<1>4. Len(Decoded(s)) = Len(Decoded(t))
  BY <1>2, <1>3 DEF Begins
<1> QED
  BY <1>2, <1>3, <1>4, SeqEqual DEF Begins

\* from_utf8_lossy changes nothing that base64 reads.
LEMMA LossyType ==
  ASSUME NEW s \in Seq(Char)
  PROVE  /\ Lossy(s) \in Seq(Char) /\ Len(Lossy(s)) = Len(s)
         /\ \A k \in 1 .. Len(s) : Lossy(s)[k] = s[k] \/ (s[k] \in {"m1", "m2"} /\ Lossy(s)[k] = "?")
<1>1. DOMAIN s = 1 .. Len(s) /\ \A k \in 1 .. Len(s) : s[k] \in Char
  OBVIOUS
<1> DEFINE c(k) == IF \/ s[k] = "m1" /\ (k = Len(s) \/ s[k + 1] # "m2")
                      \/ s[k] = "m2" /\ (k = 1 \/ s[k - 1] # "m1")
                   THEN "?" ELSE s[k]
<1>2. Lossy(s) = [k \in 1 .. Len(s) |-> c(k)]
  BY <1>1 DEF Lossy
<1>3. ASSUME NEW k \in 1 .. Len(s)
      PROVE  c(k) \in Char /\ (c(k) = s[k] \/ (s[k] \in {"m1", "m2"} /\ c(k) = "?"))
  <2>1. (c(k) = "?" /\ s[k] \in {"m1", "m2"}) \/ c(k) = s[k]
    OBVIOUS
  <2> HIDE DEF c
  <2>2. "?" \in Char
    BY DEF Char
  <2> QED
    BY <2>1, <2>2, <1>1
<1> HIDE DEF c
<1> QED
  BY <1>2, <1>3

LEMMA LossyDecoded ==
  ASSUME NEW s \in Seq(Char)
  PROVE  Decoded(Lossy(s)) = Decoded(s)
<1>1. {"m1", "m2", "?"} \cap (DOMAIN Letter \cup {"="}) = {}
  BY DEF Letter
<1>2. Alike(Lossy(s), s, Len(s))
  BY <1>1, LossyType DEF Alike
<1> QED
  BY <1>2, LossyType, DecodedAlike
-----------------------------------------------------------------------------
(***************************************************************************)
(* The invariant.                                                          *)
(***************************************************************************)

Reading == {"call", "seek", "gap", "key", "colon", "space", "value", "bare", "lookup"}
Fields  == Seq([key : Seq(Char), val : Seq(Char)])

TypeOK ==
  /\ doc \in Docs
  /\ text \in Seq(Char) /\ n <= Len(doc.text) /\ \A p \in 1 .. n : text[p] = doc.text[p]
  /\ i \in Nat \ {0}
  /\ phase \in Reading \cup {"ctx", "state", "panic", "returned"}
  /\ buf \in Seq(Char) /\ key \in Seq(Char) /\ fields \in Fields
  /\ acc \in [buf : 0 .. BufRange - 1, bits : {0, 2, 4, 6}, out : Seq(0 .. 255)]
  /\ ctx \in Seq(0 .. 255)

\* How far past the end of its input the parser's index may run.
IndexInv ==
  /\ phase \in {"call", "seek", "key", "value"} => i <= n + 1
  /\ phase \in {"gap", "colon"} => i <= n + 2
  /\ phase \in {"space", "bare"} => i <= n + 3
  /\ phase \in {"ctx", "state"} => i <= Len(buf) + 1

\* What has been decoded is what the letters read so far make; and a template is
\* the one the fields describe.
DecodeInv ==
  /\ phase \in Reading => acc = Nothing
  /\ phase \in {"ctx", "state"} =>
      /\ Members(fields, Ctx) # {} /\ Members(fields, State) # {}
      /\ \A k \in Registers : Number(fields, k) # {}
      /\ Accumulated(acc, LettersIn(buf)[i - 1]) /\ \A k \in 1 .. i - 1 : buf[k] # "="
  /\ phase = "ctx" => buf = LastMember(fields, Ctx)
  /\ phase = "state" =>
      /\ buf = LastMember(fields, State)
      /\ ctx = Decoded(LastMember(fields, Ctx)) /\ Len(ctx) >= CtxSize
  /\ phase # "returned" => result = {}
  /\ result \in {{}, TemplateOf(fields)}

-----------------------------------------------------------------------------
\* Types, the index, and decoding: whatever the response.
Inv == TypeOK /\ IndexInv /\ DecodeInv

\* What a turn of the parser leaves alone.
Untouched == UNCHANGED <<doc, text, later>>

\* The two characters that have names for the provers, who cannot read them.
LEMMA Punctuation ==
  /\ Quote # Backslash
  /\ Quote \notin Gap \cup {":", "u", "n", "=", "/", "m1", "m2"}
  /\ Backslash \notin Gap \cup {":", "u", "n", "=", "/", "m1", "m2"}
  /\ Quote \notin DOMAIN Letter /\ Quote \notin DOMAIN DigitValue
  /\ Backslash \notin DOMAIN Letter /\ Backslash \notin DOMAIN DigitValue
<1>1. Quote # Backslash
  BY Zenon DEF Quote, Backslash
<1>2. /\ Quote \notin Gap \cup {":", "u", "n", "=", "/", "m1", "m2"}
      /\ Backslash \notin Gap \cup {":", "u", "n", "=", "/", "m1", "m2"}
  BY Zenon DEF Quote, Backslash, Gap, Space
<1>3. Quote \notin DOMAIN Letter /\ Backslash \notin DOMAIN Letter
  BY Zenon DEF Quote, Backslash, Letter
<1>4. Quote \notin DOMAIN DigitValue /\ Backslash \notin DOMAIN DigitValue
  BY Zenon DEF Quote, Backslash, DigitValue
<1> QED
  BY <1>1, <1>2, <1>3, <1>4, Zenon

LEMMA CharsPutIn == {Quote, Backslash, "/", "\n", "=", "?"} \subseteq Char
  BY DEF Char, Gap, Space, Letter

LEMMA ConversionsType ==
  /\ \A e : Unescaped(e) \in Seq(Char)
  /\ \A h : CharOf(h) \in Seq(Char)
<1> <<>> \in Seq(Char) /\ \A c \in Char : <<c>> \in Seq(Char)
  OBVIOUS
<1>1. ASSUME NEW e PROVE Unescaped(e) \in Seq(Char)
  <2>1. CASE e \in {Quote, Backslash, "/"}
    <3>1. e # "n"
      BY <2>1, Punctuation
    <3>2. Unescaped(e) = <<e>> /\ e \in Char
      BY <2>1, <3>1, CharsPutIn DEF Unescaped
    <3> QED
      BY <3>2
  <2>2. CASE e \notin {Quote, Backslash, "/"} /\ e = "n"
    <3>1. Unescaped(e) = <<"\n">> /\ "\n" \in Char
      BY <2>2, CharsPutIn DEF Unescaped
    <3> QED
      BY <3>1
  <2>3. CASE e \notin {Quote, Backslash, "/", "n"}
    BY <2>3 DEF Unescaped
  <2> QED
    BY <2>1, <2>2, <2>3
<1>2. ASSUME NEW h PROVE CharOf(h) \in Seq(Char)
  <2>1. <<"=">> \in Seq(Char) /\ <<"?">> \in Seq(Char)
    <3>1. "=" \in Char /\ "?" \in Char
      BY CharsPutIn
    <3> QED
      BY <3>1
  <2> QED
    BY <2>1 DEF CharOf
<1> QED
  BY <1>1, <1>2

LEMMA StartInv == Init => Inv
<1> SUFFICES ASSUME Init PROVE Inv
  OBVIOUS
<1>1. PICK cut \in 0 .. Len(doc.text) : text = SubSeq(doc.text, 1, cut)
  BY DEF Init
<1>2. doc \in Docs /\ doc.text \in Seq(Char)
  BY DocsAssumption DEF Init, WellTyped
<1>3. text \in Seq(Char) /\ Len(text) = cut /\ \A p \in 1 .. cut : text[p] = doc.text[p]
  BY <1>1, <1>2
<1>4. n \in Nat /\ n <= Len(doc.text)
  BY <1>1, <1>2, <1>3 DEF n
<1>5. /\ acc \in [buf : 0 .. BufRange - 1, bits : {0, 2, 4, 6}, out : Seq(0 .. 255)]
      /\ <<>> \in Seq(Char) /\ <<>> \in Fields
  BY NothingAccumulated DEF Init, Accumulated, Fields
<1>6. TypeOK
  BY <1>2, <1>3, <1>4, <1>5 DEF Init, TypeOK, Reading, n
<1>7. IndexInv
  BY <1>4 DEF Init, IndexInv
<1>8. DecodeInv
  BY DEF Init, DecodeInv
<1> QED
  BY <1>6, <1>7, <1>8 DEF Inv

LEMMA InvFacts ==
  ASSUME Inv
  PROVE  /\ n \in Nat /\ i \in Nat \ {0} /\ IndexInv
         /\ text \in Seq(Char) /\ buf \in Seq(Char) /\ key \in Seq(Char) /\ fields \in Fields
         /\ \A p \in 1 .. n : text[p] \in Char
         /\ text' = text => n' = n
<1>1. text \in Seq(Char)
  BY DEF Inv, TypeOK
<1>2. n \in Nat /\ \A p \in 1 .. n : text[p] \in Char
  BY <1>1 DEF n
<1> QED
  BY <1>1, <1>2 DEF Inv, TypeOK, n

\* A turn of the parser that keeps types and index keeps the invariant: nothing is
\* decoded yet.
LEMMA ParserTurn ==
  ASSUME Inv, phase \in Reading, phase' \in Reading \cup {"panic"}, Untouched,
         i' \in Nat \ {0}, buf' \in Seq(Char), key' \in Seq(Char), fields' \in Fields, IndexInv'
  PROVE  Inv'
<1>1. n' = n /\ text' = text /\ doc' = doc /\ acc' = acc /\ ctx' = ctx /\ result' = result
  BY DEF Untouched, later, n
<1>2. TypeOK'
  BY <1>1 DEF Inv, TypeOK
<1>3. result = {} /\ acc = Nothing
  BY DEF Inv, DecodeInv, Reading
<1>4. DecodeInv'
  BY <1>1, <1>3 DEF DecodeInv, Reading
<1> QED
  BY <1>2, <1>4 DEF Inv

LEMMA ReturnInv ==
  ASSUME Inv, NEW r, Return(r), r \in {{}, TemplateOf(fields)}
  PROVE  Inv'
<1>1. /\ phase' = "returned" /\ result' = r
      /\ UNCHANGED <<doc, text, i, buf, key, fields, acc, ctx>>
  BY DEF Return
<1>2. n' = n
  BY <1>1 DEF n
<1>3. TypeOK'
  BY <1>1, <1>2 DEF Inv, TypeOK
<1>4. IndexInv'
  BY <1>1 DEF IndexInv
<1>5. DecodeInv'
  BY <1>1 DEF DecodeInv, Reading
<1> QED
  BY <1>3, <1>4, <1>5 DEF Inv

LEMMA CallInv == Inv /\ Call => Inv'
<1> SUFFICES ASSUME Inv, Call PROVE Inv'
  OBVIOUS
<1>1. CASE Lossy(text) # text
  BY <1>1, ReturnInv DEF Call
<1>2. CASE Lossy(text) = text
  <2>1. /\ phase = "call" /\ phase' = "seek" /\ i' = i
        /\ UNCHANGED <<doc, text, buf, key, fields, later>>
    BY <1>2 DEF Call, Goto
  <2>2. IndexInv'
    BY <2>1 DEF Inv, IndexInv, n
  <2> QED
    BY <2>1, <2>2, ParserTurn DEF Inv, TypeOK, Reading, Untouched
<1> QED
  BY <1>1, <1>2

\* The loops that only move the index, and the ends of strings.
LEMMA SkipToBraceInv == Inv /\ SkipToBrace => Inv'
<1> SUFFICES ASSUME Inv, SkipToBrace PROVE Inv'
  OBVIOUS
<1>1. /\ phase = "seek" /\ i' = i + 1 /\ n \in Nat /\ i \in Nat \ {0} /\ i <= n + 1
      /\ (phase' = "seek" /\ i <= n) \/ phase' = "gap"
      /\ UNCHANGED <<doc, text, buf, key, fields, later>>
  BY InvFacts DEF SkipToBrace, Goto, IndexInv
<1>2. IndexInv'
  BY <1>1, InvFacts DEF IndexInv
<1> QED
  BY <1>1, <1>2, InvFacts, ParserTurn DEF Reading, Untouched

LEMMA SkipGapTurn ==
  ASSUME SkipGap
  PROVE  /\ phase = "gap" /\ buf' = <<>> /\ UNCHANGED <<doc, text, key, fields, later>>
         /\ \/ i <= n /\ text[i] \in Gap /\ phase' = "gap" /\ i' = i + 1
            \/ i <= n /\ text[i] = Quote /\ phase' = "key" /\ i' = i + 1
            \/ (i <= n => text[i] \notin Gap \cup {Quote}) /\ phase' = "lookup" /\ i' = i
<1>1. CASE At(Gap)
  <2>1. ~ At({Quote}) /\ i <= n /\ text[i] \in Gap
    BY <1>1, Punctuation DEF At
  <2>2. phase' = "gap" /\ i' = i + 1
    BY <1>1, <2>1 DEF SkipGap, Goto
  <2> QED
    BY <2>1, <2>2 DEF SkipGap
<1>2. CASE ~ At(Gap) /\ At({Quote})
  <2>1. phase' = "key" /\ i' = i + 1
    BY <1>2 DEF SkipGap, Goto
  <2> QED
    BY <1>2, <2>1 DEF SkipGap, At
<1>3. CASE ~ At(Gap) /\ ~ At({Quote})
  <2>1. phase' = "lookup" /\ i' = i
    BY <1>3 DEF SkipGap, Goto
  <2>2. i <= n => text[i] \notin Gap \cup {Quote}
    BY <1>3 DEF At
  <2> QED
    BY <2>1, <2>2 DEF SkipGap
<1> QED
  BY <1>1, <1>2, <1>3

LEMMA SkipGapInv == Inv /\ SkipGap => Inv'
<1> SUFFICES ASSUME Inv, SkipGap PROVE Inv'
  OBVIOUS
<1>1. /\ phase = "gap" /\ n \in Nat /\ i \in Nat \ {0} /\ i <= n + 2 /\ buf' = <<>>
      /\ UNCHANGED <<doc, text, key, fields, later>>
      /\ \/ phase' \in {"gap", "key"} /\ i <= n /\ i' = i + 1
         \/ phase' = "lookup" /\ i' = i
  <2>1. /\ phase = "gap" /\ buf' = <<>> /\ UNCHANGED <<doc, text, key, fields, later>>
        /\ \/ phase' \in {"gap", "key"} /\ i <= n /\ i' = i + 1
           \/ phase' = "lookup" /\ i' = i
    BY SkipGapTurn
  <2> QED
    BY <2>1, InvFacts DEF IndexInv
<1>2. n' = n /\ IndexInv'
  BY <1>1, InvFacts DEF IndexInv
<1> QED
  BY <1>1, <1>2, InvFacts, ParserTurn DEF Reading, Untouched

LEMMA SkipToColonInv == Inv /\ SkipToColon => Inv'
<1> SUFFICES ASSUME Inv, SkipToColon PROVE Inv'
  OBVIOUS
<1>1. /\ phase = "colon" /\ i' = i + 1 /\ n \in Nat /\ i \in Nat \ {0} /\ i <= n + 2
      /\ (phase' = "colon" /\ i <= n) \/ phase' = "space"
      /\ UNCHANGED <<doc, text, buf, key, fields, later>>
  BY InvFacts DEF SkipToColon, Goto, IndexInv
<1>2. IndexInv'
  BY <1>1, InvFacts DEF IndexInv
<1> QED
  BY <1>1, <1>2, InvFacts, ParserTurn DEF Reading, Untouched

LEMMA SkipSpaceTurn ==
  ASSUME SkipSpace
  PROVE  /\ phase = "space" /\ UNCHANGED <<doc, text, buf, key, fields, later>>
         /\ \/ i <= n /\ text[i] \in Space /\ phase' = "space" /\ i' = i + 1
            \/ i <= n /\ text[i] = Quote /\ phase' = "value" /\ i' = i + 1
            \/ (i <= n => text[i] \notin Space \cup {Quote}) /\ phase' = "bare" /\ i' = i
<1>1. CASE At(Space)
  <2>1. ~ At({Quote}) /\ i <= n /\ text[i] \in Space
    BY <1>1, Punctuation DEF At, Gap
  <2>2. phase' = "space" /\ i' = i + 1
    BY <1>1, <2>1 DEF SkipSpace, Goto
  <2> QED
    BY <2>1, <2>2 DEF SkipSpace
<1>2. CASE ~ At(Space) /\ At({Quote})
  <2>1. phase' = "value" /\ i' = i + 1
    BY <1>2 DEF SkipSpace, Goto
  <2> QED
    BY <1>2, <2>1 DEF SkipSpace, At
<1>3. CASE ~ At(Space) /\ ~ At({Quote})
  <2>1. phase' = "bare" /\ i' = i
    BY <1>3 DEF SkipSpace, Goto
  <2>2. i <= n => text[i] \notin Space \cup {Quote}
    BY <1>3 DEF At
  <2> QED
    BY <2>1, <2>2 DEF SkipSpace
<1> QED
  BY <1>1, <1>2, <1>3

LEMMA SkipSpaceInv == Inv /\ SkipSpace => Inv'
<1> SUFFICES ASSUME Inv, SkipSpace PROVE Inv'
  OBVIOUS
<1>1. /\ phase = "space" /\ n \in Nat /\ i \in Nat \ {0} /\ i <= n + 3
      /\ UNCHANGED <<doc, text, buf, key, fields, later>>
      /\ \/ phase' \in {"space", "value"} /\ i <= n /\ i' = i + 1
         \/ phase' = "bare" /\ i' = i
  <2>1. /\ phase = "space" /\ UNCHANGED <<doc, text, buf, key, fields, later>>
        /\ \/ phase' \in {"space", "value"} /\ i <= n /\ i' = i + 1
           \/ phase' = "bare" /\ i' = i
    BY SkipSpaceTurn
  <2> QED
    BY <2>1, InvFacts DEF IndexInv
<1>2. n' = n /\ IndexInv'
  BY <1>1, InvFacts DEF IndexInv
<1> QED
  BY <1>1, <1>2, InvFacts, ParserTurn DEF Reading, Untouched

LEMMA StringByteInv == Inv /\ StringByte => Inv'
<1> SUFFICES ASSUME Inv, StringByte PROVE Inv'
  OBVIOUS
<1>1. /\ phase \in {"key", "value"} /\ i <= n /\ phase' = phase
      /\ UNCHANGED <<doc, text, key, fields, later>>
  BY DEF StringByte, Quoted, InString
<1>2. n \in Nat /\ i \in 1 .. n /\ text \in Seq(Char) /\ buf \in Seq(Char)
  BY <1>1, InvFacts
<1>3. CASE Escaped
  <2>1. i + 1 <= n /\ i' = i + 2 /\ buf' = buf \o Unescaped(text[i + 1])
    BY <1>3 DEF StringByte, Escaped
  <2>2. buf' \in Seq(Char)
    BY <2>1, <1>2, ConversionsType
  <2>3. IndexInv'
    BY <2>1, <1>1, <1>2, InvFacts DEF IndexInv
  <2> QED
    BY <2>1, <2>2, <2>3, <1>1, InvFacts, ParserTurn DEF Reading, Untouched
<1>4. CASE ~ Escaped
  <2>1. i' = i + 1 /\ buf' = buf \o <<text[i]>>
    BY <1>4 DEF StringByte
  <2>2. <<text[i]>> \in Seq(Char)
    <3>1. text[i] \in Char
      BY <1>2, InvFacts
    <3> QED
      BY <3>1
  <2>3. buf' \in Seq(Char)
    BY <2>1, <2>2, <1>2
  <2>4. IndexInv'
    BY <2>1, <1>1, <1>2, InvFacts DEF IndexInv
  <2> QED
    BY <2>1, <2>3, <2>4, <1>1, InvFacts, ParserTurn DEF Reading, Untouched
<1> QED
  BY <1>3, <1>4

LEMMA UnicodeEscapeInv == Inv /\ UnicodeEscape => Inv'
<1> SUFFICES ASSUME Inv, UnicodeEscape PROVE Inv'
  OBVIOUS
<1>1. /\ phase \in {"key", "value"} /\ n \in Nat /\ i \in 1 .. n /\ i + 1 <= n
      /\ text \in Seq(Char) /\ buf \in Seq(Char)
      /\ UNCHANGED <<doc, text, key, fields, later>>
  BY InvFacts DEF UnicodeEscape, Quoted, InString, Escaped, IndexInv
<1>2. PICK last \in Nat : last = i + 1 + HexDigits /\ last > i + 1
  BY <1>1 DEF HexDigits
<1>3. CASE last > n
  <2>1. phase' = phase /\ i' = i + 2 /\ buf' = buf
    BY <1>2, <1>3 DEF UnicodeEscape, Goto
  <2>2. IndexInv'
    BY <2>1, <1>1, InvFacts DEF IndexInv
  <2> QED
    BY <2>1, <2>2, <1>1, InvFacts, ParserTurn DEF Reading, Untouched
<1>4. CASE last <= n /\ last < n /\ text[last + 1] = "m2"
  <2>1. phase' = "panic" /\ i' = i /\ buf' = buf
    BY <1>1, <1>2, <1>4 DEF UnicodeEscape, Goto
  <2>2. IndexInv'
    BY <2>1 DEF IndexInv
  <2> QED
    BY <2>1, <2>2, <1>1, InvFacts, ParserTurn DEF Reading, Untouched
<1>5. CASE last <= n /\ ~ (last < n /\ text[last + 1] = "m2")
  <2>1. phase' = phase /\ i' = last + 1 /\ buf' = buf \o CharOf(SubSeq(text, i + 2, last))
    BY <1>1, <1>2, <1>5 DEF UnicodeEscape, Goto
  <2>2. buf' \in Seq(Char)
    BY <2>1, <1>1, ConversionsType
  <2>3. IndexInv'
    BY <2>1, <1>1, <1>2, <1>5, InvFacts DEF IndexInv
  <2> QED
    BY <2>1, <2>2, <2>3, <1>1, <1>2, InvFacts, ParserTurn DEF Reading, Untouched
<1> QED
  BY <1>1, <1>2, <1>3, <1>4, <1>5

\* What is added to the fields.
LEMMA AddType ==
  ASSUME Inv, NEW v \in Seq(Char)
  PROVE  Append(fields, [key |-> key, val |-> v]) \in Fields
<1>1. [key |-> key, val |-> v] \in [key : Seq(Char), val : Seq(Char)] /\ fields \in Fields
  BY DEF Inv, TypeOK
<1> QED
  BY <1>1 DEF Fields

LEMMA StringEndInv == Inv /\ StringEnd => Inv'
<1> SUFFICES ASSUME Inv, StringEnd PROVE Inv'
  OBVIOUS
<1>1. /\ phase \in {"key", "value"} /\ n \in Nat /\ i \in 1 .. n + 1 /\ buf' = <<>> /\ i' = i + 1
      /\ UNCHANGED <<doc, text, later>>
  BY InvFacts DEF StringEnd, Quoted, Goto, IndexInv
<1>2. Lossy(buf) \in Seq(Char)
  BY InvFacts, LossyType
<1>3. CASE phase = "key"
  <2>1. phase' = "colon" /\ key' = Lossy(buf) /\ fields' = fields
    BY <1>3 DEF StringEnd, Goto
  <2>2. IndexInv'
    BY <2>1, <1>1, InvFacts DEF IndexInv
  <2> QED
    BY <2>1, <2>2, <1>1, <1>2, InvFacts, ParserTurn DEF Reading, Untouched
<1>4. CASE phase # "key"
  <2>1. phase' = "gap" /\ key' = key /\ fields' = Append(fields, [key |-> key, val |-> Lossy(buf)])
    BY <1>4 DEF StringEnd, Goto, Add
  <2>2. IndexInv'
    BY <2>1, <1>1, InvFacts DEF IndexInv
  <2> QED
    BY <2>1, <2>2, <1>1, <1>2, AddType, InvFacts, ParserTurn DEF Reading, Untouched
<1> QED
  BY <1>3, <1>4

LEMMA BareByteTurn ==
  ASSUME BareByte
  PROVE  /\ phase = "bare" /\ UNCHANGED <<doc, text, key, later>>
         /\ \/ /\ i <= n /\ text[i] \notin Space \cup {",", "}"}
               /\ phase' = "bare" /\ i' = i + 1 /\ buf' = Append(buf, text[i]) /\ fields' = fields
            \/ i > n + 1 /\ phase' = "panic" /\ i' = i /\ buf' = buf /\ fields' = fields
            \/ /\ ~ (i > n + 1) /\ (i <= n => text[i] \in Space \cup {",", "}"})
               /\ phase' = "gap" /\ i' = i /\ buf' = <<>>
               /\ fields' = Append(fields, [key |-> key, val |-> buf])
<1> DEFINE Going == i <= n /\ ~ At(Space \cup {",", "}"})
<1>1. phase = "bare" /\ UNCHANGED <<doc, text, key, later>>
  BY DEF BareByte
<1>2. CASE Going
  <2>1. i <= n /\ text[i] \notin Space \cup {",", "}"}
    BY <1>2 DEF At
  <2>2. phase' = "bare" /\ i' = i + 1 /\ buf' = Append(buf, text[i]) /\ fields' = fields
    BY <1>2 DEF BareByte, Goto
  <2> QED
    BY <1>1, <2>1, <2>2
<1>3. CASE ~ Going
  <2>1. i <= n => text[i] \in Space \cup {",", "}"}
    BY <1>3 DEF At
  <2>2. CASE i > n + 1
    <3>1. phase' = "panic" /\ i' = i /\ buf' = buf /\ fields' = fields
      BY <1>3, <2>2 DEF BareByte, Goto
    <3> QED
      BY <1>1, <2>2, <3>1
  <2>3. CASE ~ (i > n + 1)
    <3>1. /\ phase' = "gap" /\ i' = i /\ buf' = <<>>
          /\ fields' = Append(fields, [key |-> key, val |-> buf])
      BY <1>3, <2>3 DEF BareByte, Goto, Add
    <3> QED
      BY <1>1, <2>1, <2>3, <3>1
  <2> QED
    BY <2>2, <2>3
<1> QED
  BY <1>2, <1>3

LEMMA BareByteInv == Inv /\ BareByte => Inv'
<1> SUFFICES ASSUME Inv, BareByte PROVE Inv'
  OBVIOUS
<1>1. /\ phase = "bare" /\ n \in Nat /\ i \in Nat \ {0} /\ i <= n + 3
      /\ text \in Seq(Char) /\ buf \in Seq(Char) /\ key \in Seq(Char) /\ fields \in Fields
      /\ UNCHANGED <<doc, text, key, later>> /\ n' = n
  BY BareByteTurn, InvFacts DEF IndexInv
<1>2. \/ i <= n /\ phase' = "bare" /\ i' = i + 1 /\ buf' = Append(buf, text[i]) /\ fields' = fields
      \/ phase' = "panic" /\ i' = i /\ buf' = buf /\ fields' = fields
      \/ /\ ~ (i > n + 1) /\ phase' = "gap" /\ i' = i /\ buf' = <<>>
         /\ fields' = Append(fields, [key |-> key, val |-> buf])
  BY BareByteTurn
<1>3. i <= n => Append(buf, text[i]) \in Seq(Char)
  <2>1. i <= n => text[i] \in Char
    BY <1>1, InvFacts
  <2> QED
    BY <2>1, <1>1
<1>4. buf' \in Seq(Char) /\ fields' \in Fields
  <2>1. Append(fields, [key |-> key, val |-> buf]) \in Fields
    BY <1>1, AddType
  <2>2. <<>> \in Seq(Char)
    OBVIOUS
  <2> QED
    BY <2>1, <2>2, <1>1, <1>2, <1>3
<1>5. i' \in Nat \ {0} /\ phase' \in {"bare", "panic", "gap"}
  BY <1>1, <1>2
<1>6. IndexInv'
  BY <1>1, <1>2, <1>5 DEF IndexInv
<1> QED
  BY <1>1, <1>4, <1>5, <1>6, ParserTurn DEF Reading, Untouched

\* The last field with a key.
LEMMA LastMemberType ==
  ASSUME NEW fs \in Fields, NEW k, Members(fs, k) # {}
  PROVE  LastMember(fs, k) \in Seq(Char)
<1>1. Len(fs) \in Nat /\ DOMAIN fs = 1 .. Len(fs)
  BY DEF Fields
<1>2. Members(fs, k) \in SUBSET Nat /\ \A j \in Members(fs, k) : j \in 1 .. Len(fs)
  BY <1>1 DEF Members
<1>3. Max(Members(fs, k)) \in Members(fs, k)
  <2>1. PICK S \in SUBSET Nat : S = Members(fs, k)
    BY <1>2
  <2>2. Max(S) \in S
    BY <2>1, <1>1, <1>2, GreatestOf
  <2> QED
    BY <2>1, <2>2
<1>4. fs[Max(Members(fs, k))] \in [key : Seq(Char), val : Seq(Char)]
  BY <1>2, <1>3, ElementOfSeq DEF Fields
<1> QED
  BY <1>4 DEF LastMember

\* base64_decode begins with no letter read.
LEMMA DecodingBegins ==
  ASSUME NEW s \in Seq(Char)
  PROVE  Accumulated(Nothing, LettersIn(s)[0])
<1>1. LettersIn(s)[0] = <<>>
  BY LettersDef DEF Follows
<1> QED
  BY <1>1, NothingAccumulated

LEMMA LookupInv == Inv /\ Lookup => Inv'
<1> SUFFICES ASSUME Inv, Lookup PROVE Inv'
  OBVIOUS
<1>1. /\ phase = "lookup" /\ n \in Nat /\ fields \in Fields /\ acc = Nothing /\ result = {}
  BY InvFacts DEF Lookup, Inv, DecodeInv, Reading
<1> DEFINE Lacking == \/ Members(fields, Ctx) = {} \/ Members(fields, State) = {}
                      \/ \E k \in Registers : Number(fields, k) = {}
<1>2. CASE Lacking
  <2>1. Return({})
    BY <1>2 DEF Lookup, Holding, Register, Get, Members, Number, LastMember
  <2> QED
    BY <2>1, ReturnInv
<1>3. CASE ~ Lacking
  <2>1. /\ phase' = "ctx" /\ i' = 1 /\ buf' = LastMember(fields, Ctx)
        /\ UNCHANGED <<doc, text, key, fields, later>>
    BY <1>3 DEF Lookup, Goto, Holding, Register, Get, Members, Number, LastMember
  <2>2. buf' \in Seq(Char)
    BY <2>1, <1>1, <1>3, LastMemberType
  <2>3. TypeOK'
    BY <2>1, <2>2 DEF Inv, TypeOK, later, n
  <2>4. IndexInv'
    <3>1. Len(buf') \in Nat
      BY <2>2
    <3> QED
      BY <2>1, <3>1 DEF IndexInv
  <2>5. Accumulated(acc', LettersIn(buf')[i' - 1]) /\ \A k \in 1 .. i' - 1 : buf'[k] # "="
    <3>1. acc' = Nothing /\ i' - 1 = 0
      BY <2>1, <1>1 DEF later
    <3> QED
      BY <3>1, <2>2, DecodingBegins
  <2>6. DecodeInv'
    <3>1. fields' = fields /\ result' = {} /\ phase' = "ctx"
      BY <2>1, <1>1 DEF later
    <3> QED
      BY <3>1, <2>1, <2>5, <1>3 DEF DecodeInv, Reading
  <2> QED
    BY <2>3, <2>4, <2>6 DEF Inv
<1> QED
  BY <1>2, <1>3

LEMMA DecodeByteInv == Inv /\ DecodeByte => Inv'
<1> SUFFICES ASSUME Inv, DecodeByte PROVE Inv'
  OBVIOUS
<1>1. /\ phase \in {"ctx", "state"} /\ i \in 1 .. Len(buf) /\ buf[i] # "=" /\ i' = i + 1
      /\ UNCHANGED <<doc, text, phase, buf, key, fields, ctx, result>>
      /\ buf \in Seq(Char) /\ Len(buf) \in Nat /\ n' = n
  BY InvFacts DEF DecodeByte, Decoding, InData
<1>2. /\ Accumulated(acc, LettersIn(buf)[i - 1]) /\ \A k \in 1 .. i - 1 : buf[k] # "="
      /\ Members(fields, Ctx) # {} /\ Members(fields, State) # {}
      /\ \A k \in Registers : Number(fields, k) # {}
  BY <1>1 DEF Inv, DecodeInv
<1>3. PICK l \in Letters : l = LettersIn(buf)[i - 1]
  <2>1. i - 1 \in 0 .. Len(buf)
    BY <1>1
  <2> QED
    BY <2>1, <1>1, LettersDef
<1>4. LettersIn(buf)[i] = After(l, buf[i])
  BY <1>1, <1>3, LettersDef DEF Follows
<1>5. Accumulated(acc', LettersIn(buf)[i])
  <2>1. CASE buf[i] \in DOMAIN Letter
    <3>1. PICK v \in 0 .. 63 : v = Letter[buf[i]]
      BY <2>1, LetterValue
    <3>2. acc' = ShiftIn(acc, v)
      BY <2>1, <3>1 DEF DecodeByte, ShiftIn
    <3>3. LettersIn(buf)[i] = Append(l, v)
      BY <2>1, <3>1, <1>4 DEF After
    <3>4. Accumulated(ShiftIn(acc, v), Append(l, v))
      BY <1>2, <1>3, LetterAccumulated
    <3> QED
      BY <3>2, <3>3, <3>4
  <2>2. CASE buf[i] \notin DOMAIN Letter
    <3>1. acc' = acc /\ LettersIn(buf)[i] = l
      BY <2>2, <1>4 DEF DecodeByte, After
    <3> QED
      BY <3>1, <1>2, <1>3
  <2> QED
    BY <2>1, <2>2
<1>6. TypeOK'
  <2>1. acc' \in [buf : 0 .. BufRange - 1, bits : {0, 2, 4, 6}, out : Seq(0 .. 255)]
    BY <1>5 DEF Accumulated
  <2>2. i' \in Nat \ {0}
    BY <1>1
  <2> QED
    BY <2>1, <2>2, <1>1 DEF Inv, TypeOK
<1>7. IndexInv'
  BY <1>1 DEF IndexInv
<1>8. DecodeInv'
  <2>1. i' - 1 = i /\ \A k \in 1 .. i : buf[k] # "="
    BY <1>1, <1>2
  <2>2. /\ buf' = buf /\ fields' = fields /\ phase' = phase /\ ctx' = ctx /\ result' = result
        /\ result = {} /\ phase \notin Reading /\ phase # "returned"
    BY <1>1 DEF Inv, DecodeInv, Reading
  <2>3. /\ phase = "ctx" => buf = LastMember(fields, Ctx)
        /\ phase = "state" =>
            /\ buf = LastMember(fields, State)
            /\ ctx = Decoded(LastMember(fields, Ctx)) /\ Len(ctx) >= CtxSize
    BY DEF Inv, DecodeInv
  <2> QED
    BY <2>1, <2>2, <2>3, <1>2, <1>5 DEF DecodeInv
<1> QED
  BY <1>6, <1>7, <1>8 DEF Inv

\* At the padding, or at the end, the string is decoded.
LEMMA DecodedHere ==
  ASSUME Inv, Decoding, ~ InData
  PROVE  acc.out = Decoded(buf)
<1>1. /\ buf \in Seq(Char) /\ Len(buf) \in Nat /\ i \in Nat \ {0} /\ i <= Len(buf) + 1
      /\ Accumulated(acc, LettersIn(buf)[i - 1]) /\ \A k \in 1 .. i - 1 : buf[k] # "="
  BY InvFacts DEF Decoding, Inv, DecodeInv, IndexInv
<1>2. i \in 1 .. Len(buf) + 1 /\ (i = Len(buf) + 1 \/ buf[i] = "=")
  BY <1>1 DEF InData
<1>3. Padding(buf) = i
  BY <1>1, <1>2, PaddingAt
<1> QED
  BY <1>1, <1>3 DEF Accumulated, Decoded

LEMMA CtxDecodedInv == Inv /\ CtxDecoded => Inv'
<1> SUFFICES ASSUME Inv, CtxDecoded PROVE Inv'
  OBVIOUS
<1>1. CASE ~ LongEnough(acc.out, CtxSize)
  BY <1>1, ReturnInv DEF CtxDecoded
<1>2. CASE LongEnough(acc.out, CtxSize)
  <2>1. /\ phase = "ctx" /\ phase' = "state" /\ i' = 1 /\ ctx' = acc.out
        /\ buf' = LastMember(fields, State) /\ acc' = Nothing
        /\ doc' = doc /\ text' = text /\ key' = key /\ fields' = fields /\ result' = result
    BY <1>2 DEF CtxDecoded, Goto, Get, LastMember, Holding, Members
  <2>2. /\ fields \in Fields /\ Members(fields, Ctx) # {} /\ Members(fields, State) # {}
        /\ \A k \in Registers : Number(fields, k) # {}
        /\ buf = LastMember(fields, Ctx) /\ result = {}
    BY <2>1, InvFacts DEF Inv, DecodeInv
  <2>3. acc.out = Decoded(LastMember(fields, Ctx)) /\ acc.out \in Seq(0 .. 255)
    BY <2>1, <2>2, DecodedHere DEF CtxDecoded, Decoding, Inv, TypeOK
  <2>4. Len(acc.out) >= CtxSize
    BY <1>2 DEF LongEnough
  <2>5. buf' \in Seq(Char) /\ Len(buf') \in Nat
    BY <2>1, <2>2, LastMemberType
  <2>6. Accumulated(acc', LettersIn(buf')[i' - 1]) /\ \A k \in 1 .. i' - 1 : buf'[k] # "="
    <3>1. i' - 1 = 0
      BY <2>1
    <3> QED
      BY <3>1, <2>1, <2>5, DecodingBegins
  <2>7. TypeOK'
    <3>1. acc' \in [buf : 0 .. BufRange - 1, bits : {0, 2, 4, 6}, out : Seq(0 .. 255)]
      BY <2>6 DEF Accumulated
    <3> QED
      BY <3>1, <2>1, <2>3, <2>5 DEF Inv, TypeOK, n
  <2>8. IndexInv'
    BY <2>1, <2>5 DEF IndexInv
  <2>9. DecodeInv'
    BY <2>1, <2>2, <2>3, <2>4, <2>6 DEF DecodeInv, Reading
  <2> QED
    BY <2>7, <2>8, <2>9 DEF Inv
<1> QED
  BY <1>1, <1>2

\* What is built is what the fields describe.
LEMMA StateBuilds ==
  ASSUME Inv, StateDecoded
  PROVE  /\ phase = "state" /\ Return(TemplateOf(fields))
<1>1. /\ phase = "state" /\ ~ InData /\ acc.out = Decoded(buf)
  BY DecodedHere DEF StateDecoded, Decoding
<1>2. /\ Members(fields, Ctx) # {} /\ Members(fields, State) # {}
      /\ \A k \in Registers : Number(fields, k) # {}
      /\ buf = LastMember(fields, State)
      /\ ctx = Decoded(LastMember(fields, Ctx)) /\ Len(ctx) >= CtxSize /\ ctx \in Seq(0 .. 255)
      /\ acc.out \in Seq(0 .. 255)
  BY <1>1 DEF Inv, DecodeInv, TypeOK
<1>3. PICK st \in Seq(0 .. 255) : st = acc.out /\ st = Decoded(LastMember(fields, State))
  BY <1>1, <1>2
<1>4. Len(st) \in Nat /\ Len(ctx) \in Nat /\ CtxSize \in Nat /\ StateSize \in Nat
  BY <1>2, TemplateAssumption
<1>5. CASE Len(st) < StateSize
  <2>1. KeysOf(fields) = {}
    BY <1>3, <1>5 DEF KeysOf
  <2>2. TemplateOf(fields) = {}
    BY <2>1 DEF TemplateOf
  <2>3. ~ LongEnough(acc.out, StateSize)
    BY <1>3, <1>4, <1>5 DEF LongEnough
  <2>4. Return({})
    BY <2>3 DEF StateDecoded
  <2> QED
    BY <2>2, <2>4, <1>1
<1>6. CASE Len(st) >= StateSize
  <2>1. \A off \in Slots : TheWord(st, off) =
          SubSeq(st, StateSize - off + 1, StateSize - off + 4)
    <3> SUFFICES ASSUME NEW off \in Slots PROVE TheWord(st, off) =
          SubSeq(st, StateSize - off + 1, StateSize - off + 4)
      OBVIOUS
    <3>1. off \in 4 .. StateSize
      BY TemplateAssumption
    <3>2. (StateSize - off) + 4 <= Len(st)
      BY <3>1, <1>4, <1>6
    <3> QED
      BY <3>2 DEF TheWord
  <2> DEFINE words == [off \in Slots |-> SubSeq(st, StateSize - off + 1, StateSize - off + 4)]
             e == [ctx |-> ctx, st |-> words]
  <2>2. [off \in Slots |-> TheWord(st, off)] = words
    BY <2>1
  <2>3. KeysOf(fields) = {e}
    BY <1>2, <1>3, <1>4, <1>6 DEF KeysOf
  <2> HIDE DEF words
  <2>4. e.ctx = ctx /\ e.st = words
    OBVIOUS
  <2> DEFINE regs == [k \in Registers |-> CHOOSE v \in Number(fields, k) : TRUE]
  <2>5. TemplateOf(fields) = {[ctx |-> ctx, st |-> words, regs |-> regs]}
    <3> HIDE DEF e, regs
    <3>1. TemplateOf(fields) = {[ctx |-> x.ctx, st |-> x.st, regs |-> regs] : x \in {e}}
      BY <2>3, <1>2 DEF TemplateOf, regs
    <3> QED
      BY <3>1, <2>4
  <2>6. Template(ctx, acc.out) = [ctx |-> ctx, st |-> words, regs |-> regs]
    <3>1. Template(ctx, st) = [ctx |-> ctx, st |-> words, regs |-> regs]
      BY <2>2 DEF Template, Register, Holding, Get, Number, Members, LastMember
    <3> QED
      BY <3>1, <1>3
  <2>7. LongEnough(acc.out, StateSize)
    BY <1>3, <1>6 DEF LongEnough
  <2>8. Return({Template(ctx, acc.out)})
    BY <2>7 DEF StateDecoded
  <2> QED
    BY <2>5, <2>6, <2>8, <1>1
<1> QED
  BY <1>4, <1>5, <1>6

LEMMA StateDecodedInv == Inv /\ StateDecoded => Inv'
  BY StateBuilds, ReturnInv

LEMMA UnwindInv == Inv /\ Unwind => Inv'
  BY ReturnInv DEF Unwind

LEMMA NextInv == Inv /\ [Next]_vars => Inv'
<1>1. Inv /\ UNCHANGED vars => Inv'
  BY DEF vars, Inv, TypeOK, IndexInv, DecodeInv, n
<1>2. Inv /\ Returned => Inv'
  BY <1>1 DEF Returned
<1> QED
  BY <1>1, <1>2, CallInv, SkipToBraceInv, SkipGapInv, StringByteInv, UnicodeEscapeInv,
     StringEndInv, SkipToColonInv, SkipSpaceInv, BareByteInv, LookupInv, DecodeByteInv,
     CtxDecodedInv, StateDecodedInv, UnwindInv DEF Next, Step

\* Every value keeps its type, the index stays within three bytes of the end, and
\* what is built is the template its fields describe: base64_decode's buffer
\* overflows, and loses nothing by it.
THEOREM Invariance == Spec => []Inv
  BY StartInv, NextInv, PTL DEF Spec

-----------------------------------------------------------------------------
(***************************************************************************)
(* The parser does not turn for ever: what it still has to do, stage by    *)
(* stage.                                                                  *)
(***************************************************************************)
Stage == [call |-> 1, seek |-> 1, gap |-> 1, key |-> 1, colon |-> 1, space |-> 1, value |-> 1,
          bare |-> 1, lookup |-> 2, ctx |-> 3, state |-> 4, panic |-> 5, returned |-> 6]
\* Turns a loop may take before it reads its first byte.
Idle  == [call |-> 3, seek |-> 0, gap |-> 0, key |-> 0, colon |-> 0, space |-> 2, value |-> 0,
          bare |-> 1]
Turns ==
  IF phase \in {"ctx", "state"} THEN Len(buf) + 1 - i
  ELSE IF phase \in DOMAIN Idle THEN 3 * (n + 3 - i) + Idle[phase]
  ELSE 0
Advances ==
  \/ Stage[phase'] > Stage[phase]
  \/ Stage[phase'] = Stage[phase] /\ Turns' < Turns

LEMMA TurnsBounded == Inv => Turns \in Nat
<1> SUFFICES ASSUME Inv PROVE Turns \in Nat
  OBVIOUS
<1>1. n \in Nat /\ i \in Nat \ {0} /\ Len(buf) \in Nat /\ IndexInv
  BY InvFacts
<1>2. phase \in DOMAIN Idle => Idle[phase] \in 0 .. 3 /\ i <= n + 3
  BY <1>1 DEF IndexInv, Idle
<1>3. phase \in {"ctx", "state"} => i <= Len(buf) + 1
  BY <1>1 DEF IndexInv
<1> QED
  BY <1>1, <1>2, <1>3 DEF Turns

\* In one stage, a byte is read or a loop is left.
LEMMA ReadingAdvances ==
  ASSUME Inv, phase \in DOMAIN Idle, phase' \in DOMAIN Idle, text' = text,
         \/ i' = i /\ Idle[phase'] < Idle[phase]
         \/ i' \in Nat /\ i' >= i + 1 /\ (phase' = "space" => phase \in {"space", "colon"})
            /\ (phase' = "bare" => phase = "bare") /\ phase' # "call"
  PROVE  Advances
<1>1. n \in Nat /\ i \in Nat \ {0} /\ n' = n
  BY InvFacts
<1>2. Stage[phase'] = Stage[phase]
  BY DEF Stage, Idle
<1>3. Turns = 3 * (n + 3 - i) + Idle[phase] /\ Turns' = 3 * (n + 3 - i') + Idle[phase']
  BY <1>1 DEF Turns, Idle
<1>4. /\ Idle[phase] \in 0 .. 3 /\ Idle[phase'] \in 0 .. 3
      /\ i' # i => Idle[phase'] < Idle[phase] + 3
  BY <1>1 DEF Idle
<1>5. Turns' < Turns
  BY <1>1, <1>3, <1>4
<1> QED
  BY <1>2, <1>5 DEF Advances

LEMMA StepAdvances == Inv /\ Step => Advances
<1> SUFFICES ASSUME Inv, Step PROVE Advances
  OBVIOUS
<1>1. n \in Nat /\ i \in Nat \ {0}
  BY InvFacts
<1>2. ASSUME Stage[phase'] > Stage[phase] PROVE Advances
  BY <1>2 DEF Advances
<1>3. CASE Call
  <2>1. CASE Lossy(text) # text
    BY <1>2, <1>3, <2>1 DEF Call, Return, Stage
  <2>2. CASE Lossy(text) = text
    <3>1. phase = "call" /\ phase' = "seek" /\ i' = i /\ text' = text
      BY <1>3, <2>2 DEF Call, Goto
    <3> QED
      BY <3>1, ReadingAdvances DEF Idle
  <2> QED
    BY <2>1, <2>2
<1>4. CASE SkipToBrace
  <2>1. phase = "seek" /\ phase' \in {"seek", "gap"} /\ i' = i + 1 /\ text' = text
    BY <1>4 DEF SkipToBrace, Goto
  <2> QED
    BY <2>1, <1>1, ReadingAdvances DEF Idle
<1>5. CASE SkipGap
  <2>1. /\ phase = "gap" /\ text' = text
        /\ (phase' \in {"gap", "key"} /\ i' = i + 1) \/ phase' = "lookup"
    BY <1>5, SkipGapTurn
  <2>2. CASE phase' = "lookup"
    BY <2>1, <2>2, <1>2 DEF Stage
  <2>3. CASE phase' \in {"gap", "key"} /\ i' = i + 1
    BY <2>1, <2>3, <1>1, ReadingAdvances DEF Idle
  <2> QED
    BY <2>1, <2>2, <2>3
<1>6. CASE StringByte
  <2>1. phase \in {"key", "value"} /\ phase' = phase /\ text' = text
        /\ i' = i + (IF Escaped THEN 2 ELSE 1)
    BY <1>6 DEF StringByte, Quoted
  <2> QED
    BY <2>1, <1>1, ReadingAdvances DEF Idle
<1>7. CASE UnicodeEscape
  <2>1. phase \in {"key", "value"} /\ text' = text
    BY <1>7 DEF UnicodeEscape, Quoted
  <2>2. \/ phase' = phase /\ i' \in {i + 2, (i + 1 + HexDigits) + 1}
        \/ phase' = "panic"
    BY <1>7 DEF UnicodeEscape, Goto
  <2>3. CASE phase' = "panic"
    BY <2>1, <2>3, <1>2 DEF Stage
  <2>4. CASE phase' = phase /\ i' \in {i + 2, (i + 1 + HexDigits) + 1}
    <3>1. i' \in Nat /\ i' >= i + 1
      BY <2>4, <1>1 DEF HexDigits
    <3> QED
      BY <3>1, <2>1, <2>4, ReadingAdvances DEF Idle
  <2> QED
    BY <2>2, <2>3, <2>4
<1>8. CASE StringEnd
  <2>1. phase \in {"key", "value"} /\ phase' \in {"colon", "gap"} /\ i' = i + 1 /\ text' = text
    BY <1>8 DEF StringEnd, Quoted, Goto
  <2> QED
    BY <2>1, <1>1, ReadingAdvances DEF Idle
<1>9. CASE SkipToColon
  <2>1. phase = "colon" /\ phase' \in {"colon", "space"} /\ i' = i + 1 /\ text' = text
    BY <1>9 DEF SkipToColon, Goto
  <2> QED
    BY <2>1, <1>1, ReadingAdvances DEF Idle
<1>10. CASE SkipSpace
  <2>1. /\ phase = "space" /\ text' = text
        /\ \/ phase' \in {"space", "value"} /\ i' = i + 1
           \/ phase' = "bare" /\ i' = i
    BY <1>10, SkipSpaceTurn
  <2> QED
    BY <2>1, <1>1, ReadingAdvances DEF Idle
<1>11. CASE BareByte
  <2>1. /\ phase = "bare" /\ text' = text
        /\ \/ phase' = "bare" /\ i' = i + 1
           \/ phase' = "gap" /\ i' = i
           \/ phase' = "panic"
    BY <1>11, BareByteTurn
  <2>2. CASE phase' = "panic"
    BY <2>1, <2>2, <1>2 DEF Stage
  <2>3. CASE (phase' = "bare" /\ i' = i + 1) \/ (phase' = "gap" /\ i' = i)
    BY <2>1, <2>3, <1>1, ReadingAdvances DEF Idle
  <2> QED
    BY <2>1, <2>2, <2>3
<1>12. CASE Lookup
  <2>1. phase = "lookup" /\ phase' \in {"returned", "ctx"}
    BY <1>12 DEF Lookup, Return, Goto
  <2> QED
    BY <2>1, <1>2 DEF Stage
<1>13. CASE DecodeByte
  <2>1. /\ phase \in {"ctx", "state"} /\ phase' = phase /\ buf' = buf /\ i' = i + 1
        /\ Len(buf) \in Nat
    BY <1>13, InvFacts DEF DecodeByte, Decoding
  <2>2. Turns = Len(buf) + 1 - i /\ Turns' = Len(buf) + 1 - (i + 1)
    BY <2>1 DEF Turns
  <2> QED
    BY <2>1, <2>2, <1>1 DEF Advances
<1>14. CASE CtxDecoded
  <2>1. phase = "ctx" /\ phase' \in {"returned", "state"}
    BY <1>14 DEF CtxDecoded, Return, Goto
  <2> QED
    BY <2>1, <1>2 DEF Stage
<1>15. CASE StateDecoded
  <2>1. phase = "state" /\ phase' = "returned"
    BY <1>15 DEF StateDecoded, Return
  <2> QED
    BY <2>1, <1>2 DEF Stage
<1>16. CASE Unwind
  <2>1. phase = "panic" /\ phase' = "returned"
    BY <1>16 DEF Unwind, Return
  <2> QED
    BY <2>1, <1>2 DEF Stage
<1> QED
  BY <1>3, <1>4, <1>5, <1>6, <1>7, <1>8, <1>9, <1>10, <1>11, <1>12, <1>13, <1>14, <1>15, <1>16
     DEF Step

\* No response keeps the parser busy for ever: whatever it does either leaves a
\* stage behind for good or lessens a natural number.  (CallReturns, without the
\* fairness that makes it take its turns.)
THEOREM Termination == Spec => [](Turns \in Nat) /\ [][Advances]_vars
<1>1. Inv /\ [Next]_vars => [Advances]_vars
  BY StepAdvances DEF Next, Returned
<1> QED
  BY <1>1, TurnsBounded, Invariance, PTL DEF Spec

-----------------------------------------------------------------------------
(***************************************************************************)
(* Where the parser of the first m bytes of the document d is: in its k-th *)
(* member, which is flat, at byte p, having read the string b, and the key *)
(* kk.                                                                     *)
(***************************************************************************)

\* Past what arrived, which is not all; and further past it than a bare value may
\* begin, so that a panic follows.
CutShort(d, m, p) == m < Len(d.text) /\ p > m
Lost(d, m, p)     == m < Len(d.text) /\ p > m + 1

\* In a string: between two pieces of it, or behind the beginning of an escape that
\* has not arrived in full, with its digits taken for characters of the string.
Between(w, val, p, b) ==
  \E j \in 1 .. Len(w.at) : p = w.at[j] /\ b = SubSeq(val, 1, w.said[j])
Stray(t, m, w, val, p, b) ==
  \E j \in 1 .. Len(w.at) - 1 :
    /\ w.at[j] < p /\ m + 1 < w.at[j + 1]
    /\ \A q \in p .. m : t[q] \notin {Quote, Backslash}
    /\ \/ Unicode(t, w.at[j]) /\ Begins(SubSeq(val, 1, w.said[j]), b)
       \/ p = m + 1 /\ b = Append(SubSeq(val, 1, w.said[j]), Backslash)
Spelled(t, m, w, val, p, b) == Between(w, val, p, b) \/ Stray(t, m, w, val, p, b)

InGap(d, m, k, p) == p \in Before(d, k) + 1 .. d.layout[k].open \/ CutShort(d, m, p)
InKey(d, m, k, p, b) == Spelled(d.text, m, d.layout[k].name, d.fields[k].key, p, b)
InColon(d, m, k, p, kk) ==
  Lost(d, m, p) \/ (p \in d.layout[k].close + 1 .. d.layout[k].colon /\ kk = d.fields[k].key)
InSpace(d, m, k, p, kk) ==
  Lost(d, m, p) \/ (p \in d.layout[k].colon + 1 .. d.layout[k].start /\ kk = d.fields[k].key)
InValue(d, m, k, p, b, kk) ==
  /\ kk = d.fields[k].key
  /\ Spells(d.text, d.layout[k].val, d.layout[k].start, d.ends[k], d.fields[k].val)
  /\ Spelled(d.text, m, d.layout[k].val, d.fields[k].val, p, b)
InBare(d, m, k, p, b, kk) ==
  \/ Lost(d, m, p)
  \/ kk = d.fields[k].key /\ p = m + 1 /\ p <= d.layout[k].start /\ b = <<>>
  \/ /\ kk = d.fields[k].key /\ Bare(d.text, d.layout[k].start, d.ends[k], d.fields[k].val)
     /\ p \in d.layout[k].start .. d.ends[k] + 1 /\ b = SubSeq(d.text, d.layout[k].start, p - 1)

\* Before the object; in a flat member, or behind the last one of a flat document;
\* or where the document is no longer flat.
Tracks(d, m, k, ph, p, b, kk) ==
  /\ ph \in {"call", "seek"} => p \in 1 .. d.brace /\ k = 1
  /\ ph \in {"colon", "space"} => b = <<>>
  /\ k <= d.flat =>
      /\ ph = "gap" => InGap(d, m, k, p)
      /\ ph = "key" => InKey(d, m, k, p, b)
      /\ ph = "colon" => InColon(d, m, k, p, kk)
      /\ ph = "space" => InSpace(d, m, k, p, kk)
      /\ ph = "value" => InValue(d, m, k, p, b, kk)
      /\ ph = "bare" => InBare(d, m, k, p, b, kk)
  /\ k > d.flat /\ d.flat = Len(d.fields) =>
      /\ ph \notin {"key", "colon", "space", "value", "bare"}
      /\ ph = "gap" => (k = d.flat + 1 /\ p > Before(d, k)) \/ CutShort(d, m, p)
Track == Tracks(doc, n, Len(fields) + 1, phase, i, buf, key)

\* A document that arrived in full is read in full.
WholeInv ==
  Whole /\ doc.flat = Len(doc.fields) =>
    /\ phase # "panic"
    /\ phase \in {"lookup", "ctx", "state", "returned"} => fields = doc.fields
    /\ phase = "returned" => result = TemplateOf(fields)

\* Of the tables and the state, what was read of a value that was cut decodes to
\* the bytes of the whole value, or to too few.
Agree(v, w, m) ==
  Len(Decoded(v)) >= m =>
    Len(Decoded(w)) >= m /\ \A k \in 1 .. m : Decoded(v)[k] = Decoded(w)[k]
KeysInv ==
  \A k \in DOMAIN fields :
    k <= doc.flat /\ doc.fields[k].key \in {Ctx, State} =>
      Agree(fields[k].val, doc.fields[k].val, Needed(doc.fields[k].key))

-----------------------------------------------------------------------------
\* What a document's record says of its text and its members.
LEMMA DocText ==
  ASSUME NEW d \in Docs
  PROVE  d.text \in Seq(Char) /\ Len(d.text) \in Nat /\ Lossy(d.text) = d.text
<1>1. d.text \in Seq(Char) /\ Lossy(d.text) = d.text
  BY DocsAssumption DEF WellTyped, WellWritten
<1> QED
  BY <1>1

LEMMA DocBegins ==
  ASSUME NEW d \in Docs
  PROVE  /\ d.brace \in 1 .. Len(d.text) /\ d.text[d.brace] = "{"
         /\ \A p \in 1 .. d.brace - 1 : d.text[p] \in Space
<1>1. WellWritten(d)
  BY DocsAssumption
<1> QED
  BY <1>1 DEF WellWritten

LEMMA DocMembers ==
  ASSUME NEW d \in Docs
  PROVE  /\ d.flat \in Nat /\ Len(d.fields) \in Nat /\ d.flat <= Len(d.fields)
         /\ d.fields \in Fields
<1>1. d.flat \in Nat /\ d.fields \in Fields /\ d.flat <= Len(d.fields)
  BY DocsAssumption DEF WellTyped, WellWritten, Fields
<1>2. Len(d.fields) \in Nat
  BY <1>1 DEF Fields
<1> QED
  BY <1>1, <1>2

LEMMA DocEnds ==
  ASSUME NEW d \in Docs, d.flat = Len(d.fields)
  PROVE  \A p \in Before(d, d.flat + 1) + 1 .. Len(d.text) : d.text[p] \in Space \cup {"}"}
<1>1. WellWritten(d)
  BY DocsAssumption
<1> QED
  BY <1>1 DEF WellWritten, Filled

LEMMA MemberWritten ==
  ASSUME NEW d \in Docs, NEW k \in 1 .. d.flat
  PROVE  /\ FlatMember(d, k) /\ d.ends[k] < Len(d.text)
         /\ d.layout[k] \in Layout /\ d.ends[k] \in Nat
         /\ d.fields[k] \in [key : Seq(Char), val : Seq(Char)]
         /\ Before(d, k) \in Nat /\ Before(d, k + 1) = d.ends[k]
<1>1. WellTyped(d) /\ WellWritten(d)
  BY DocsAssumption
<1>2. FlatMember(d, k) /\ d.ends[k] < Len(d.text)
  BY <1>1 DEF WellWritten
<1>3. d.flat \in Nat /\ Len(d.fields) \in Nat /\ d.flat <= Len(d.fields)
  BY DocMembers
<1>4. /\ Len(d.ends) = Len(d.fields) /\ Len(d.layout) = Len(d.fields)
      /\ d.ends \in Seq(Nat) /\ d.layout \in Seq(Layout)
      /\ d.fields \in Seq([key : Seq(Char), val : Seq(Char)]) /\ d.brace \in Nat
  BY <1>1 DEF WellTyped
<1>5. k \in 1 .. Len(d.fields) /\ (k # 1 => k - 1 \in 1 .. Len(d.fields))
  BY <1>3
<1>6. d.layout[k] \in Layout /\ d.ends[k] \in Nat
      /\ d.fields[k] \in [key : Seq(Char), val : Seq(Char)]
      /\ (k # 1 => d.ends[k - 1] \in Nat)
  BY <1>4, <1>5, ElementOfSeq
<1>7. Before(d, k) \in Nat
  BY <1>4, <1>6 DEF Before
<1>8. Before(d, k + 1) = d.ends[k]
  <2>1. k + 1 # 1 /\ (k + 1) - 1 = k
    BY <1>3
  <2> QED
    BY <2>1 DEF Before
<1> QED
  BY <1>2, <1>6, <1>7, <1>8

LEMMA MemberPlaces ==
  ASSUME NEW d \in Docs, NEW k \in 1 .. d.flat
  PROVE  /\ Before(d, k) \in Nat /\ d.layout[k].open \in Nat /\ d.layout[k].close \in Nat
         /\ d.layout[k].colon \in Nat /\ d.layout[k].start \in Nat /\ d.ends[k] \in Nat
         /\ Before(d, k) < d.layout[k].open /\ d.layout[k].open < d.layout[k].close
         /\ d.layout[k].close < d.layout[k].colon /\ d.layout[k].colon < d.layout[k].start
         /\ d.layout[k].start < Len(d.text) /\ d.ends[k] < Len(d.text)
         /\ d.layout[k].open < Len(d.text) /\ 0 < d.layout[k].open /\ 0 < d.layout[k].start
         /\ d.layout[k].close < Len(d.text)
<1>1. FlatMember(d, k) /\ d.layout[k] \in Layout /\ d.ends[k] < Len(d.text)
      /\ d.ends[k] \in Nat /\ Before(d, k) \in Nat
  BY MemberWritten
<1>2. /\ d.layout[k].open \in Nat /\ d.layout[k].close \in Nat
      /\ d.layout[k].colon \in Nat /\ d.layout[k].start \in Nat
  BY <1>1 DEF Layout
<1>3. /\ Before(d, k) < d.layout[k].open /\ d.layout[k].open < d.layout[k].close
      /\ d.layout[k].close < d.layout[k].colon /\ d.layout[k].colon < d.layout[k].start
      /\ d.layout[k].start < Len(d.text)
  BY <1>1 DEF FlatMember
<1>4. ASSUME NEW a \in Nat, NEW b \in Nat, NEW c \in Nat, NEW e \in Nat, NEW g \in Nat, NEW h \in Nat,
             a < b, b < c, c < e, e < g, g < h
      PROVE  b < h /\ 0 < b /\ 0 < g
  BY <1>4
<1>5. Len(d.text) \in Nat
  BY DocText
<1>6. d.layout[k].open < Len(d.text) /\ 0 < d.layout[k].open /\ 0 < d.layout[k].start
  BY <1>1, <1>2, <1>3, <1>4, <1>5, SMTT(20)
<1>7. d.layout[k].close < Len(d.text)
  <2>1. ASSUME NEW c \in Nat, NEW e \in Nat, NEW g \in Nat, NEW h \in Nat, c < e, e < g, g < h
        PROVE  c < h
    BY <2>1
  <2> QED
    BY <2>1, <1>2, <1>3, <1>5
<1> QED
  BY <1>1, <1>2, <1>3, <1>6, <1>7

LEMMA MemberName ==
  ASSUME NEW d \in Docs, NEW k \in 1 .. d.flat
  PROVE  /\ d.layout[k].name \in Spelling /\ d.fields[k].key \in Seq(Char)
         /\ Spells(d.text, d.layout[k].name, d.layout[k].open, d.layout[k].close, d.fields[k].key)
<1>1. FlatMember(d, k) /\ d.layout[k] \in Layout /\ d.fields[k] \in [key : Seq(Char), val : Seq(Char)]
  BY MemberWritten
<1>2. Spells(d.text, d.layout[k].name, d.layout[k].open, d.layout[k].close, d.fields[k].key)
  BY <1>1 DEF FlatMember
<1>3. d.layout[k].name \in Spelling /\ d.fields[k].key \in Seq(Char)
  BY <1>1 DEF Layout
<1> QED
  BY <1>2, <1>3

LEMMA MemberValue ==
  ASSUME NEW d \in Docs, NEW k \in 1 .. d.flat
  PROVE  /\ d.layout[k].val \in Spelling /\ d.fields[k].val \in Seq(Char)
         /\ \/ Spells(d.text, d.layout[k].val, d.layout[k].start, d.ends[k], d.fields[k].val)
            \/ Bare(d.text, d.layout[k].start, d.ends[k], d.fields[k].val)
<1>1. FlatMember(d, k) /\ d.layout[k] \in Layout /\ d.fields[k] \in [key : Seq(Char), val : Seq(Char)]
  BY MemberWritten
<1>2. \/ Spells(d.text, d.layout[k].val, d.layout[k].start, d.ends[k], d.fields[k].val)
      \/ Bare(d.text, d.layout[k].start, d.ends[k], d.fields[k].val)
  BY <1>1 DEF FlatMember
<1>3. d.layout[k].val \in Spelling /\ d.fields[k].val \in Seq(Char)
  BY <1>1 DEF Layout
<1> QED
  BY <1>2, <1>3

LEMMA MemberGaps ==
  ASSUME NEW d \in Docs, NEW k \in 1 .. d.flat
  PROVE  /\ \A p \in Before(d, k) + 1 .. d.layout[k].open - 1 : d.text[p] \in Space \cup {","}
         /\ \A p \in d.layout[k].close + 1 .. d.layout[k].colon - 1 : d.text[p] \in Space
         /\ d.text[d.layout[k].colon] = ":"
         /\ \A p \in d.layout[k].colon + 1 .. d.layout[k].start - 1 : d.text[p] \in Space
<1>1. FlatMember(d, k)
  BY MemberWritten
<1> QED
  BY <1>1 DEF FlatMember, Filled

-----------------------------------------------------------------------------
\* Strings: a part of a sequence, its beginning, and one piece more.
LEMMA Part ==
  ASSUME NEW s \in Seq(Char), NEW a \in Nat \ {0}, NEW b \in a - 1 .. Len(s)
  PROVE  /\ SubSeq(s, a, b) \in Seq(Char) /\ Len(SubSeq(s, a, b)) = (b + 1) - a
         /\ \A k \in 1 .. (b + 1) - a : SubSeq(s, a, b)[k] = s[(a + k) - 1]
<1>1. Len(s) \in Nat /\ a \in Int /\ b \in Int /\ b <= Len(s) /\ b >= a - 1
  OBVIOUS
<1>2. \A k \in a .. b : s[k] \in Char
  BY <1>1, ElementOfSeq
<1>3. /\ SubSeq(s, a, b) \in Seq(Char)
      /\ Len(SubSeq(s, a, b)) = IF a <= b THEN b - a + 1 ELSE 0
      /\ \A k \in 1 .. b - a + 1 : SubSeq(s, a, b)[k] = s[a + k - 1]
  BY <1>1, <1>2, SubSeqProperties
<1> QED
  BY <1>1, <1>3

LEMMA Beginning ==
  ASSUME NEW s \in Seq(Char), NEW a \in 0 .. Len(s)
  PROVE  /\ SubSeq(s, 1, a) \in Seq(Char) /\ Len(SubSeq(s, 1, a)) = a
         /\ \A k \in 1 .. a : SubSeq(s, 1, a)[k] = s[k]
         /\ a = Len(s) => SubSeq(s, 1, a) = s
         /\ a = 0 => SubSeq(s, 1, a) = <<>>
<1>1. Len(s) \in Nat /\ a \in Nat
  OBVIOUS
<1>2. /\ SubSeq(s, 1, a) \in Seq(Char) /\ Len(SubSeq(s, 1, a)) = a
      /\ \A k \in 1 .. a : SubSeq(s, 1, a)[k] = s[k]
  BY <1>1
<1>3. a = Len(s) => SubSeq(s, 1, a) = s
  BY <1>1, <1>2, SeqEqual
<1>4. a = 0 => SubSeq(s, 1, a) = <<>>
  BY <1>2, EmptySeq
<1> QED
  BY <1>2, <1>3, <1>4

LEMMA OnePieceMore ==
  ASSUME NEW s \in Seq(Char), NEW a \in 0 .. Len(s), NEW b \in a .. Len(s)
  PROVE  SubSeq(s, 1, a) \o SubSeq(s, a + 1, b) = SubSeq(s, 1, b)
<1>1. Len(s) \in Nat /\ a \in Nat /\ b \in Nat /\ b \in 0 .. Len(s)
  OBVIOUS
<1>2. PICK u \in Seq(Char) : u = SubSeq(s, 1, a) /\ Len(u) = a /\ \A k \in 1 .. a : u[k] = s[k]
  BY Beginning
<1>3. PICK v \in Seq(Char) : v = SubSeq(s, a + 1, b) /\ Len(v) = b - a
                             /\ \A k \in 1 .. b - a : v[k] = s[a + k]
  <2>1. PICK c \in Nat \ {0} : c = a + 1 /\ b \in c - 1 .. Len(s)
    BY <1>1
  <2>5. /\ SubSeq(s, c, b) \in Seq(Char) /\ Len(SubSeq(s, c, b)) = (b + 1) - c
        /\ \A k \in 1 .. (b + 1) - c : SubSeq(s, c, b)[k] = s[(c + k) - 1]
    BY <2>1, Part
  <2>2. PICK v \in Seq(Char) : v = SubSeq(s, c, b) /\ Len(v) = (b + 1) - c
                               /\ \A k \in 1 .. (b + 1) - c : v[k] = s[(c + k) - 1]
    BY <2>5
  <2>3. (b + 1) - c = b - a /\ \A k \in 1 .. b - a : (c + k) - 1 = a + k
    BY <2>1, <1>1
  <2>4. Len(v) = b - a /\ \A k \in 1 .. b - a : v[k] = s[a + k]
    BY <2>2, <2>3
  <2> QED
    BY <2>1, <2>2, <2>4
<1>4. PICK w \in Seq(Char) : w = SubSeq(s, 1, b) /\ Len(w) = b /\ \A k \in 1 .. b : w[k] = s[k]
  BY <1>1, Beginning
<1>5. u \o v \in Seq(Char) /\ Len(u \o v) = b
  BY <1>1, <1>2, <1>3
<1>6. \A k \in 1 .. b : (u \o v)[k] = w[k]
  <2> SUFFICES ASSUME NEW k \in 1 .. b PROVE (u \o v)[k] = w[k]
    OBVIOUS
  <2>1. w[k] = s[k] /\ k \in Nat
    BY <1>1, <1>4
  <2>2. CASE k <= a
    <3>1. k \in 1 .. a
      BY <1>1, <2>1, <2>2
    <3>2. (u \o v)[k] = u[k]
      BY <1>2, <3>1
    <3> QED
      BY <1>2, <2>1, <3>1, <3>2
  <2>3. CASE k > a
    <3>1. PICK j \in 1 .. b - a : k = a + j
      <4>1. k - a \in 1 .. b - a /\ k = a + (k - a)
        BY <1>1, <2>1, <2>3
      <4> QED
        BY <4>1
    <3>2. (u \o v)[a + j] = v[j]
      <4>1. j \in 1 .. Len(v) /\ Len(u) = a
        BY <1>2, <1>3
      <4>2. (u \o v)[Len(u) + j] = v[j]
        BY <4>1, ConcatProperties
      <4> QED
        BY <4>1, <4>2
    <3> QED
      BY <1>3, <2>1, <3>1, <3>2
  <2>4. k <= a \/ k > a
    BY <1>1, <2>1
  <2> QED
    BY <2>2, <2>3, <2>4, Zenon
<1>7. u \o v = w
  BY <1>4, <1>5, <1>6, SeqEqual
<1> QED
  BY <1>2, <1>3, <1>4, <1>7

LEMMA OneMore ==
  ASSUME NEW s \in Seq(Char), NEW a \in 1 .. Len(s), NEW b \in a - 1 .. Len(s) - 1
  PROVE  Append(SubSeq(s, a, b), s[b + 1]) = SubSeq(s, a, b + 1)
<1>1. Len(s) \in Nat /\ a \in Nat /\ b \in Nat
  OBVIOUS
<1>2. PICK u \in Seq(Char) : u = SubSeq(s, a, b) /\ Len(u) = (b + 1) - a
                             /\ \A k \in 1 .. (b + 1) - a : u[k] = s[(a + k) - 1]
  <2>1. PICK c \in Nat \ {0}, e \in a - 1 .. Len(s) : c = a /\ e = b
    BY <1>1
  <2>2. /\ SubSeq(s, c, e) \in Seq(Char) /\ Len(SubSeq(s, c, e)) = (e + 1) - c
        /\ \A k \in 1 .. (e + 1) - c : SubSeq(s, c, e)[k] = s[(c + k) - 1]
    BY <2>1, Part
  <2> QED
    BY <2>1, <2>2
<1>3. PICK w \in Seq(Char) : w = SubSeq(s, a, b + 1) /\ Len(w) = (b + 2) - a
                             /\ \A k \in 1 .. (b + 2) - a : w[k] = s[(a + k) - 1]
  <2>1. a \in Nat \ {0} /\ b + 1 \in a - 1 .. Len(s) /\ ((b + 1) + 1) - a = (b + 2) - a
    BY <1>1
  <2>2. /\ SubSeq(s, a, b + 1) \in Seq(Char) /\ Len(SubSeq(s, a, b + 1)) = ((b + 1) + 1) - a
        /\ \A k \in 1 .. ((b + 1) + 1) - a : SubSeq(s, a, b + 1)[k] = s[(a + k) - 1]
    BY <2>1, Part
  <2> QED
    BY <2>1, <2>2
<1>4. PICK c \in Char : c = s[b + 1]
  <2>1. b + 1 \in 1 .. Len(s)
    BY <1>1
  <2> QED
    BY <2>1, ElementOfSeq
<1>5. Append(u, c) \in Seq(Char) /\ Len(Append(u, c)) = (b + 2) - a
      /\ Append(u, c)[(b + 2) - a] = c /\ \A k \in 1 .. (b + 1) - a : Append(u, c)[k] = u[k]
  BY <1>1, <1>2
<1>6. w[(b + 2) - a] = c
  BY <1>1, <1>3, <1>4, SMTT(20)
<1>7. \A k \in 1 .. (b + 2) - a : Append(u, c)[k] = w[k]
  <2>1. \A k \in 1 .. (b + 2) - a : k \in 1 .. (b + 1) - a \/ k = (b + 2) - a
    BY <1>1
  <2>2. \A k \in 1 .. (b + 1) - a : Append(u, c)[k] = w[k]
    <3>1. \A k \in 1 .. (b + 1) - a : k \in 1 .. (b + 2) - a
      BY <1>1
    <3> QED
      BY <3>1, <1>2, <1>3, <1>5
  <2> QED
    BY <2>1, <2>2, <1>5, <1>6
<1>8. Append(u, c) = w
  BY <1>3, <1>5, <1>7, SeqEqual
<1> QED
  BY <1>2, <1>3, <1>4, <1>8

\* The three ways to spell a character.
LEMMA PieceCases ==
  ASSUME NEW t, NEW p, NEW q, NEW s, Piece(t, p, q, s)
  PROVE  \/ t[p] \notin {Quote, Backslash} /\ q = p + 1 /\ s = <<t[p]>>
         \/ t[p] = Backslash /\ t[p + 1] # "u" /\ q = p + 2 /\ s = Unescaped(t[p + 1])
         \/ /\ t[p] = Backslash /\ t[p + 1] = "u" /\ q = p + 6 /\ Unicode(t, p)
            /\ IsHex(SubSeq(t, p + 2, p + 5)) /\ s = CharOf(SubSeq(t, p + 2, p + 5))
<1>1. CASE Itself(t, p, q, s)
  BY <1>1 DEF Itself
<1>2. CASE Short(t, p, q, s)
  <2>1. t[p] = Backslash /\ q = p + 2
    BY <1>2 DEF Short
  <2>2. CASE t[p + 1] \in {Quote, Backslash, "/"} /\ s = <<t[p + 1]>>
    <3>1. t[p + 1] # "u" /\ t[p + 1] # "n"
      BY <2>2, Punctuation
    <3>2. s = Unescaped(t[p + 1])
      BY <2>2, <3>1 DEF Unescaped
    <3> QED
      BY <2>1, <3>1, <3>2
  <2>3. CASE t[p + 1] = "n" /\ s = <<"\n">>
    <3>1. t[p + 1] # "u"
      BY <2>3
    <3>2. "n" \notin {Quote, Backslash, "/"}
      BY Punctuation
    <3>3. s = Unescaped(t[p + 1])
      BY <2>3, <3>2 DEF Unescaped
    <3> QED
      BY <2>1, <3>1, <3>3
  <2> QED
    BY <1>2, <2>2, <2>3 DEF Short
<1>3. CASE ByNumber(t, p, q, s)
  BY <1>3 DEF ByNumber, Unicode
<1> QED
  BY <1>1, <1>2, <1>3 DEF Piece

\* The j-th piece of a string, and the next.
LEMMA PieceFacts ==
  ASSUME NEW t \in Seq(Char), NEW w \in Spelling, NEW val \in Seq(Char),
         NEW first \in Nat, NEW last \in Nat, Spells(t, w, first, last, val),
         NEW j \in 1 .. Len(w.at)
  PROVE  /\ w.at[j] \in first + 1 .. last /\ w.said[j] \in 0 .. Len(val)
         /\ t[w.at[j]] = Quote => w.at[j] = last /\ SubSeq(val, 1, w.said[j]) = val
         /\ t[w.at[j]] # Quote =>
              /\ j \in 1 .. Len(w.at) - 1 /\ j + 1 \in 1 .. Len(w.at)
              /\ w.at[j + 1] \in first + 1 .. last /\ w.said[j + 1] \in 0 .. Len(val)
              /\ \E s : /\ Piece(t, w.at[j], w.at[j + 1], s)
                        /\ SubSeq(val, 1, w.said[j]) \o s = SubSeq(val, 1, w.said[j + 1])
<1>1. w.at \in Seq(Nat) /\ Len(w.at) \in Nat /\ Len(val) \in Nat
  BY DEF Spelling
<1>2. \A l \in 1 .. Len(w.at) : w.at[l] \in first + 1 .. last /\ w.said[l] \in 0 .. Len(val)
  <2>1. \A l \in DOMAIN w.at : w.at[l] \in first + 1 .. last /\ w.said[l] \in 0 .. Len(val)
    BY DEF Spells
  <2> QED
    BY <2>1, <1>1
<1>3. CASE j = Len(w.at)
  <2>1. w.at[j] = last /\ t[last] = Quote /\ w.said[j] = Len(val)
    BY <1>3 DEF Spells
  <2> QED
    BY <2>1, <1>1, <1>2, Beginning
<1>4. CASE j # Len(w.at)
  <2>1. j \in 1 .. Len(w.at) - 1 /\ j + 1 \in 1 .. Len(w.at)
    BY <1>1, <1>4
  <2>2. Piece(t, w.at[j], w.at[j + 1], SubSeq(val, w.said[j] + 1, w.said[j + 1]))
    BY <2>1 DEF Spells
  <2>7. w.said[j] <= w.said[j + 1] /\ w.said[j + 1] \in 0 .. Len(val)
    BY <2>1, <1>2 DEF Spells
  <2>3. PICK a \in 0 .. Len(val) : a = w.said[j]
    BY <1>2
  <2>4. PICK b \in a .. Len(val) : b = w.said[j + 1]
    BY <2>7, <2>3, <1>1
  <2>6. SubSeq(val, 1, a) \o SubSeq(val, a + 1, b) = SubSeq(val, 1, b)
    BY OnePieceMore
  <2>5. t[w.at[j]] # Quote
    BY <2>2, PieceCases, Punctuation
  <2> QED
    BY <2>1, <2>2, <2>3, <2>4, <2>5, <2>6, <2>7, <1>2
<1> QED
  BY <1>3, <1>4

-----------------------------------------------------------------------------
\* At byte p, b of the string val is read.
StringAt(t, w, val, first, last, m, p, b) ==
  /\ t \in Seq(Char) /\ w \in Spelling /\ val \in Seq(Char) /\ first \in Nat /\ last \in Nat
  /\ Spells(t, w, first, last, val) /\ last <= Len(t)
  /\ m \in 0 .. Len(t) /\ p \in 1 .. m + 1 /\ b \in Seq(Char)
  /\ Spelled(t, m, w, val, p, b)

LEMMA SpellingType ==
  ASSUME NEW w \in Spelling
  PROVE  Len(w.at) \in Nat /\ \A j \in 1 .. Len(w.at) : w.at[j] \in Nat
<1>1. w.at \in Seq(Nat)
  BY DEF Spelling
<1> QED
  BY <1>1, ElementOfSeq

\* A byte of a string that stands for itself, or a backslash that is the last.
LEMMA PlainByte ==
  ASSUME NEW t, NEW w, NEW val, NEW first, NEW last, NEW m, NEW p, NEW b,
         StringAt(t, w, val, first, last, m, p, b), p <= m, t[p] # Quote, ~ (t[p] = Backslash /\ p + 1 <= m)
  PROVE  Spelled(t, m, w, val, p + 1, b \o <<t[p]>>)
<1> USE DEF StringAt
<1>1. p \in Nat /\ m \in Nat /\ Len(t) \in Nat /\ m <= Len(t)
  OBVIOUS
<1>0. Len(w.at) \in Nat /\ \A j \in 1 .. Len(w.at) : w.at[j] \in Nat
  BY SpellingType
<1>2. PICK c \in Char : c = t[p]
  <2>1. p \in 1 .. Len(t)
    BY <1>1
  <2> QED
    BY <2>1, ElementOfSeq
<1>3. b \o <<c>> = Append(b, c)
  OBVIOUS
<1>4. CASE Between(w, val, p, b)
  <2>1. PICK j \in 1 .. Len(w.at) : p = w.at[j] /\ b = SubSeq(val, 1, w.said[j])
    BY <1>4 DEF Between
  <2>2. PICK s : /\ Piece(t, p, w.at[j + 1], s) /\ b \o s = SubSeq(val, 1, w.said[j + 1])
                 /\ j \in 1 .. Len(w.at) - 1 /\ j + 1 \in 1 .. Len(w.at)
    BY <2>1, PieceFacts
  <2>3. CASE t[p] # Backslash
    <3>1. p + 1 = w.at[j + 1] /\ b \o <<t[p]>> = SubSeq(val, 1, w.said[j + 1])
      BY <2>2, <2>3, PieceCases
    <3>2. Between(w, val, p + 1, b \o <<t[p]>>)
      BY <2>2, <3>1 DEF Between
    <3> QED
      BY <3>2 DEF Spelled
  <2>4. CASE t[p] = Backslash
    <3>1. t[p] = Backslash /\ w.at[j + 1] \in {p + 2, p + 6}
      BY <2>2, <2>4, PieceCases
    <3>2. p = m
      BY <3>1, <1>1
    <3>7. m + 1 < p + 2 /\ m + 1 < p + 6 /\ p < p + 1 /\ p + 1 = m + 1
      BY <3>2, <1>1
    <3>3. w.at[j] < p + 1 /\ m + 1 < w.at[j + 1] /\ p + 1 = m + 1
      BY <3>1, <3>7, <2>1
    <3>6. \A q \in p + 1 .. m : FALSE
      BY <3>2, <1>1
    <3>4. b \o <<t[p]>> = Append(SubSeq(val, 1, w.said[j]), Backslash)
      BY <3>1, <2>1, <1>2, <1>3
    <3>5. Stray(t, m, w, val, p + 1, b \o <<t[p]>>)
      BY <2>2, <3>3, <3>4, <3>6 DEF Stray
    <3> QED
      BY <3>5 DEF Spelled
  <2> QED
    BY <2>3, <2>4
<1>5. CASE Stray(t, m, w, val, p, b)
  <2>1. PICK j \in 1 .. Len(w.at) - 1 :
          /\ w.at[j] < p /\ m + 1 < w.at[j + 1]
          /\ \A q \in p .. m : t[q] \notin {Quote, Backslash}
          /\ \/ Unicode(t, w.at[j]) /\ Begins(SubSeq(val, 1, w.said[j]), b)
             \/ p = m + 1 /\ b = Append(SubSeq(val, 1, w.said[j]), Backslash)
    BY <1>5 DEF Stray
  <2>2. Unicode(t, w.at[j]) /\ Begins(SubSeq(val, 1, w.said[j]), b)
    <3>1. p # m + 1
      BY <1>1
    <3> QED
      BY <2>1, <3>1
  <2>3. PICK u \in Seq(Char) : u = SubSeq(val, 1, w.said[j])
    <3>1. j \in 1 .. Len(w.at)
      BY <1>0
    <3>2. w.said[j] \in 0 .. Len(val)
      BY <3>1, PieceFacts
    <3> QED
      BY <3>2, Beginning
  <2>4. Begins(u, Append(b, c))
    <3>3. Begins(u, b)
      BY <2>2, <2>3
    <3>4. Len(u) \in Nat /\ Len(b) \in Nat
      OBVIOUS
    <3>1. Len(u) \in Nat /\ Len(b) \in Nat /\ Len(u) <= Len(b) /\ \A l \in 1 .. Len(u) : b[l] = u[l]
      BY <3>3, <3>4 DEF Begins
    <3>2. Len(Append(b, c)) = Len(b) + 1 /\ \A l \in 1 .. Len(b) : Append(b, c)[l] = b[l]
      OBVIOUS
    <3> QED
      BY <3>1, <3>2 DEF Begins
  <2>5. /\ w.at[j] < p + 1 /\ \A q \in p + 1 .. m : t[q] \notin {Quote, Backslash}
    <3>4. j \in 1 .. Len(w.at)
      BY <1>0
    <3>1. w.at[j] \in Nat
      BY <3>4, <1>0
    <3>5. w.at[j] < p
      BY <2>1
    <3>3. w.at[j] < p + 1
      BY <3>1, <3>5, <1>1
    <3>2. \A q \in p + 1 .. m : q \in p .. m
      BY <1>1
    <3> QED
      BY <2>1, <3>2, <3>3
  <2>6. Stray(t, m, w, val, p + 1, b \o <<t[p]>>)
    BY <2>1, <2>2, <2>3, <2>4, <2>5, <1>2, <1>3 DEF Stray
  <2> QED
    BY <2>6 DEF Spelled
<1> QED
  BY <1>4, <1>5 DEF Spelled

\* The j-th piece of val, which says s, begins at byte p, behind b.
PieceAt(t, w, val, p, b, j, s) ==
  /\ j \in 1 .. Len(w.at) - 1 /\ j + 1 \in 1 .. Len(w.at)
  /\ p = w.at[j] /\ b = SubSeq(val, 1, w.said[j])
  /\ Piece(t, p, w.at[j + 1], s) /\ b \o s = SubSeq(val, 1, w.said[j + 1])

\* At a backslash, a piece begins.
LEMMA PieceBegins ==
  ASSUME NEW t, NEW w, NEW val, NEW first, NEW last, NEW m, NEW p, NEW b,
         StringAt(t, w, val, first, last, m, p, b), p <= m, t[p] = Backslash
  PROVE  \E j, s : PieceAt(t, w, val, p, b, j, s)
<1> USE DEF StringAt
<1>1. p \in p .. m
  OBVIOUS
<1>2. Between(w, val, p, b)
  <2>1. ~ Stray(t, m, w, val, p, b)
    BY <1>1 DEF Stray
  <2> QED
    BY <2>1 DEF Spelled
<1>3. PICK j \in 1 .. Len(w.at) : p = w.at[j] /\ b = SubSeq(val, 1, w.said[j])
  BY <1>2 DEF Between
<1>4. PICK s : /\ Piece(t, p, w.at[j + 1], s) /\ b \o s = SubSeq(val, 1, w.said[j + 1])
               /\ j \in 1 .. Len(w.at) - 1 /\ j + 1 \in 1 .. Len(w.at)
  BY <1>3, PieceFacts, Punctuation
<1> QED
  BY <1>3, <1>4 DEF PieceAt

LEMMA ShortEscape ==
  ASSUME NEW t, NEW w, NEW val, NEW first, NEW last, NEW m, NEW p, NEW b,
         StringAt(t, w, val, first, last, m, p, b), p <= m, t[p] = Backslash, t[p + 1] # "u"
  PROVE  Spelled(t, m, w, val, p + 2, b \o Unescaped(t[p + 1]))
<1>0. PICK j, s : PieceAt(t, w, val, p, b, j, s)
  BY PieceBegins
<1>1. /\ j \in 1 .. Len(w.at) - 1 /\ j + 1 \in 1 .. Len(w.at)
      /\ p = w.at[j] /\ b = SubSeq(val, 1, w.said[j])
      /\ Piece(t, p, w.at[j + 1], s) /\ b \o s = SubSeq(val, 1, w.said[j + 1])
  BY <1>0 DEF PieceAt
<1>2. w.at[j + 1] = p + 2 /\ s = Unescaped(t[p + 1])
  BY <1>1, PieceCases
<1>4. Between(w, val, p + 2, b \o Unescaped(t[p + 1]))
  BY <1>1, <1>2 DEF Between
<1> QED
  BY <1>4 DEF Spelled

\* In UTF-8, the second byte of a character follows the first.
LEMMA SecondHalf ==
  ASSUME NEW t \in Seq(Char), Lossy(t) = t, NEW p \in 1 .. Len(t), t[p] = "m2"
  PROVE  t[p - 1] = "m1"
<1>1. Lossy(t)[p] = IF \/ t[p] = "m1" /\ (p = Len(t) \/ t[p + 1] # "m2")
                       \/ t[p] = "m2" /\ (p = 1 \/ t[p - 1] # "m1")
                    THEN "?" ELSE t[p]
  <2>1. p \in DOMAIN t
    OBVIOUS
  <2> QED
    BY <2>1 DEF Lossy
<1> QED
  BY <1>1

\* An escape by number that has arrived is read as the piece it is, and does not end
\* within a character; of one that has not, the digits are taken for characters.
LEMMA LongEscape ==
  ASSUME NEW t, NEW w, NEW val, NEW first, NEW last, NEW m, NEW p, NEW b,
         StringAt(t, w, val, first, last, m, p, b), p <= m, t[p] = Backslash, t[p + 1] = "u", p + 1 <= m
  PROVE  /\ p + 5 > m => Spelled(t, m, w, val, p + 2, b)
         /\ p + 5 <= m => Spelled(t, m, w, val, p + 6, b \o CharOf(SubSeq(t, p + 2, p + 5)))
         /\ p + 5 < m /\ Lossy(t) = t => t[p + 6] # "m2"
<1>0. PICK j, s : PieceAt(t, w, val, p, b, j, s)
  BY PieceBegins
<1>1. /\ j \in 1 .. Len(w.at) - 1 /\ j + 1 \in 1 .. Len(w.at)
      /\ p = w.at[j] /\ b = SubSeq(val, 1, w.said[j])
      /\ Piece(t, p, w.at[j + 1], s) /\ b \o s = SubSeq(val, 1, w.said[j + 1])
  BY <1>0 DEF PieceAt
<1>2. /\ w.at[j + 1] = p + 6 /\ Unicode(t, p) /\ IsHex(SubSeq(t, p + 2, p + 5))
      /\ s = CharOf(SubSeq(t, p + 2, p + 5))
  <2>1. t[p] \in {Quote, Backslash}
    OBVIOUS
  <2>2. Piece(t, p, w.at[j + 1], s)
    BY <1>1
  <2> QED
    BY <2>1, <2>2, PieceCases
<1>3. /\ p \in Nat /\ m \in Nat /\ t \in Seq(Char) /\ Len(t) \in Nat /\ m <= Len(t)
      /\ w.at[j + 1] = p + 6
  <2>1. t \in Seq(Char) /\ m \in 0 .. Len(t) /\ p \in 1 .. m + 1
    BY DEF StringAt
  <2>2. Len(t) \in Nat
    BY <2>1
  <2> QED
    BY <2>1, <2>2, <1>2
<1>4. \A q \in p + 2 .. p + 5 : q <= Len(t) => t[q] \in DOMAIN DigitValue
  <2>1. SubSeq(t, p + 2, p + 5) = [l \in 1 .. 4 |-> t[(p + 2 + l) - 1]]
    BY <1>3
  <2>2. \A l \in 1 .. 4 : t[(p + 2 + l) - 1] \in DOMAIN DigitValue
    BY <1>2, <2>1 DEF IsHex
  <2>3. ASSUME NEW q \in p + 2 .. p + 5 PROVE t[q] \in DOMAIN DigitValue
    <3>1. PICK l \in 1 .. 4 : q = (p + 2 + l) - 1
      <4>1. q - p - 1 \in 1 .. 4 /\ q = (p + 2 + (q - p - 1)) - 1
        BY <1>3
      <4> QED
        BY <4>1
    <3> QED
      BY <3>1, <2>2
  <2> QED
    BY <2>3
<1>5. \A c \in DOMAIN DigitValue : c \notin {Quote, Backslash, "m1", "m2"}
  <2>1. \A c \in DOMAIN DigitValue : c \notin {"m1", "m2"}
    BY DEF DigitValue
  <2> QED
    BY <2>1, Punctuation
<1>6. ASSUME p + 5 > m PROVE Spelled(t, m, w, val, p + 2, b)
  <2>1. w.at[j] < p + 2 /\ m + 1 < w.at[j + 1]
    <3>1. p < p + 2 /\ m + 1 < p + 6
      BY <1>3, <1>6
    <3>2. p = w.at[j] /\ w.at[j + 1] = p + 6
      BY <1>1, <1>3
    <3> QED
      BY <3>1, <3>2
  <2>2. \A q \in p + 2 .. m : t[q] \notin {Quote, Backslash}
    <3>1. \A q \in p + 2 .. m : q \in p + 2 .. p + 5 /\ q <= Len(t)
      BY <1>3, <1>6
    <3> QED
      BY <3>1, <1>4, <1>5
  <2>3. Unicode(t, w.at[j]) /\ Begins(SubSeq(val, 1, w.said[j]), b)
    BY <1>1, <1>2 DEF Begins
  <2>5. j \in 1 .. Len(w.at) - 1
    BY <1>1
  <2>4. Stray(t, m, w, val, p + 2, b)
    BY <2>1, <2>2, <2>3, <2>5 DEF Stray
  <2> QED
    BY <2>4 DEF Spelled
<1>7. Spelled(t, m, w, val, p + 6, b \o CharOf(SubSeq(t, p + 2, p + 5)))
  <2>1. Between(w, val, p + 6, b \o CharOf(SubSeq(t, p + 2, p + 5)))
    BY <1>1, <1>2, <1>3 DEF Between
  <2> QED
    BY <2>1 DEF Spelled
<1>8. ASSUME p + 5 < m, Lossy(t) = t, t[p + 6] = "m2" PROVE FALSE
  <2>1. PICK q \in 1 .. Len(t) : q = p + 6
    BY <1>3, <1>8
  <2>2. t[q - 1] = "m1"
    BY <2>1, <1>3, <1>8, SecondHalf
  <2>3. q - 1 \in p + 2 .. p + 5 /\ q - 1 <= Len(t)
    BY <2>1, <1>3
  <2> QED
    BY <2>2, <2>3, <1>4, <1>5
<1> QED
  BY <1>6, <1>7, <1>8

\* Where a string ends, it has been read in full, or is cut.
LEMMA StringOver ==
  ASSUME NEW t, NEW w, NEW val, NEW first, NEW last, NEW m, NEW p, NEW b,
         StringAt(t, w, val, first, last, m, p, b), p <= m => t[p] = Quote
  PROVE  \/ p <= m /\ p = last /\ b = val
         \/ p = m + 1 /\ m + 1 <= last
<1> USE DEF StringAt
<1>1. p \in Nat /\ m \in Nat /\ Len(t) \in Nat /\ m <= Len(t)
  OBVIOUS
<1>0. Len(w.at) \in Nat /\ \A j \in 1 .. Len(w.at) : w.at[j] \in Nat
  BY SpellingType
<1>2. CASE Between(w, val, p, b)
  <2>1. PICK j \in 1 .. Len(w.at) : p = w.at[j] /\ b = SubSeq(val, 1, w.said[j])
    BY <1>2 DEF Between
  <2>2. p \in first + 1 .. last /\ (t[p] = Quote => p = last /\ b = val)
    BY <2>1, PieceFacts
  <2> QED
    BY <2>2, <1>1
<1>3. CASE Stray(t, m, w, val, p, b)
  <2>1. PICK j \in 1 .. Len(w.at) - 1 :
          m + 1 < w.at[j + 1] /\ \A q \in p .. m : t[q] \notin {Quote, Backslash}
    BY <1>3 DEF Stray
  <2>2. p = m + 1
    BY <2>1, <1>1
  <2>3. w.at[j + 1] \in first + 1 .. last
    <3>1. j + 1 \in 1 .. Len(w.at)
      BY <1>0
    <3> QED
      BY <3>1, PieceFacts
  <2> QED
    BY <2>1, <2>2, <2>3, <1>1
<1> QED
  BY <1>2, <1>3 DEF Spelled

-----------------------------------------------------------------------------
\* A turn of each loop, in a flat member.

\* At its first byte, a string is between two pieces.
LEMMA StringBegins ==
  ASSUME NEW t, NEW w \in Spelling, NEW val \in Seq(Char), NEW first, NEW last, NEW m,
         Spells(t, w, first, last, val)
  PROVE  Spelled(t, m, w, val, first + 1, <<>>)
<1>1. 1 \in 1 .. Len(w.at)
  BY SpellingType DEF Spells
<1>2. w.at[1] = first + 1 /\ w.said[1] = 0
  BY DEF Spells
<1>3. SubSeq(val, 1, 0) = <<>>
  BY Beginning
<1>4. Between(w, val, first + 1, <<>>)
  BY <1>1, <1>2, <1>3 DEF Between
<1> QED
  BY <1>4 DEF Spelled

LEMMA GapTurn ==
  ASSUME NEW d \in Docs, NEW k \in 1 .. d.flat, NEW m \in 0 .. Len(d.text), NEW p \in Nat,
         InGap(d, m, k, p)
  PROVE  /\ p <= m /\ d.text[p] \in Gap => InGap(d, m, k, p + 1)
         /\ p <= m /\ d.text[p] = Quote => InKey(d, m, k, p + 1, <<>>)
         /\ (p <= m => d.text[p] \notin Gap \cup {Quote}) => CutShort(d, m, p)
<1> DEFINE t == d.text
           f == d.layout[k]
<1>1. Len(t) \in Nat /\ m \in Nat /\ m <= Len(t)
  BY DocText
<1>2. /\ Before(d, k) \in Nat /\ f.open \in Nat /\ f.open < Len(t)
      /\ \A q \in Before(d, k) + 1 .. f.open - 1 : t[q] \in Space \cup {","}
      /\ Spells(t, f.name, f.open, f.close, d.fields[k].key)
      /\ f.name \in Spelling /\ d.fields[k].key \in Seq(Char)
  <2>1. Before(d, k) \in Nat /\ f.open \in Nat /\ f.open < Len(t)
    BY MemberPlaces
  <2> QED
    BY <2>1, MemberName, MemberGaps
<1>6. PICK o \in Nat : o = f.open /\ o < Len(t)
  BY <1>2
<1>7. PICK a \in Nat : a = Before(d, k)
  BY <1>2
<1>3. t[f.open] = Quote
  BY <1>2 DEF Spells
<1> HIDE DEF t, f
<1>4. CASE CutShort(d, m, p)
  <2>1. p > m
    BY <1>4 DEF CutShort
  <2> QED
    BY <2>1, <1>1, <1>4
<1>5. CASE p \in Before(d, k) + 1 .. f.open
  <2>1. CASE p = f.open
    <3>1. InKey(d, m, k, p + 1, <<>>)
      BY <2>1, <1>2, StringBegins DEF InKey, t, f
    <3>2. t[p] = Quote /\ Quote \notin Gap
      BY <2>1, <1>3, Punctuation
    <3>3. p > m => m < Len(t)
      BY <2>1, <1>1, <1>6
    <3>4. p > m => CutShort(d, m, p)
      BY <3>3 DEF CutShort, t
    <3> QED
      BY <3>1, <3>2, <3>4, <1>1 DEF t
  <2>2. CASE p \in Before(d, k) + 1 .. f.open - 1
    <3>1. t[p] \in Gap /\ t[p] # Quote
      <4>1. t[p] \in Gap
        BY <2>2, <1>2 DEF Gap
      <4> QED
        BY <4>1, Punctuation
    <3>5. p \in a + 1 .. o - 1
      BY <2>2, <1>6, <1>7
    <3>6. p + 1 \in a + 1 .. o /\ p < Len(t)
      BY <3>5, <1>1, <1>6
    <3>2. p + 1 \in Before(d, k) + 1 .. f.open
      BY <3>6, <1>6, <1>7
    <3>3. InGap(d, m, k, p + 1)
      BY <3>2 DEF InGap, f
    <3>7. p > m => m < Len(t)
      BY <3>6, <1>1
    <3>4. p > m => CutShort(d, m, p)
      BY <3>7 DEF CutShort, t
    <3> QED
      BY <3>1, <3>3, <3>4, <1>1 DEF t
  <2>3. p = o \/ p \in a + 1 .. o - 1
    <3>1. p \in a + 1 .. o
      BY <1>5, <1>6, <1>7
    <3> QED
      BY <3>1
  <2> QED
    BY <1>6, <1>7, <2>1, <2>2, <2>3
<1> QED
  BY <1>4, <1>5 DEF InGap, f

LEMMA ColonTurn ==
  ASSUME NEW d \in Docs, NEW k \in 1 .. d.flat, NEW m \in 0 .. Len(d.text), NEW p \in Nat,
         NEW kk, InColon(d, m, k, p, kk)
  PROVE  /\ p <= m /\ d.text[p] # ":" => InColon(d, m, k, p + 1, kk)
         /\ ~ (p <= m /\ d.text[p] # ":") => InSpace(d, m, k, p + 1, kk)
<1> DEFINE t == d.text
           f == d.layout[k]
<1>1. Len(t) \in Nat /\ m \in Nat /\ m <= Len(t)
  BY DocText
<1>2. /\ f.close \in Nat /\ f.colon \in Nat /\ f.start \in Nat
      /\ f.close < f.colon /\ f.colon < f.start
      /\ f.start < Len(t) /\ \A q \in f.close + 1 .. f.colon - 1 : t[q] \in Space
      /\ t[f.colon] = ":"
  BY MemberPlaces, MemberGaps
<1> HIDE DEF t, f
<1>3. CASE Lost(d, m, p)
  <2>1. p > m + 1 /\ m < Len(t)
    BY <1>3 DEF Lost, t
  <2>2. InSpace(d, m, k, p + 1, kk) /\ p > m
    BY <2>1, <1>1 DEF InSpace, Lost, t
  <2> QED
    BY <2>2, <1>1
<1>4. CASE p \in f.close + 1 .. f.colon /\ kk = d.fields[k].key
  <2>1. CASE p > m
    <3>1. Lost(d, m, p + 1)
      BY <2>1, <1>1, <1>2, <1>4 DEF Lost, t
    <3>2. InSpace(d, m, k, p + 1, kk)
      BY <3>1 DEF InSpace
    <3> QED
      BY <2>1, <3>2, <1>1
  <2>2. CASE p <= m /\ p = f.colon
    <3>2. p + 1 \in f.colon + 1 .. f.start
      BY <2>2, <1>2
    <3>1. InSpace(d, m, k, p + 1, kk)
      BY <3>2, <1>4 DEF InSpace, f
    <3> QED
      BY <2>2, <3>1, <1>2 DEF t
  <2>3. CASE p <= m /\ p \in f.close + 1 .. f.colon - 1
    <3>1. t[p] \in Space
      BY <2>3, <1>2
    <3>2. t[p] # ":"
      BY <3>1 DEF Space
    <3>3. p + 1 \in f.close + 1 .. f.colon
      BY <2>3, <1>2
    <3>4. InColon(d, m, k, p + 1, kk)
      BY <3>3, <1>4 DEF InColon, f
    <3> QED
      BY <2>3, <3>2, <3>4 DEF t
  <2> QED
    BY <1>1, <1>2, <1>4, <2>1, <2>2, <2>3
<1> QED
  BY <1>3, <1>4 DEF InColon, f

LEMMA SpaceTurn ==
  ASSUME NEW d \in Docs, NEW k \in 1 .. d.flat, NEW m \in 0 .. Len(d.text), NEW p \in Nat,
         NEW kk, InSpace(d, m, k, p, kk)
  PROVE  /\ p <= m /\ d.text[p] \in Space => InSpace(d, m, k, p + 1, kk)
         /\ p <= m /\ d.text[p] = Quote => InValue(d, m, k, p + 1, <<>>, kk)
         /\ (p <= m => d.text[p] \notin Space \cup {Quote}) => InBare(d, m, k, p, <<>>, kk)
<1> DEFINE t == d.text
           f == d.layout[k]
<1>1. t \in Seq(Char) /\ Len(t) \in Nat /\ m \in Nat /\ m <= Len(t)
  BY DocText
<1>2. /\ f.colon \in Nat /\ f.start \in Nat /\ d.ends[k] \in Nat /\ f.colon < f.start
      /\ f.start < Len(t) /\ \A q \in f.colon + 1 .. f.start - 1 : t[q] \in Space
      /\ f.val \in Spelling /\ d.fields[k].val \in Seq(Char)
  BY MemberPlaces, MemberGaps, MemberValue
<1>3. \/ Spells(t, f.val, f.start, d.ends[k], d.fields[k].val)
      \/ Bare(t, f.start, d.ends[k], d.fields[k].val)
  BY MemberValue
<1> HIDE DEF t, f
<1>4. Quote \notin Space
  BY Punctuation DEF Gap
<1>5. CASE Lost(d, m, p)
  <2>1. p > m + 1
    BY <1>5 DEF Lost
  <2>2. InBare(d, m, k, p, <<>>, kk)
    BY <1>5 DEF InBare
  <2> QED
    BY <2>1, <2>2, <1>1
<1>6. CASE p \in f.colon + 1 .. f.start /\ kk = d.fields[k].key
  <2>1. CASE p > m
    <3>1. p = m + 1 \/ Lost(d, m, p)
      BY <2>1, <1>1, <1>2, <1>6 DEF Lost, t
    <3>2. InBare(d, m, k, p, <<>>, kk)
      BY <3>1, <1>2, <1>6 DEF InBare, f
    <3> QED
      BY <2>1, <3>2, <1>1
  <2>2. CASE p <= m /\ p \in f.colon + 1 .. f.start - 1
    <3>1. t[p] \in Space
      BY <2>2, <1>2
    <3>2. p + 1 \in f.colon + 1 .. f.start
      BY <2>2, <1>2
    <3>3. InSpace(d, m, k, p + 1, kk)
      BY <3>2, <1>6 DEF InSpace, f
    <3> QED
      BY <2>2, <3>1, <3>3, <1>4 DEF t
  <2>3. CASE p <= m /\ p = f.start /\ Spells(t, f.val, f.start, d.ends[k], d.fields[k].val)
    <3>1. t[p] = Quote
      BY <2>3 DEF Spells
    <3>2. InValue(d, m, k, p + 1, <<>>, kk)
      BY <2>3, <1>2, <1>6, StringBegins DEF InValue, t, f
    <3> QED
      BY <2>3, <3>1, <3>2, <1>4 DEF t
  <2>4. CASE p <= m /\ p = f.start /\ Bare(t, f.start, d.ends[k], d.fields[k].val)
    <3>6. f.start <= d.ends[k]
      BY <2>4 DEF Bare
    <3>1. f.start \in f.start .. d.ends[k]
      BY <3>6, <1>2
    <3>2. t[p] \notin Space \cup {",", "}", Quote}
      BY <3>1, <2>4 DEF Bare
    <3>3. p \in f.start .. d.ends[k] + 1
      BY <3>1, <2>4, <1>2
    <3>4. SubSeq(t, f.start, p - 1) = <<>>
      BY <2>4, <1>2, SubSeqEmpty
    <3>5. InBare(d, m, k, p, <<>>, kk)
      BY <2>4, <3>3, <3>4, <1>6 DEF InBare, t, f
    <3> QED
      BY <2>4, <3>2, <3>5 DEF t
  <2> QED
    BY <1>1, <1>2, <1>3, <1>6, <2>1, <2>2, <2>3, <2>4
<1> QED
  BY <1>5, <1>6 DEF InSpace, f

\* Behind the k-th member, or past the end of a response that was cut.
Behind(d, m, k, p) == p = d.ends[k] + 1 \/ CutShort(d, m, p)

\* The k-th member has been read, or the beginning of it that arrived.
BareRead(d, m, k, p, b, kk) ==
  /\ kk = d.fields[k].key /\ Behind(d, m, k, p) /\ Begins(b, d.fields[k].val)
  /\ d.ends[k] <= m => b = d.fields[k].val

LEMMA BareTurn ==
  ASSUME NEW d \in Docs, NEW k \in 1 .. d.flat, NEW m \in 0 .. Len(d.text), NEW p \in Nat,
         NEW kk, NEW b, InBare(d, m, k, p, b, kk)
  PROVE  /\ p <= m /\ d.text[p] \notin Space \cup {",", "}"} =>
              InBare(d, m, k, p + 1, Append(b, d.text[p]), kk)
         /\ p > m + 1 => m < Len(d.text)
         /\ ~ (p > m + 1) /\ (p <= m => d.text[p] \in Space \cup {",", "}"}) =>
              BareRead(d, m, k, p, b, kk)
<1> DEFINE t == d.text
           f == d.layout[k]
           val == d.fields[k].val
<1>1. t \in Seq(Char) /\ Len(t) \in Nat /\ m \in Nat /\ m <= Len(t)
  BY DocText
<1>2. /\ f.start \in Nat /\ d.ends[k] \in Nat /\ 0 < f.start /\ f.start < Len(t)
      /\ d.ends[k] < Len(t) /\ val \in Seq(Char)
  BY MemberPlaces, MemberValue
<1>3. f.start <= d.ends[k]
  <2>1. CASE Bare(t, f.start, d.ends[k], val)
    BY <2>1 DEF Bare
  <2>2. CASE Spells(t, f.val, f.start, d.ends[k], val)
    <3>1. f.val \in Spelling
      BY MemberValue
    <3>6. Len(f.val.at) > 0 /\ f.val.at[Len(f.val.at)] = d.ends[k]
      BY <2>2 DEF Spells
    <3>7. Len(f.val.at) \in Nat
      BY <3>1, SpellingType
    <3>2. Len(f.val.at) \in 1 .. Len(f.val.at) /\ f.val.at[Len(f.val.at)] = d.ends[k]
      BY <3>6, <3>7
    <3>4. \A j \in DOMAIN f.val.at : f.val.at[j] \in f.start + 1 .. d.ends[k]
      BY <2>2 DEF Spells
    <3>5. Len(f.val.at) \in DOMAIN f.val.at
      <4>1. f.val.at \in Seq(Nat)
        BY <3>1 DEF Spelling
      <4> QED
        BY <4>1, <3>2
    <3>3. d.ends[k] \in f.start + 1 .. d.ends[k]
      BY <3>2, <3>4, <3>5
    <3> QED
      BY <3>3, <1>2
  <2> QED
    BY <2>1, <2>2, MemberValue
<1> HIDE DEF t, f, val
<1>4. CASE Lost(d, m, p)
  <2>1. p > m + 1 /\ m < Len(t)
    BY <1>4 DEF Lost, t
  <2>2. ~ (p <= m)
    BY <2>1, <1>1
  <2> QED
    BY <2>1, <2>2 DEF t
<1>5. CASE kk = d.fields[k].key /\ p = m + 1 /\ p <= f.start /\ b = <<>>
  <2>1. m < Len(t) /\ p > m /\ ~ (p > m + 1) /\ ~ (d.ends[k] <= m) /\ ~ (p <= m)
    BY <1>1, <1>2, <1>3, <1>5
  <2>2. Behind(d, m, k, p)
    BY <2>1 DEF Behind, CutShort, t
  <2>3. Begins(b, val)
    BY <1>2, <1>5 DEF Begins
  <2> QED
    BY <2>1, <2>2, <2>3, <1>5 DEF BareRead, t, val
<1>6. CASE /\ kk = d.fields[k].key /\ Bare(t, f.start, d.ends[k], val)
           /\ p \in f.start .. d.ends[k] + 1 /\ b = SubSeq(t, f.start, p - 1)
  <2>1. /\ val = SubSeq(t, f.start, d.ends[k])
        /\ \A q \in f.start .. d.ends[k] : t[q] \notin Space \cup {",", "}"}
        /\ t[d.ends[k] + 1] \in Space \cup {",", "}"}
    BY <1>6 DEF Bare
  <2>2. CASE p <= m /\ t[p] \notin Space \cup {",", "}"}
    <3>5. p # d.ends[k] + 1
      BY <2>1, <2>2
    <3>6. p \in f.start .. d.ends[k] + 1
      BY <1>6
    <3>1. p \in f.start .. d.ends[k]
      BY <3>5, <3>6, <1>2
    <3>2. p + 1 \in f.start .. d.ends[k] + 1 /\ (p + 1) - 1 = p
      BY <3>1, <1>2
    <3>3. Append(b, t[p]) = SubSeq(t, f.start, p)
      <4>1. PICK c \in f.start - 1 .. Len(t) - 1 : c = p - 1 /\ c + 1 = p
        BY <3>1, <1>1, <1>2
      <4>2. f.start \in 1 .. Len(t)
        BY <1>1, <1>2
      <4>3. Append(SubSeq(t, f.start, c), t[c + 1]) = SubSeq(t, f.start, c + 1)
        BY <4>2, <1>1, OneMore
      <4> QED
        BY <4>1, <4>3, <1>6
    <3>4. InBare(d, m, k, p + 1, Append(b, t[p]), kk)
      BY <3>2, <3>3, <1>6 DEF InBare, t, f, val
    <3>8. p <= m
      BY <2>2
    <3>7. ~ (p > m + 1)
      BY <3>8, <1>1
    <3> QED
      BY <2>2, <3>4, <3>7 DEF t
  <2>3. CASE p <= m => t[p] \in Space \cup {",", "}"}
    <3>1. p \in Nat /\ f.start <= p /\ p <= d.ends[k] + 1
      BY <1>2, <1>6
    <3>2. p > m => m < Len(t)
      BY <3>1, <1>1, <1>2
    <3>7. p <= m => p \notin f.start .. d.ends[k]
      BY <2>1, <2>3
    <3>3. p <= m => p = d.ends[k] + 1
      BY <3>7, <3>1, <1>2
    <3>4. Behind(d, m, k, p)
      BY <3>2, <3>3, <1>1 DEF Behind, CutShort, t
    <3>5. Begins(b, val)
      <4>1. PICK e \in Nat : e = d.ends[k]
        BY <1>2
      <4>2. PICK a \in Nat : a = f.start /\ a # 0
        BY <1>2
      <4>3. PICK q \in Int : q = p - 1 /\ q \in a - 1 .. Len(t) /\ q <= e
        BY <3>1, <4>1, <4>2, <1>1, <1>2, SMTT(20)
      <4>9. ASSUME NEW x \in Int, NEW y \in Int, x <= y
            PROVE  x <= y /\ \A l \in 1 .. x : l \in 1 .. y
        BY <4>9
      <4>4. /\ Len(SubSeq(t, a, q)) = (q + 1) - a
            /\ \A l \in 1 .. (q + 1) - a : SubSeq(t, a, q)[l] = t[(a + l) - 1]
        BY <4>2, <4>3, <1>1, Part, SMTT(20)
      <4>5. e \in a - 1 .. Len(t)
        BY <4>1, <4>2, <1>1, <1>2, <1>3
      <4>6. /\ Len(SubSeq(t, a, e)) = (e + 1) - a
            /\ \A l \in 1 .. (e + 1) - a : SubSeq(t, a, e)[l] = t[(a + l) - 1]
        BY <4>2, <4>5, <1>1, Part, SMTT(20)
      <4>7. b = SubSeq(t, a, q) /\ val = SubSeq(t, a, e)
        BY <4>1, <4>2, <4>3, <2>1, <1>6
      <4>8. (q + 1) - a <= (e + 1) - a /\ \A l \in 1 .. (q + 1) - a : l \in 1 .. (e + 1) - a
        <5>2. q \in Int /\ e \in Int /\ a \in Int /\ q <= e
          BY <4>1, <4>2, <4>3
        <5>1. (q + 1) - a \in Int /\ (e + 1) - a \in Int /\ (q + 1) - a <= (e + 1) - a
          BY <5>2
        <5> QED
          BY <5>1, <4>9
      <4> QED
        BY <4>4, <4>6, <4>7, <4>8 DEF Begins
    <3>6. ~ (p > m + 1) /\ d.ends[k] <= m => b = val
      <4>1. ~ (p > m + 1) /\ d.ends[k] <= m => p - 1 = d.ends[k]
        BY <3>1, <3>3, <1>1, <1>2
      <4> QED
        BY <4>1, <2>1, <1>6
    <3>8. p > m + 1 => m < Len(d.text)
      BY <3>1, <3>2, <1>1 DEF t
    <3>9. kk = d.fields[k].key
      BY <1>6
    <3> QED
      BY <2>3, <3>4, <3>5, <3>6, <3>8, <3>9 DEF BareRead, t, val
  <2> QED
    BY <2>2, <2>3
<1> QED
  BY <1>4, <1>5, <1>6 DEF InBare, t, f, val

\* Behind a member begins the next.
LEMMA NextMember ==
  ASSUME NEW d \in Docs, NEW k \in 1 .. d.flat, NEW m \in 0 .. Len(d.text), NEW p \in Nat,
         Behind(d, m, k, p)
  PROVE  /\ k + 1 <= d.flat => InGap(d, m, k + 1, p)
         /\ k + 1 > d.flat => (k + 1 = d.flat + 1 /\ p > Before(d, k + 1)) \/ CutShort(d, m, p)
<1>1. d.flat \in Nat /\ k \in Nat
  BY DocMembers
<1>2. Before(d, k + 1) = d.ends[k] /\ d.ends[k] \in Nat
  BY MemberWritten
<1>3. CASE CutShort(d, m, p)
  BY <1>3 DEF InGap
<1>4. CASE p = d.ends[k] + 1
  <2>1. p > Before(d, k + 1) /\ (k + 1 > d.flat => k + 1 = d.flat + 1)
    BY <1>1, <1>2, <1>4
  <2>2. ASSUME k + 1 <= d.flat PROVE InGap(d, m, k + 1, p)
    <3>1. PICK l \in 1 .. d.flat : l = k + 1
      BY <1>1, <2>2
    <3>2. Before(d, l) < d.layout[l].open /\ d.layout[l].open \in Nat
      BY MemberPlaces
    <3>3. p \in Before(d, l) + 1 .. d.layout[l].open
      BY <3>1, <3>2, <1>2, <1>4
    <3> QED
      BY <3>1, <3>3 DEF InGap
  <2> QED
    BY <2>1, <2>2
<1> QED
  BY <1>3, <1>4 DEF Behind

-----------------------------------------------------------------------------
\* What is read of a string that is cut.

LEMMA BeginningDecoded ==
  ASSUME NEW u \in Seq(Char), NEW v \in Seq(Char), Begins(u, v)
  PROVE  Begins(Decoded(u), Decoded(v))
<1>1. Len(u) <= Len(v) /\ Alike(u, v, Len(u))
  BY DEF Begins, Alike
<1> QED
  BY <1>1, DecodedBegins

\* A backslash is neither a letter nor padding.
LEMMA BackslashDecoded ==
  ASSUME NEW u \in Seq(Char)
  PROVE  Append(u, Backslash) \in Seq(Char) /\ Decoded(Append(u, Backslash)) = Decoded(u)
<1>1. PICK s \in Seq(Char) : s = Append(u, Backslash)
  <2>1. PICK c \in Char : c = Backslash
    BY CharsPutIn
  <2>2. Append(u, c) \in Seq(Char)
    OBVIOUS
  <2> QED
    BY <2>1, <2>2
<1>2. PICK m \in Nat : m = Len(u)
  OBVIOUS
<1>3. Len(s) = m + 1 /\ s[m + 1] = Backslash /\ \A k \in 1 .. m : s[k] = u[k]
  BY <1>1, <1>2
<1>4. Backslash \notin DOMAIN Letter /\ Backslash # "="
  BY Punctuation
<1>5. PICK p \in Nat : p = Padding(u) - 1 /\ p <= m /\ (\A k \in 1 .. p : u[k] # "=")
                       /\ (p + 1 <= m => u[p + 1] = "=")
  <2>1. Padding(u) \in 1 .. m + 1
    BY <1>2, PaddingIs
  <2>2. PICK p \in Nat : p = Padding(u) - 1 /\ p <= m /\ Padding(u) = p + 1
    BY <2>1, <1>2
  <2> QED
    BY <2>2, <1>2, PaddingIs
<1>6. \A k \in 1 .. p : k \in 1 .. m
  BY <1>5, <1>2
<1>7. LettersIn(s)[p] = LettersIn(u)[p]
  <2>1. p <= Len(s) /\ p <= Len(u)
    BY <1>2, <1>3, <1>5
  <2>2. \A k \in 1 .. p : s[k] = u[k]
    BY <1>3, <1>6
  <2> QED
    BY <2>1, <2>2, LettersAgree
<1>8. CASE p + 1 <= m
  <2>1. p + 1 \in 1 .. Len(s) + 1 /\ (p + 1) - 1 = p /\ p + 1 \in 1 .. m
    BY <1>2, <1>3, <1>8
  <2>2. s[p + 1] = "=" /\ \A k \in 1 .. p : s[k] # "="
    BY <2>1, <1>3, <1>5, <1>6, <1>8
  <2>3. Padding(s) = p + 1
    BY <2>1, <2>2, PaddingAt
  <2> QED
    BY <2>1, <2>3, <1>1, <1>5, <1>7 DEF Decoded
<1>9. CASE p = m
  <2>1. p + 2 \in 1 .. Len(s) + 1 /\ p + 2 = Len(s) + 1 /\ (p + 2) - 1 = p + 1
        /\ p + 1 \in 1 .. Len(s) /\ (p + 1) - 1 = p
    BY <1>2, <1>3, <1>9
  <2>4. \A k \in 1 .. p + 1 : k \in 1 .. p \/ k = p + 1
    OBVIOUS
  <2>2. \A k \in 1 .. p + 1 : s[k] # "="
    BY <2>4, <1>3, <1>4, <1>5, <1>6, <1>9
  <2>3. Padding(s) = p + 2
    BY <2>1, <2>2, PaddingAt
  <2>5. LettersIn(s)[p + 1] = LettersIn(s)[p]
    <3>1. LettersIn(s)[p + 1] = After(LettersIn(s)[p], s[p + 1])
      BY <2>1, LettersDef DEF Follows
    <3> QED
      BY <3>1, <1>3, <1>4, <1>9 DEF After
  <2> QED
    BY <2>1, <2>3, <2>5, <1>1, <1>5, <1>7 DEF Decoded
<1> QED
  BY <1>2, <1>5, <1>8, <1>9, <1>1

LEMMA BeginsAgree ==
  ASSUME NEW u \in Seq(Char), NEW v \in Seq(Char), NEW w \in Seq(Char), NEW size \in Nat,
         Begins(Decoded(u), Decoded(v)), Begins(Decoded(u), Decoded(w)),
         size <= Len(Decoded(u)) \/ Decoded(u) = Decoded(v)
  PROVE  Agree(v, w, size)
<1>1. Len(Decoded(u)) \in Nat /\ Len(Decoded(v)) \in Nat /\ Len(Decoded(w)) \in Nat
  BY DecodedType
<1>2. PICK a, b, c : a = Decoded(u) /\ b = Decoded(v) /\ c = Decoded(w)
  OBVIOUS
<1>3. /\ Len(a) \in Nat /\ Len(b) \in Nat /\ Len(c) \in Nat /\ Len(a) <= Len(b) /\ Len(a) <= Len(c)
      /\ \A k \in 1 .. Len(a) : b[k] = a[k] /\ c[k] = a[k]
  BY <1>1, <1>2 DEF Begins
<1>4. SUFFICES ASSUME Len(b) >= size
               PROVE  Len(c) >= size /\ \A k \in 1 .. size : b[k] = c[k]
  BY <1>2 DEF Agree
<1>5. size <= Len(a)
  BY <1>2, <1>3, <1>4
<1>6. Len(c) >= size /\ \A k \in 1 .. size : k \in 1 .. Len(a)
  BY <1>3, <1>5
<1> QED
  BY <1>3, <1>6

\* Where a string ends or is cut, its beginning is read, and besides it only what
\* does not count, or comes behind what is needed.
LEMMA SpelledAgrees ==
  ASSUME NEW t, NEW w, NEW val, NEW first, NEW last, NEW m, NEW p, NEW b, NEW size \in Nat,
         StringAt(t, w, val, first, last, m, p, b),
         \A j \in 1 .. Len(w.at) - 1 : Unicode(t, w.at[j]) =>
            size <= Len(Decoded(SubSeq(val, 1, w.said[j])))
  PROVE  Agree(Lossy(b), val, size)
<1>1. /\ t \in Seq(Char) /\ w \in Spelling /\ val \in Seq(Char) /\ first \in Nat /\ last \in Nat
      /\ Spells(t, w, first, last, val) /\ b \in Seq(Char) /\ Spelled(t, m, w, val, p, b)
  BY DEF StringAt
<1>2. Lossy(b) \in Seq(Char) /\ Decoded(Lossy(b)) = Decoded(b)
  BY <1>1, LossyType, LossyDecoded
<1>3. Len(w.at) \in Nat
  BY <1>1, SpellingType
<1>4. ASSUME NEW j \in 1 .. Len(w.at)
      PROVE  /\ SubSeq(val, 1, w.said[j]) \in Seq(Char) /\ Begins(SubSeq(val, 1, w.said[j]), val)
             /\ Begins(Decoded(SubSeq(val, 1, w.said[j])), Decoded(val))
  <2>1. PICK a \in 0 .. Len(val) : a = w.said[j]
    BY <1>1, PieceFacts
  <2>2. /\ SubSeq(val, 1, a) \in Seq(Char) /\ Len(SubSeq(val, 1, a)) = a
        /\ \A k \in 1 .. a : SubSeq(val, 1, a)[k] = val[k]
    BY <1>1, Beginning
  <2>3. Begins(SubSeq(val, 1, a), val)
    <3>1. a <= Len(val)
      BY <1>1
    <3> QED
      BY <2>2, <3>1 DEF Begins
  <2> QED
    BY <2>1, <2>2, <2>3, <1>1, BeginningDecoded
<1>5. \A x \in Seq(Char) : Begins(Decoded(x), Decoded(x))
  BY DecodedType DEF Begins
<1>6. CASE Between(w, val, p, b)
  <2>1. PICK j \in 1 .. Len(w.at) : b = SubSeq(val, 1, w.said[j])
    BY <1>6 DEF Between
  <2>2. Begins(Decoded(b), Decoded(val))
    BY <2>1, <1>4
  <2> QED
    BY <2>2, <1>1, <1>2, <1>5, BeginsAgree
<1>7. CASE Stray(t, m, w, val, p, b)
  <2>1. PICK j \in 1 .. Len(w.at) - 1 :
          \/ Unicode(t, w.at[j]) /\ Begins(SubSeq(val, 1, w.said[j]), b)
          \/ b = Append(SubSeq(val, 1, w.said[j]), Backslash)
    BY <1>7 DEF Stray
  <2>2. j \in 1 .. Len(w.at)
    BY <1>3
  <2>3. PICK u \in Seq(Char) : u = SubSeq(val, 1, w.said[j]) /\ Begins(Decoded(u), Decoded(val))
    BY <2>2, <1>4
  <2>4. CASE Unicode(t, w.at[j]) /\ Begins(u, b)
    <3>1. size <= Len(Decoded(u))
      BY <2>3, <2>4
    <3>2. Begins(Decoded(u), Decoded(b))
      BY <2>4, <1>1, BeginningDecoded
    <3> QED
      BY <3>1, <3>2, <2>3, <1>1, <1>2, BeginsAgree
  <2>5. CASE b = Append(u, Backslash)
    <3>1. Decoded(b) = Decoded(u)
      BY <2>5, BackslashDecoded
    <3> QED
      BY <3>1, <2>3, <1>1, <1>2, <1>5, BeginsAgree
  <2> QED
    BY <2>1, <2>3, <2>4, <2>5
<1> QED
  BY <1>1, <1>6, <1>7 DEF Spelled

-----------------------------------------------------------------------------
(***************************************************************************)
(* Each action keeps the parser where the document says.                   *)
(***************************************************************************)

LEMMA Here ==
  ASSUME Inv
  PROVE  /\ doc \in Docs /\ n \in 0 .. Len(doc.text) /\ Len(doc.text) \in Nat
         /\ \A p \in 1 .. n : text[p] = doc.text[p]
         /\ Len(fields) + 1 \in Nat \ {0} /\ doc.flat \in Nat /\ Len(doc.fields) \in Nat
         /\ Len(fields) + 1 <= doc.flat => Len(fields) + 1 \in 1 .. doc.flat
         /\ ~ (Len(fields) + 1 <= doc.flat) => Len(fields) + 1 > doc.flat
<1>1. doc \in Docs /\ n <= Len(doc.text) /\ \A p \in 1 .. n : text[p] = doc.text[p]
  BY DEF Inv, TypeOK
<1>2. n \in Nat /\ fields \in Fields
  BY InvFacts
<1>3. Len(doc.text) \in Nat /\ doc.flat \in Nat /\ Len(doc.fields) \in Nat
  BY <1>1, DocText, DocMembers
<1>4. Len(fields) \in Nat
  BY <1>2 DEF Fields
<1> QED
  BY <1>1, <1>2, <1>3, <1>4

LEMMA NextByte ==
  ASSUME Inv
  PROVE  /\ i \in Nat \ {0} /\ n \in Nat /\ n <= Len(doc.text) /\ Len(doc.text) \in Nat
         /\ i <= n => text[i] = doc.text[i]
         /\ i + 1 <= n => text[i + 1] = doc.text[i + 1]
<1>1. i \in Nat \ {0} /\ n \in Nat
  BY InvFacts
<1>2. n \in 0 .. Len(doc.text) /\ Len(doc.text) \in Nat
  BY Here
<1>3. \A p \in 1 .. n : text[p] = doc.text[p]
  BY Here
<1>4. (i <= n => i \in 1 .. n) /\ (i + 1 <= n => i + 1 \in 1 .. n)
  BY <1>1
<1> QED
  BY <1>1, <1>2, <1>3, <1>4

\* The invariant with the document in sight: nothing else than the last four parts
\* can be disturbed.
Sound == Track /\ FieldsKept /\ KeysInv /\ WholeInv

\* A turn that reads no field and does not end the parse.
LEMMA Turned ==
  ASSUME Inv, Sound, UNCHANGED <<doc, text, fields>>,
         phase' \in {"seek", "gap", "key", "colon", "space", "value", "bare"}, Track'
  PROVE  Sound'
<1>1. n' = n
  BY DEF n
<1>2. FieldsKept'
  BY <1>1 DEF Sound, FieldsKept
<1>3. KeysInv'
  BY DEF Sound, KeysInv
<1>4. WholeInv'
  BY DEF WholeInv
<1> QED
  BY <1>2, <1>3, <1>4 DEF Sound

\* A turn that ends the parse, or comes after it.
LEMMA Ended ==
  ASSUME Inv, Sound, UNCHANGED <<doc, text, fields>>,
         phase' \in {"lookup", "ctx", "state", "panic", "returned"}, WholeInv'
  PROVE  Sound'
<1>1. n' = n
  BY DEF n
<1>2. FieldsKept'
  BY <1>1 DEF Sound, FieldsKept
<1>3. KeysInv'
  BY DEF Sound, KeysInv
<1>4. Track'
  BY DEF Track, Tracks
<1> QED
  BY <1>2, <1>3, <1>4 DEF Sound

LEMMA StartSound == Init => Sound
<1> SUFFICES ASSUME Init PROVE Sound
  OBVIOUS
<1>1. Inv /\ phase = "call" /\ i = 1 /\ fields = <<>>
  BY StartInv DEF Init
<1>2. Len(fields) + 1 = 1 /\ DOMAIN fields = {}
  BY <1>1
<1>3. Track
  <2>1. doc.brace \in 1 .. Len(doc.text) /\ Len(doc.text) \in Nat
    BY <1>1, Here, DocBegins
  <2>2. i \in 1 .. doc.brace
    BY <2>1, <1>1
  <2> QED
    BY <2>2, <1>1, <1>2 DEF Track, Tracks
<1>4. FieldsKept /\ KeysInv
  BY <1>2 DEF FieldsKept, KeysInv
<1>5. WholeInv
  BY <1>1 DEF WholeInv
<1> QED
  BY <1>3, <1>4, <1>5 DEF Sound

LEMMA CallSound == Inv /\ Sound /\ Call => Sound'
<1> SUFFICES ASSUME Inv, Sound, Call PROVE Sound'
  OBVIOUS
<1>1. CASE Lossy(text) # text
  <2>1. phase' = "returned" /\ UNCHANGED <<doc, text, fields>>
    BY <1>1 DEF Call, Return
  <2>2. ~ Whole'
    <3>1. Lossy(doc.text) = doc.text
      BY Here, DocText
    <3> QED
      BY <2>1, <3>1, <1>1 DEF Whole
  <2>3. WholeInv'
    BY <2>2 DEF WholeInv
  <2> QED
    BY <2>1, <2>3, Ended
<1>2. CASE Lossy(text) = text
  <2>1. phase = "call" /\ phase' = "seek" /\ UNCHANGED <<doc, text, i, fields, buf, key>>
    BY <1>2 DEF Call, Goto
  <2>2. i \in 1 .. doc.brace /\ Len(fields) + 1 = 1
    BY <2>1 DEF Sound, Track, Tracks
  <2>3. Track'
    BY <2>1, <2>2 DEF Track, Tracks
  <2> QED
    BY <2>1, <2>3, Turned
<1> QED
  BY <1>1, <1>2

LEMMA SkipToBraceSound == Inv /\ Sound /\ SkipToBrace => Sound'
<1> SUFFICES ASSUME Inv, Sound, SkipToBrace PROVE Sound'
  OBVIOUS
<1>1. /\ phase = "seek" /\ i' = i + 1 /\ UNCHANGED <<doc, text, buf, key, fields>>
      /\ \/ i <= n /\ text[i] # "{" /\ phase' = "seek"
         \/ (i <= n => text[i] = "{") /\ phase' = "gap"
  BY DEF SkipToBrace, Goto, At, later
<1>2. i \in 1 .. doc.brace /\ Len(fields) + 1 = 1 /\ Len(fields') + 1 = 1 /\ n' = n
  BY <1>1 DEF Sound, Track, Tracks, n
<1>3. /\ doc.brace \in 1 .. Len(doc.text) /\ doc.text[doc.brace] = "{"
      /\ \A p \in 1 .. doc.brace - 1 : doc.text[p] # "{"
  <2>1. /\ doc.brace \in 1 .. Len(doc.text) /\ doc.text[doc.brace] = "{"
        /\ \A p \in 1 .. doc.brace - 1 : doc.text[p] \in Space
    BY Here, DocBegins
  <2> QED
    BY <2>1 DEF Space
<1>4. /\ n \in Nat /\ n <= Len(doc.text) /\ Len(doc.text) \in Nat /\ i \in Nat
      /\ i <= n => text[i] = doc.text[i]
  BY NextByte
<1>7. doc.brace \in Nat /\ doc.brace <= Len(doc.text) /\ i <= doc.brace
  <2>1. doc.brace \in 1 .. Len(doc.text)
    BY <1>3
  <2>2. i \in 1 .. doc.brace /\ Len(doc.text) \in Nat
    BY <1>2, <1>4
  <2> QED
    BY <2>1, <2>2
<1>5. CASE i <= n /\ text[i] # "{" /\ phase' = "seek"
  <2>1. i # doc.brace
    BY <1>3, <1>4, <1>5
  <2>2. i + 1 \in 1 .. doc.brace
    BY <2>1, <1>2, <1>4, <1>7
  <2>3. Track'
    BY <2>2, <1>1, <1>2, <1>5 DEF Track, Tracks
  <2> QED
    BY <2>3, <1>1, <1>5, Turned
<1>6. CASE (i <= n => text[i] = "{") /\ phase' = "gap"
  <2>1. i = doc.brace \/ CutShort(doc, n, i + 1)
    <3>1. CASE i <= n
      <4>1. i \notin 1 .. doc.brace - 1
        BY <3>1, <1>3, <1>4, <1>6
      <4> QED
        BY <4>1, <1>2, <1>4, <1>7
    <3>2. CASE i > n
      <4>1. n < Len(doc.text) /\ i + 1 > n
        BY <3>2, <1>4, <1>7
      <4> QED
        BY <4>1 DEF CutShort
    <3> QED
      BY <3>1, <3>2, <1>4
  <2>2. Before(doc, 1) = doc.brace
    BY DEF Before
  <2>3. ASSUME 1 <= doc.flat PROVE InGap(doc, n, 1, i + 1)
    <3>1. CASE i = doc.brace
      <4>1. 1 \in 1 .. doc.flat
        BY <2>3, Here
      <4>2. Before(doc, 1) < doc.layout[1].open /\ doc.layout[1].open \in Nat
        BY <4>1, Here, MemberPlaces
      <4>3. i + 1 \in Before(doc, 1) + 1 .. doc.layout[1].open
        BY <3>1, <4>2, <2>2, <1>4, <1>7
      <4> QED
        BY <4>3 DEF InGap
    <3>2. CASE CutShort(doc, n, i + 1)
      BY <3>2 DEF InGap
    <3> QED
      BY <2>1, <3>1, <3>2
  <2>4. ASSUME 1 > doc.flat
        PROVE  (1 = doc.flat + 1 /\ i + 1 > Before(doc, 1)) \/ CutShort(doc, n, i + 1)
    <3>1. 1 = doc.flat + 1
      BY <2>4, Here
    <3>2. i = doc.brace => i + 1 > Before(doc, 1)
      BY <2>2, <1>4, <1>7
    <3> QED
      BY <2>1, <3>1, <3>2
  <2>5. Track'
    BY <2>3, <2>4, <1>1, <1>2, <1>6 DEF Track, Tracks
  <2> QED
    BY <2>5, <1>1, <1>6, Turned
<1> QED
  BY <1>1, <1>5, <1>6

LEMMA SkipGapSound == Inv /\ Sound /\ SkipGap => Sound'
<1> SUFFICES ASSUME Inv, Sound, SkipGap PROVE Sound'
  OBVIOUS
<1>1. /\ phase = "gap" /\ buf' = <<>> /\ UNCHANGED <<doc, text, key, fields>>
      /\ \/ i <= n /\ text[i] \in Gap /\ phase' = "gap" /\ i' = i + 1
         \/ i <= n /\ text[i] = Quote /\ phase' = "key" /\ i' = i + 1
         \/ (i <= n => text[i] \notin Gap \cup {Quote}) /\ phase' = "lookup" /\ i' = i
  BY SkipGapTurn DEF later
<1>2. PICK k \in Nat \ {0} : k = Len(fields) + 1 /\ k = Len(fields') + 1
  BY <1>1, Here
<1>3. n' = n
  BY <1>1 DEF n
<1>4. /\ doc \in Docs /\ n \in 0 .. Len(doc.text) /\ i \in Nat \ {0} /\ n \in Nat
      /\ i <= n => text[i] = doc.text[i]
  BY Here, NextByte
<1>5. ASSUME k <= doc.flat
      PROVE  /\ phase' = "gap" => InGap(doc, n, k, i')
             /\ phase' = "key" => InKey(doc, n, k, i', <<>>)
             /\ phase' = "lookup" => CutShort(doc, n, i)
  <2>1. k \in 1 .. doc.flat /\ InGap(doc, n, k, i)
    BY <1>1, <1>2, <1>5, Here DEF Sound, Track, Tracks
  <2>2. /\ i <= n /\ doc.text[i] \in Gap => InGap(doc, n, k, i + 1)
        /\ i <= n /\ doc.text[i] = Quote => InKey(doc, n, k, i + 1, <<>>)
        /\ (i <= n => doc.text[i] \notin Gap \cup {Quote}) => CutShort(doc, n, i)
    BY <2>1, <1>4, GapTurn
  <2> QED
    BY <2>2, <1>1, <1>4
<1>6. ASSUME k > doc.flat, doc.flat = Len(doc.fields)
      PROVE  /\ phase' # "key"
             /\ phase' = "gap" => k = doc.flat + 1 /\ i' > Before(doc, k)
             /\ phase' = "lookup" => k = doc.flat + 1 \/ CutShort(doc, n, i)
  <2>1. (k = doc.flat + 1 /\ i > Before(doc, k)) \/ CutShort(doc, n, i)
    BY <1>1, <1>2, <1>6 DEF Sound, Track, Tracks
  <2>2. CASE CutShort(doc, n, i)
    <3>1. ~ (i <= n)
      BY <2>2, <1>4 DEF CutShort
    <3> QED
      BY <2>2, <3>1, <1>1
  <2>3. CASE k = doc.flat + 1 /\ i > Before(doc, k)
    <3>1. Before(doc, k) \in Nat
      <4>1. CASE k = 1
        <5>1. doc.brace \in 1 .. Len(doc.text) /\ Len(doc.text) \in Nat
          BY Here, DocBegins
        <5> QED
          BY <4>1, <5>1 DEF Before
      <4>2. CASE k # 1
        <5>1. PICK j \in 1 .. doc.flat : j = k - 1
          BY <4>2, <2>3, <1>2, Here
        <5>2. doc.ends[j] \in Nat
          BY <1>4, MemberPlaces
        <5> QED
          BY <4>2, <5>1, <5>2 DEF Before
      <4> QED
        BY <4>1, <4>2
    <3>2. i <= n => doc.text[i] \in Space \cup {"}"}
      <4>1. ASSUME i <= n PROVE i \in Before(doc, doc.flat + 1) + 1 .. Len(doc.text)
        BY <4>1, <2>3, <3>1, <1>4, Here
      <4> QED
        BY <4>1, <1>4, <1>6, DocEnds
    <3>3. i <= n => doc.text[i] # Quote
      <4>1. Space \cup {"}"} \subseteq Gap
        BY DEF Gap
      <4> QED
        BY <3>2, <4>1, Punctuation
    <3>4. i + 1 > Before(doc, k)
      BY <2>3, <3>1, <1>4
    <3> QED
      BY <2>3, <3>3, <3>4, <1>1, <1>4
  <2> QED
    BY <2>1, <2>2, <2>3
<1>7. CASE phase' # "lookup"
  <2>1. Track'
    BY <1>1, <1>2, <1>3, <1>5, <1>6, <1>7 DEF Track, Tracks
  <2> QED
    BY <2>1, <1>1, <1>7, Turned
<1>8. CASE phase' = "lookup"
  <2>1. ASSUME Whole', doc.flat = Len(doc.fields) PROVE fields = doc.fields
    <3>1. n = Len(doc.text) /\ ~ CutShort(doc, n, i)
      BY <2>1, <1>1, <1>4 DEF Whole, n, CutShort
    <3>2. k = doc.flat + 1
      BY <1>2, <1>5, <1>6, <1>8, <2>1, <3>1, Here
    <3>3. Len(fields) = Len(doc.fields) /\ fields \in Fields /\ doc.fields \in Fields
      BY <1>2, <2>1, <3>2, Here, InvFacts, DocMembers, SMTT(20) DEF Fields
    <3>4. ASSUME NEW j \in 1 .. Len(fields) PROVE fields[j] = doc.fields[j]
      <4>1. j \in 1 .. doc.flat /\ j <= doc.flat /\ j \in DOMAIN fields
        BY <2>1, <3>3 DEF Fields
      <4>2. doc.ends[j] \in Nat /\ doc.ends[j] < Len(doc.text)
        BY <4>1, <1>4, MemberPlaces
      <4>3. doc.ends[j] <= n
        BY <3>1, <4>2, <1>4
      <4> QED
        BY <4>1, <4>3 DEF Sound, FieldsKept
    <3> QED
      BY <3>3, <3>4, SeqEqual DEF Fields
  <2>2. WholeInv'
    BY <2>1, <1>1, <1>8 DEF WholeInv
  <2> QED
    BY <2>2, <1>1, <1>8, Ended
<1> QED
  BY <1>7, <1>8

\* The strings.
LEMMA KeyString ==
  ASSUME Inv, Sound, phase = "key", NEW k, k = Len(fields) + 1, k <= doc.flat
  PROVE  /\ k \in 1 .. doc.flat
         /\ StringAt(doc.text, doc.layout[k].name, doc.fields[k].key,
                     doc.layout[k].open, doc.layout[k].close, n, i, buf)
<1>1. k \in 1 .. doc.flat /\ doc \in Docs /\ n \in 0 .. Len(doc.text) /\ Len(doc.text) \in Nat
  BY Here
<1>2. InKey(doc, n, k, i, buf)
  BY DEF Sound, Track, Tracks
<1>3. i \in 1 .. n + 1 /\ buf \in Seq(Char)
  <2>1. i \in Nat \ {0} /\ i <= n + 1 /\ n \in Nat /\ buf \in Seq(Char)
    BY InvFacts DEF IndexInv
  <2> QED
    BY <2>1
<1>4. /\ doc.layout[k].open \in Nat /\ doc.layout[k].close \in Nat
      /\ doc.layout[k].close <= Len(doc.text)
  <2>1. /\ doc.layout[k].open \in Nat /\ doc.layout[k].close \in Nat
        /\ doc.layout[k].close < Len(doc.text)
    BY <1>1, MemberPlaces
  <2> QED
    BY <1>1, <2>1
<1>5. doc.text \in Seq(Char)
  BY <1>1, DocText
<1>6. /\ doc.layout[k].name \in Spelling /\ doc.fields[k].key \in Seq(Char)
      /\ Spells(doc.text, doc.layout[k].name, doc.layout[k].open, doc.layout[k].close, doc.fields[k].key)
  BY <1>1, MemberName
<1> QED
  BY <1>1, <1>2, <1>3, <1>4, <1>5, <1>6 DEF InKey, StringAt

LEMMA ValueString ==
  ASSUME Inv, Sound, phase = "value", NEW k, k = Len(fields) + 1, k <= doc.flat
  PROVE  /\ k \in 1 .. doc.flat /\ key = doc.fields[k].key
         /\ StringAt(doc.text, doc.layout[k].val, doc.fields[k].val,
                     doc.layout[k].start, doc.ends[k], n, i, buf)
<1>1. k \in 1 .. doc.flat /\ doc \in Docs /\ n \in 0 .. Len(doc.text) /\ Len(doc.text) \in Nat
  BY Here
<1>2. InValue(doc, n, k, i, buf, key)
  BY DEF Sound, Track, Tracks
<1>3. i \in 1 .. n + 1 /\ buf \in Seq(Char)
  <2>1. i \in Nat \ {0} /\ i <= n + 1 /\ n \in Nat /\ buf \in Seq(Char)
    BY InvFacts DEF IndexInv
  <2> QED
    BY <2>1
<1>4. doc.layout[k].start \in Nat /\ doc.ends[k] \in Nat /\ doc.ends[k] <= Len(doc.text)
  <2>1. doc.layout[k].start \in Nat /\ doc.ends[k] \in Nat /\ doc.ends[k] < Len(doc.text)
    BY <1>1, MemberPlaces
  <2> QED
    BY <1>1, <2>1
<1>5. doc.text \in Seq(Char)
  BY <1>1, DocText
<1>6. doc.layout[k].val \in Spelling /\ doc.fields[k].val \in Seq(Char)
  BY <1>1, MemberValue
<1>7. /\ key = doc.fields[k].key
      /\ Spells(doc.text, doc.layout[k].val, doc.layout[k].start, doc.ends[k], doc.fields[k].val)
      /\ Spelled(doc.text, n, doc.layout[k].val, doc.fields[k].val, i, buf)
  BY <1>2 DEF InValue
<1> QED
  BY <1>1, <1>3, <1>4, <1>5, <1>6, <1>7 DEF StringAt

\* Where the document is no longer flat, nothing is said; where it is, no string
\* stands behind the last member.
LEMMA NoString ==
  ASSUME Inv, Sound, phase \in {"key", "colon", "space", "value", "bare"},
         Len(fields) + 1 > doc.flat
  PROVE  doc.flat # Len(doc.fields)
BY DEF Sound, Track, Tracks

LEMMA StringByteSpells ==
  ASSUME Inv, StringByte, NEW w, NEW val, NEW first, NEW last,
         StringAt(doc.text, w, val, first, last, n, i, buf)
  PROVE  Spelled(doc.text, n, w, val, i', buf')
<1>1. /\ i \in Nat \ {0} /\ n \in Nat
      /\ i <= n => text[i] = doc.text[i]
      /\ i + 1 <= n => text[i + 1] = doc.text[i + 1]
  BY NextByte
<1>2. /\ i <= n /\ text[i] # Quote /\ ~ (Escaped /\ text[i + 1] = "u")
      /\ Escaped => i' = i + 2 /\ buf' = buf \o Unescaped(text[i + 1])
      /\ ~ Escaped => i' = i + 1 /\ buf' = buf \o <<text[i]>>
  BY DEF StringByte, InString
<1>3. CASE Escaped
  <2>1. i <= n /\ doc.text[i] = Backslash /\ text[i + 1] = doc.text[i + 1] /\ doc.text[i + 1] # "u"
    BY <1>1, <1>2, <1>3 DEF Escaped
  <2>2. Spelled(doc.text, n, w, val, i + 2, buf \o Unescaped(doc.text[i + 1]))
    BY <2>1, ShortEscape
  <2> QED
    BY <2>1, <2>2, <1>2, <1>3
<1>4. CASE ~ Escaped
  <2>1. i <= n /\ doc.text[i] # Quote /\ ~ (doc.text[i] = Backslash /\ i + 1 <= n)
    BY <1>1, <1>2, <1>4 DEF Escaped
  <2>2. Spelled(doc.text, n, w, val, i + 1, buf \o <<doc.text[i]>>)
    BY <2>1, PlainByte
  <2> QED
    BY <2>1, <2>2, <1>1, <1>2, <1>4
<1> QED
  BY <1>3, <1>4

LEMMA UnicodeEscapeSpells ==
  ASSUME Inv, UnicodeEscape, NEW w, NEW val, NEW first, NEW last,
         StringAt(doc.text, w, val, first, last, n, i, buf)
  PROVE  phase' = phase /\ Spelled(doc.text, n, w, val, i', buf')
<1>1. /\ i \in Nat \ {0} /\ n \in Nat
      /\ i <= n => text[i] = doc.text[i]
      /\ i + 1 <= n => text[i + 1] = doc.text[i + 1]
  BY NextByte
<1>2. PICK q \in Nat : q = i + 5 /\ i + 1 + HexDigits = q /\ q + 1 = i + 6
  BY <1>1 DEF HexDigits
<1>3. /\ i <= n /\ text[i] # Quote /\ Escaped /\ text[i + 1] = "u"
      /\ q > n => phase' = phase /\ i' = i + 2 /\ buf' = buf
      /\ ~ (q > n) /\ ~ (q < n /\ text[q + 1] = "m2") =>
            phase' = phase /\ i' = q + 1 /\ buf' = buf \o CharOf(SubSeq(text, i + 2, q))
  BY <1>2 DEF UnicodeEscape, InString, Goto
<1>4. i <= n /\ i + 1 <= n /\ doc.text[i] = Backslash /\ doc.text[i + 1] = "u"
  BY <1>1, <1>3 DEF Escaped
<1>5. Lossy(doc.text) = doc.text /\ \A p \in 1 .. n : text[p] = doc.text[p]
  BY Here, DocText
<1>6. /\ i + 5 > n => Spelled(doc.text, n, w, val, i + 2, buf)
      /\ i + 5 <= n => Spelled(doc.text, n, w, val, i + 6, buf \o CharOf(SubSeq(doc.text, i + 2, i + 5)))
      /\ i + 5 < n => doc.text[i + 6] # "m2"
  BY <1>4, <1>5, LongEscape
<1>7. CASE q > n
  BY <1>2, <1>3, <1>6, <1>7
<1>8. CASE ~ (q > n)
  <2>1. q <= n /\ (q < n => q + 1 \in 1 .. n)
    BY <1>1, <1>8
  <2>2. ~ (q < n /\ text[q + 1] = "m2")
    BY <2>1, <1>2, <1>5, <1>6
  <2>3. SubSeq(text, i + 2, q) = SubSeq(doc.text, i + 2, q)
    <3>1. \A l \in 1 .. 4 : (i + 2 + l) - 1 \in 1 .. n
      BY <2>1, <1>1, <1>2
    <3>2. \A l \in 1 .. 4 : text[(i + 2 + l) - 1] = doc.text[(i + 2 + l) - 1]
      BY <3>1, <1>5
    <3>3. /\ SubSeq(text, i + 2, q) = [l \in 1 .. 4 |-> text[(i + 2 + l) - 1]]
          /\ SubSeq(doc.text, i + 2, q) = [l \in 1 .. 4 |-> doc.text[(i + 2 + l) - 1]]
      BY <1>1, <1>2
    <3> QED
      BY <3>2, <3>3
  <2>4. Spelled(doc.text, n, w, val, q + 1, buf \o CharOf(SubSeq(doc.text, i + 2, q)))
    BY <2>1, <1>2, <1>6
  <2> QED
    BY <2>2, <2>3, <2>4, <1>3, <1>8
<1> QED
  BY <1>7, <1>8

\* A turn within a string.
LEMMA InStringSound ==
  ASSUME Inv, Sound, phase \in {"key", "value"}, UNCHANGED <<doc, text, key, fields>>,
         \/ /\ phase' = phase
            /\ \A w, val, first, last :
                 StringAt(doc.text, w, val, first, last, n, i, buf) => Spelled(doc.text, n, w, val, i', buf')
         \/ /\ phase' = "panic"
            /\ \A w, val, first, last : ~ StringAt(doc.text, w, val, first, last, n, i, buf)
  PROVE  Sound'
<1>1. PICK k \in Nat \ {0} : k = Len(fields) + 1 /\ k = Len(fields') + 1
  BY Here
<1>2. n' = n /\ (k <= doc.flat \/ k > doc.flat)
  BY <1>1, Here DEF n
<1>3. k > doc.flat => doc.flat # Len(doc.fields)
  BY <1>1, NoString
<1>4. CASE phase' = phase
  <2>5. \A w, val, first, last :
          StringAt(doc.text, w, val, first, last, n, i, buf) => Spelled(doc.text, n, w, val, i', buf')
    BY <1>4
  <2>1. ASSUME k <= doc.flat, phase = "key" PROVE InKey(doc, n, k, i', buf')
    <3>1. StringAt(doc.text, doc.layout[k].name, doc.fields[k].key,
                   doc.layout[k].open, doc.layout[k].close, n, i, buf)
      BY <1>1, <2>1, KeyString
    <3> QED
      BY <3>1, <2>5 DEF InKey
  <2>2. ASSUME k <= doc.flat, phase = "value" PROVE InValue(doc, n, k, i', buf', key)
    <3>1. key = doc.fields[k].key
          /\ StringAt(doc.text, doc.layout[k].val, doc.fields[k].val,
                      doc.layout[k].start, doc.ends[k], n, i, buf)
      BY <1>1, <2>2, ValueString
    <3>2. Spells(doc.text, doc.layout[k].val, doc.layout[k].start, doc.ends[k], doc.fields[k].val)
      BY <3>1 DEF StringAt
    <3> QED
      BY <3>1, <3>2, <2>5 DEF InValue
  <2>3. Track'
    BY <2>1, <2>2, <1>1, <1>2, <1>3, <1>4 DEF Track, Tracks
  <2> QED
    BY <2>3, <1>4, Turned
<1>5. CASE phase' = "panic" /\ phase' # phase
  <2>5. \A w, val, first, last : ~ StringAt(doc.text, w, val, first, last, n, i, buf)
    BY <1>5
  <2>1. ~ (k <= doc.flat)
    BY <2>5, <1>1, KeyString, ValueString
  <2>2. WholeInv'
    BY <2>1, <1>2, <1>3 DEF WholeInv
  <2> QED
    BY <2>2, <1>5, Ended
<1> QED
  BY <1>4, <1>5

LEMMA StringByteSound == Inv /\ Sound /\ StringByte => Sound'
<1> SUFFICES ASSUME Inv, Sound, StringByte PROVE Sound'
  OBVIOUS
<1>1. phase \in {"key", "value"} /\ phase' = phase /\ UNCHANGED <<doc, text, key, fields>>
  BY DEF StringByte, Quoted
<1>2. \A w, val, first, last :
        StringAt(doc.text, w, val, first, last, n, i, buf) => Spelled(doc.text, n, w, val, i', buf')
  BY StringByteSpells
<1> QED
  BY <1>1, <1>2, InStringSound

LEMMA UnicodeEscapeSound == Inv /\ Sound /\ UnicodeEscape => Sound'
<1> SUFFICES ASSUME Inv, Sound, UnicodeEscape PROVE Sound'
  OBVIOUS
<1>1. phase \in {"key", "value"} /\ phase' \in {phase, "panic"} /\ UNCHANGED <<doc, text, key, fields>>
  BY DEF UnicodeEscape, Quoted, Goto
<1>2. \A w, val, first, last :
        StringAt(doc.text, w, val, first, last, n, i, buf) =>
          phase' = phase /\ Spelled(doc.text, n, w, val, i', buf')
  BY UnicodeEscapeSpells
<1>3. phase # "panic"
  BY <1>1
<1> QED
  BY <1>1, <1>2, <1>3, InStringSound

\* The other parts of a member.
LEMMA SkipToColonSound == Inv /\ Sound /\ SkipToColon => Sound'
<1> SUFFICES ASSUME Inv, Sound, SkipToColon PROVE Sound'
  OBVIOUS
<1>1. /\ phase = "colon" /\ i' = i + 1 /\ UNCHANGED <<doc, text, buf, key, fields>>
      /\ \/ i <= n /\ text[i] # ":" /\ phase' = "colon"
         \/ ~ (i <= n /\ text[i] # ":") /\ phase' = "space"
  BY DEF SkipToColon, Goto, At, later
<1>2. PICK k \in Nat \ {0} : k = Len(fields) + 1 /\ k = Len(fields') + 1
  BY <1>1, Here
<1>3. n' = n /\ (k <= doc.flat \/ k > doc.flat)
  BY <1>1, <1>2, Here DEF n
<1>4. k > doc.flat => doc.flat # Len(doc.fields)
  BY <1>1, <1>2, NoString
<1>5. buf = <<>>
  BY <1>1 DEF Sound, Track, Tracks
<1>6. ASSUME k <= doc.flat
      PROVE  /\ phase' = "colon" => InColon(doc, n, k, i + 1, key)
             /\ phase' = "space" => InSpace(doc, n, k, i + 1, key)
  <2>1. k \in 1 .. doc.flat /\ InColon(doc, n, k, i, key)
    BY <1>1, <1>2, <1>6, Here DEF Sound, Track, Tracks
  <2>2. doc \in Docs /\ n \in 0 .. Len(doc.text) /\ i \in Nat
    BY Here, NextByte
  <2>3. /\ i <= n /\ doc.text[i] # ":" => InColon(doc, n, k, i + 1, key)
        /\ ~ (i <= n /\ doc.text[i] # ":") => InSpace(doc, n, k, i + 1, key)
    BY <2>1, <2>2, ColonTurn
  <2>4. i <= n => text[i] = doc.text[i]
    BY NextByte
  <2> QED
    BY <2>3, <2>4, <1>1
<1>7. Track'
  BY <1>1, <1>2, <1>3, <1>4, <1>5, <1>6 DEF Track, Tracks
<1> QED
  BY <1>1, <1>7, Turned

LEMMA SkipSpaceSound == Inv /\ Sound /\ SkipSpace => Sound'
<1> SUFFICES ASSUME Inv, Sound, SkipSpace PROVE Sound'
  OBVIOUS
<1>1. /\ phase = "space" /\ UNCHANGED <<doc, text, buf, key, fields>>
      /\ \/ i <= n /\ text[i] \in Space /\ phase' = "space" /\ i' = i + 1
         \/ i <= n /\ text[i] = Quote /\ phase' = "value" /\ i' = i + 1
         \/ (i <= n => text[i] \notin Space \cup {Quote}) /\ phase' = "bare" /\ i' = i
  BY SkipSpaceTurn DEF later
<1>2. PICK k \in Nat \ {0} : k = Len(fields) + 1 /\ k = Len(fields') + 1
  BY <1>1, Here
<1>3. n' = n /\ (k <= doc.flat \/ k > doc.flat)
  BY <1>1, <1>2, Here DEF n
<1>4. k > doc.flat => doc.flat # Len(doc.fields)
  BY <1>1, <1>2, NoString
<1>5. buf = <<>>
  BY <1>1 DEF Sound, Track, Tracks
<1>6. ASSUME k <= doc.flat
      PROVE  /\ phase' = "space" => InSpace(doc, n, k, i', key)
             /\ phase' = "value" => InValue(doc, n, k, i', buf, key)
             /\ phase' = "bare" => InBare(doc, n, k, i', buf, key)
  <2>1. k \in 1 .. doc.flat /\ InSpace(doc, n, k, i, key)
    BY <1>1, <1>2, <1>6, Here DEF Sound, Track, Tracks
  <2>2. doc \in Docs /\ n \in 0 .. Len(doc.text) /\ i \in Nat
    BY Here, NextByte
  <2>3. /\ i <= n /\ doc.text[i] \in Space => InSpace(doc, n, k, i + 1, key)
        /\ i <= n /\ doc.text[i] = Quote => InValue(doc, n, k, i + 1, <<>>, key)
        /\ (i <= n => doc.text[i] \notin Space \cup {Quote}) => InBare(doc, n, k, i, <<>>, key)
    BY <2>1, <2>2, SpaceTurn
  <2>4. i <= n => text[i] = doc.text[i]
    BY NextByte
  <2> QED
    BY <2>3, <2>4, <1>1, <1>5
<1>7. Track'
  BY <1>1, <1>2, <1>3, <1>4, <1>5, <1>6 DEF Track, Tracks
<1> QED
  BY <1>1, <1>7, Turned

\* The k-th field, read.
LEMMA FieldAdded ==
  ASSUME Inv, Sound, phase \in {"value", "bare"}, UNCHANGED <<doc, text>>, phase' = "gap",
         NEW v \in Seq(Char), fields' = Append(fields, [key |-> key, val |-> v]),
         NEW k, k = Len(fields) + 1, i' \in Nat,
         k <= doc.flat =>
            /\ key = doc.fields[k].key /\ Behind(doc, n, k, i')
            /\ doc.ends[k] <= n => v = doc.fields[k].val
            /\ key \in {Ctx, State} => Agree(v, doc.fields[k].val, Needed(key))
  PROVE  Sound'
<1>1. n' = n /\ doc' = doc
  BY DEF n
<1>2. /\ doc \in Docs /\ k \in Nat \ {0} /\ n \in 0 .. Len(doc.text)
      /\ doc.flat \in Nat /\ Len(doc.fields) \in Nat /\ doc.flat <= Len(doc.fields)
      /\ k <= doc.flat \/ k > doc.flat
      /\ k <= doc.flat => k \in 1 .. doc.flat
  BY Here, DocMembers
<1>3. /\ fields \in Fields /\ Len(fields) \in Nat /\ k = Len(fields) + 1
      /\ key \in Seq(Char) /\ [key |-> key, val |-> v] \in [key : Seq(Char), val : Seq(Char)]
  BY InvFacts DEF Fields
<1>4. /\ Len(fields') = k /\ DOMAIN fields' = 1 .. k
      /\ fields'[k] = [key |-> key, val |-> v]
      /\ \A j \in 1 .. k : j # k => j \in DOMAIN fields /\ fields'[j] = fields[j]
  BY <1>3 DEF Fields
<1>5. k > doc.flat => doc.flat < Len(doc.fields)
  BY <1>2, NoString
<1>6. FieldsKept'
  <2> SUFFICES ASSUME NEW j \in 1 .. k
               PROVE  /\ j <= doc.flat => /\ fields'[j].key = doc.fields[j].key
                                          /\ doc.ends[j] <= n => fields'[j] = doc.fields[j]
                      /\ j > doc.flat => doc.flat < Len(doc.fields)
    BY <1>1, <1>4 DEF FieldsKept
  <2>1. CASE j # k
    BY <2>1, <1>4 DEF Sound, FieldsKept
  <2>2. CASE j = k
    <3>1. ASSUME k <= doc.flat
          PROVE  /\ fields'[k].key = doc.fields[k].key
                 /\ doc.ends[k] <= n => fields'[k] = doc.fields[k]
      <4>1. doc.fields[k] \in [key : Seq(Char), val : Seq(Char)]
        BY <1>2, <3>1, MemberWritten
      <4>2. key = doc.fields[k].key /\ (doc.ends[k] <= n => v = doc.fields[k].val)
        BY <3>1
      <4> QED
        BY <4>1, <4>2, <1>4
    <3> QED
      BY <2>2, <3>1, <1>5
  <2> QED
    BY <2>1, <2>2
<1>7. KeysInv'
  <2> SUFFICES ASSUME NEW j \in 1 .. k, j <= doc.flat, doc.fields[j].key \in {Ctx, State}
               PROVE  Agree(fields'[j].val, doc.fields[j].val, Needed(doc.fields[j].key))
    BY <1>1, <1>4 DEF KeysInv
  <2>1. CASE j # k
    BY <2>1, <1>4 DEF Sound, KeysInv
  <2>2. CASE j = k
    <3>1. key = doc.fields[k].key /\ Agree(v, doc.fields[k].val, Needed(key))
      BY <2>2
    <3> QED
      BY <2>2, <3>1, <1>4
  <2> QED
    BY <2>1, <2>2
<1>8. Track'
  <2>1. PICK l \in Nat : l = k + 1 /\ l = Len(fields') + 1
    BY <1>2, <1>4
  <2>2. ASSUME k <= doc.flat
        PROVE  /\ l <= doc.flat => InGap(doc, n, l, i')
               /\ l > doc.flat => (l = doc.flat + 1 /\ i' > Before(doc, l)) \/ CutShort(doc, n, i')
    BY <2>1, <2>2, <1>2, NextMember
  <2>3. k > doc.flat => l > doc.flat /\ doc.flat # Len(doc.fields)
    BY <2>1, <1>2, <1>5
  <2> QED
    BY <2>1, <2>2, <2>3, <1>1, <1>2 DEF Track, Tracks
<1>9. WholeInv'
  BY DEF WholeInv
<1> QED
  BY <1>6, <1>7, <1>8, <1>9 DEF Sound

LEMMA StringEndSound == Inv /\ Sound /\ StringEnd => Sound'
<1> SUFFICES ASSUME Inv, Sound, StringEnd PROVE Sound'
  OBVIOUS
<1>1. /\ phase \in {"key", "value"} /\ UNCHANGED <<doc, text>> /\ buf' = <<>> /\ i' = i + 1
      /\ phase = "key" => phase' = "colon" /\ key' = Lossy(buf) /\ fields' = fields
      /\ phase = "value" =>
           phase' = "gap" /\ fields' = Append(fields, [key |-> key, val |-> Lossy(buf)])
      /\ i <= n => text[i] = Quote
  BY DEF StringEnd, Quoted, InString, Goto, Add
<1>2. PICK k \in Nat \ {0} : k = Len(fields) + 1
  BY Here
<1>3. n' = n /\ (k <= doc.flat \/ k > doc.flat)
  BY <1>1, <1>2, Here DEF n
<1>4. /\ doc \in Docs /\ i \in Nat /\ n \in Nat /\ n <= Len(doc.text) /\ Len(doc.text) \in Nat
      /\ n \in 0 .. Len(doc.text)
      /\ i <= n => doc.text[i] = Quote
  BY <1>1, Here, NextByte
<1>5. CASE phase = "key"
  <2>1. ASSUME k <= doc.flat PROVE InColon(doc, n, k, i + 1, Lossy(buf))
    <3>1. /\ k \in 1 .. doc.flat
          /\ StringAt(doc.text, doc.layout[k].name, doc.fields[k].key,
                      doc.layout[k].open, doc.layout[k].close, n, i, buf)
      BY <2>1, <1>2, <1>5, KeyString
    <3>2. \/ i <= n /\ i = doc.layout[k].close /\ buf = doc.fields[k].key
          \/ i = n + 1 /\ n + 1 <= doc.layout[k].close
      BY <3>1, <1>4, StringOver
    <3>3. /\ doc.layout[k].close \in Nat /\ doc.layout[k].colon \in Nat
          /\ doc.layout[k].close < doc.layout[k].colon /\ doc.layout[k].close < Len(doc.text)
      BY <3>1, <1>4, MemberPlaces
    <3>4. CASE i = doc.layout[k].close /\ buf = doc.fields[k].key
      <4>1. i + 1 \in doc.layout[k].close + 1 .. doc.layout[k].colon
        BY <3>3, <3>4
      <4>2. Lossy(buf) = doc.fields[k].key
        BY <3>1, <3>4 DEF StringAt, Spells
      <4> QED
        BY <4>1, <4>2 DEF InColon
    <3>5. CASE i = n + 1 /\ n + 1 <= doc.layout[k].close
      <4>1. n < Len(doc.text) /\ i + 1 > n + 1
        BY <3>3, <3>5, <1>4
      <4> QED
        BY <4>1 DEF InColon, Lost
    <3> QED
      BY <3>2, <3>4, <3>5
  <2>2. k > doc.flat => doc.flat # Len(doc.fields)
    BY <1>2, <1>5, NoString
  <2>3. Track'
    BY <2>1, <2>2, <1>1, <1>2, <1>3, <1>5 DEF Track, Tracks
  <2> QED
    BY <2>3, <1>1, <1>5, Turned
<1>6. CASE phase = "value"
  <2>1. Lossy(buf) \in Seq(Char) /\ i' \in Nat
    BY <1>1, <1>4, InvFacts, LossyType
  <2>2. ASSUME k <= doc.flat
        PROVE  /\ key = doc.fields[k].key /\ Behind(doc, n, k, i')
               /\ doc.ends[k] <= n => Lossy(buf) = doc.fields[k].val
               /\ key \in {Ctx, State} => Agree(Lossy(buf), doc.fields[k].val, Needed(key))
    <3>1. /\ k \in 1 .. doc.flat /\ key = doc.fields[k].key
          /\ StringAt(doc.text, doc.layout[k].val, doc.fields[k].val,
                      doc.layout[k].start, doc.ends[k], n, i, buf)
      BY <2>2, <1>2, <1>6, ValueString
    <3>2. \/ i <= n /\ i = doc.ends[k] /\ buf = doc.fields[k].val
          \/ i = n + 1 /\ n + 1 <= doc.ends[k]
      BY <3>1, <1>4, StringOver
    <3>3. doc.ends[k] \in Nat /\ doc.ends[k] < Len(doc.text)
      BY <3>1, <1>4, MemberPlaces
    <3>4. buf = doc.fields[k].val => Lossy(buf) = doc.fields[k].val
      BY <3>1 DEF StringAt, Spells
    <3>5. Behind(doc, n, k, i') /\ (doc.ends[k] <= n => buf = doc.fields[k].val)
      <4>1. CASE i = doc.ends[k] /\ buf = doc.fields[k].val
        BY <4>1, <1>1 DEF Behind
      <4>2. CASE i = n + 1 /\ n + 1 <= doc.ends[k]
        <5>1. n < Len(doc.text) /\ i + 1 > n /\ ~ (doc.ends[k] <= n)
          BY <3>3, <4>2, <1>4
        <5> QED
          BY <5>1, <1>1 DEF Behind, CutShort
      <4> QED
        BY <3>2, <4>1, <4>2
    <3>6. ASSUME key \in {Ctx, State} PROVE Agree(Lossy(buf), doc.fields[k].val, Needed(key))
      <4>1. Needed(key) \in Nat
        BY TemplateAssumption DEF Needed
      <4>2. \A j \in 1 .. Len(doc.layout[k].val.at) - 1 : Unicode(doc.text, doc.layout[k].val.at[j]) =>
              Needed(doc.fields[k].key) <= Len(Decoded(SubSeq(doc.fields[k].val, 1, doc.layout[k].val.said[j])))
        <5>1. KeysPlain(doc) /\ doc.fields[k].key \in {Ctx, State}
          BY <3>1, <3>6, <1>4, DocsAssumption
        <5> QED
          BY <3>1, <5>1 DEF KeysPlain
      <4> QED
        BY <3>1, <4>1, <4>2, SpelledAgrees
    <3> QED
      BY <3>1, <3>4, <3>5, <3>6
  <2> QED
    BY <2>1, <2>2, <1>1, <1>2, <1>6, FieldAdded
<1> QED
  BY <1>1, <1>5, <1>6

LEMMA BareByteSound == Inv /\ Sound /\ BareByte => Sound'
<1> SUFFICES ASSUME Inv, Sound, BareByte PROVE Sound'
  OBVIOUS
<1>1. PICK k \in Nat \ {0} : k = Len(fields) + 1
  BY Here
<1>2. /\ doc \in Docs /\ i \in Nat /\ n \in Nat /\ n <= Len(doc.text) /\ Len(doc.text) \in Nat
      /\ n \in 0 .. Len(doc.text)
      /\ i <= n => text[i] = doc.text[i]
      /\ k <= doc.flat \/ k > doc.flat
  BY <1>1, Here, NextByte
<1>3. phase = "bare" /\ UNCHANGED <<doc, text, key>> /\ n' = n
  BY DEF BareByte, n
<1>4. ASSUME k <= doc.flat
      PROVE  /\ k \in 1 .. doc.flat
             /\ i <= n /\ doc.text[i] \notin Space \cup {",", "}"} =>
                  InBare(doc, n, k, i + 1, Append(buf, doc.text[i]), key)
             /\ i > n + 1 => n < Len(doc.text)
             /\ ~ (i > n + 1) /\ (i <= n => doc.text[i] \in Space \cup {",", "}"}) =>
                  BareRead(doc, n, k, i, buf, key)
  <2>1. k \in 1 .. doc.flat /\ InBare(doc, n, k, i, buf, key)
    BY <1>1, <1>3, <1>4, Here DEF Sound, Track, Tracks
  <2>2. doc \in Docs /\ n \in 0 .. Len(doc.text) /\ i \in Nat
    BY <1>2
  <2>3. i <= n /\ doc.text[i] \notin Space \cup {",", "}"} =>
          InBare(doc, n, k, i + 1, Append(buf, doc.text[i]), key)
    BY <2>1, <2>2, BareTurn
  <2>4. i > n + 1 => n < Len(doc.text)
    BY <2>1, <2>2, BareTurn
  <2>5. ~ (i > n + 1) /\ (i <= n => doc.text[i] \in Space \cup {",", "}"}) =>
          BareRead(doc, n, k, i, buf, key)
    BY <2>1, <2>2, BareTurn
  <2> QED
    BY <2>1, <2>3, <2>4, <2>5
<1>5. k > doc.flat => doc.flat # Len(doc.fields)
  BY <1>1, <1>3, NoString
<1>6. CASE i <= n /\ ~ At(Space \cup {",", "}"})
  <2>1. phase' = "bare" /\ i' = i + 1 /\ buf' = Append(buf, text[i]) /\ fields' = fields
        /\ i <= n /\ text[i] \notin Space \cup {",", "}"}
    BY <1>6 DEF BareByte, Goto, At
  <2>2. Track'
    BY <2>1, <1>1, <1>2, <1>3, <1>4, <1>5 DEF Track, Tracks
  <2> QED
    BY <2>1, <2>2, <1>3, Turned
<1>7. CASE ~ (i <= n /\ ~ At(Space \cup {",", "}"})) /\ i > n + 1
  <2>1. phase' = "panic" /\ fields' = fields
    BY <1>7 DEF BareByte, Goto
  <2>2. ASSUME Whole, doc.flat = Len(doc.fields) PROVE FALSE
    <3>1. n = Len(doc.text)
      BY <2>2 DEF Whole, n
    <3>2. k <= doc.flat /\ i > n + 1
      BY <2>2, <1>2, <1>5, <1>7
    <3>3. n < Len(doc.text)
      BY <3>2, <1>4
    <3> QED
      BY <3>1, <3>3, <1>2
  <2>3. WholeInv'
    BY <2>2, <1>3 DEF WholeInv, Whole
  <2> QED
    BY <2>1, <2>3, <1>3, Ended
<1>8. CASE ~ (i <= n /\ ~ At(Space \cup {",", "}"})) /\ ~ (i > n + 1)
  <2>1. /\ phase' = "gap" /\ i' = i /\ fields' = Append(fields, [key |-> key, val |-> buf])
        /\ ~ (i > n + 1)
        /\ i <= n => text[i] \in Space \cup {",", "}"}
    BY <1>8 DEF BareByte, Goto, Add, At
  <2>2. ASSUME k <= doc.flat
        PROVE  /\ key = doc.fields[k].key /\ Behind(doc, n, k, i')
               /\ doc.ends[k] <= n => buf = doc.fields[k].val
               /\ key \in {Ctx, State} => Agree(buf, doc.fields[k].val, Needed(key))
    <3>1. /\ k \in 1 .. doc.flat /\ key = doc.fields[k].key /\ Behind(doc, n, k, i)
          /\ Begins(buf, doc.fields[k].val)
          /\ doc.ends[k] <= n => buf = doc.fields[k].val
      BY <2>1, <2>2, <1>2, <1>4 DEF BareRead
    <3>2. buf \in Seq(Char) /\ doc.fields[k].val \in Seq(Char)
      BY <3>1, <1>2, InvFacts, MemberValue
    <3>3. Begins(Decoded(buf), Decoded(doc.fields[k].val)) /\ Begins(Decoded(buf), Decoded(buf))
      <4>1. Begins(Decoded(buf), Decoded(buf))
        BY <3>2, DecodedType DEF Begins
      <4> QED
        BY <3>1, <3>2, <4>1, BeginningDecoded
    <3>4. Needed(key) \in Nat
      BY TemplateAssumption DEF Needed
    <3>5. Agree(buf, doc.fields[k].val, Needed(key))
      BY <3>2, <3>3, <3>4, BeginsAgree
    <3> QED
      BY <3>1, <3>5, <2>1
  <2>3. buf \in Seq(Char) /\ i' \in Nat
    BY <2>1, <1>2, InvFacts
  <2> QED
    BY <2>1, <2>2, <2>3, <1>1, <1>3, FieldAdded
<1> QED
  BY <1>6, <1>7, <1>8

\* Behind the parse, what was read stays as it is.
LEMMA LookupSound == Inv /\ Sound /\ Lookup => Sound'
<1> SUFFICES ASSUME Inv, Sound, Lookup PROVE Sound'
  OBVIOUS
<1>1. phase = "lookup" /\ UNCHANGED <<doc, text, fields>>
  BY DEF Lookup, Return, Goto
<1>2. CASE Holding(Ctx) = {} \/ Holding(State) = {} \/ \E k \in Registers : Register(k) = {}
  <2>1. phase' = "returned" /\ result' = {}
    BY <1>2 DEF Lookup, Return
  <2>2. TemplateOf(fields) = {}
    <3>1. Holding(Ctx) = Members(fields, Ctx) /\ Holding(State) = Members(fields, State)
      BY DEF Holding, Members
    <3>2. CASE Members(fields, Ctx) = {} \/ Members(fields, State) = {}
      <4>1. KeysOf(fields) = {}
        BY <3>2 DEF KeysOf
      <4> QED
        BY <4>1 DEF TemplateOf
    <3>3. CASE \E k \in Registers : Register(k) = {}
      <4>1. \A k : Register(k) = Number(fields, k)
        BY DEF Register, Number, Get, LastMember, Holding, Members
      <4> QED
        BY <3>3, <4>1 DEF TemplateOf
    <3> QED
      BY <3>1, <3>2, <3>3, <1>2
  <2>3. WholeInv'
    BY <2>1, <2>2, <1>1 DEF Sound, WholeInv, Whole
  <2> QED
    BY <2>1, <2>3, <1>1, Ended
<1>3. CASE ~ (Holding(Ctx) = {} \/ Holding(State) = {} \/ \E k \in Registers : Register(k) = {})
  <2>1. phase' = "ctx"
    BY <1>3 DEF Lookup, Goto
  <2>2. WholeInv'
    BY <2>1, <1>1 DEF Sound, WholeInv, Whole
  <2> QED
    BY <2>1, <2>2, <1>1, Ended
<1> QED
  BY <1>2, <1>3

LEMMA DecodeByteSound == Inv /\ Sound /\ DecodeByte => Sound'
<1> SUFFICES ASSUME Inv, Sound, DecodeByte PROVE Sound'
  OBVIOUS
<1>1. phase \in {"ctx", "state"} /\ phase' = phase /\ UNCHANGED <<doc, text, fields>>
  BY DEF DecodeByte, Decoding
<1>2. WholeInv'
  BY <1>1 DEF Sound, WholeInv, Whole
<1> QED
  BY <1>1, <1>2, Ended

LEMMA CtxDecodedSound == Inv /\ Sound /\ CtxDecoded => Sound'
<1> SUFFICES ASSUME Inv, Sound, CtxDecoded PROVE Sound'
  OBVIOUS
<1>1. phase = "ctx" /\ ~ InData /\ UNCHANGED <<doc, text, fields>>
  BY DEF CtxDecoded, Return, Goto
<1>2. CASE LongEnough(acc.out, CtxSize)
  <2>1. phase' = "state"
    BY <1>2 DEF CtxDecoded, Goto
  <2>2. WholeInv'
    BY <2>1, <1>1 DEF Sound, WholeInv, Whole
  <2> QED
    BY <2>1, <2>2, <1>1, Ended
<1>3. CASE ~ LongEnough(acc.out, CtxSize)
  <2>1. phase' = "returned" /\ result' = {}
    BY <1>3 DEF CtxDecoded, Return
  <2>2. acc.out = Decoded(LastMember(fields, Ctx))
    BY <1>1, DecodedHere DEF Inv, DecodeInv, Decoding
  <2>3. Len(Decoded(LastMember(fields, Ctx))) < CtxSize
    <3>1. Len(acc.out) \in Nat /\ CtxSize \in Nat
      BY TemplateAssumption DEF Inv, TypeOK
    <3> QED
      BY <2>2, <3>1, <1>3 DEF LongEnough
  <2>4. KeysOf(fields) = {}
    BY <2>3 DEF KeysOf
  <2>5. TemplateOf(fields) = {}
    BY <2>4 DEF TemplateOf
  <2>6. WholeInv'
    BY <2>1, <2>5, <1>1 DEF Sound, WholeInv, Whole
  <2> QED
    BY <2>1, <2>6, <1>1, Ended
<1> QED
  BY <1>2, <1>3

LEMMA StateDecodedSound == Inv /\ Sound /\ StateDecoded => Sound'
<1> SUFFICES ASSUME Inv, Sound, StateDecoded PROVE Sound'
  OBVIOUS
<1>1. phase = "state" /\ Return(TemplateOf(fields))
  BY StateBuilds DEF StateDecoded
<1>2. phase' = "returned" /\ result' = TemplateOf(fields) /\ UNCHANGED <<doc, text, fields>>
  BY <1>1 DEF Return
<1>3. WholeInv'
  BY <1>1, <1>2 DEF Sound, WholeInv, Whole
<1> QED
  BY <1>2, <1>3, Ended

LEMMA UnwindSound == Inv /\ Sound /\ Unwind => Sound'
<1> SUFFICES ASSUME Inv, Sound, Unwind PROVE Sound'
  OBVIOUS
<1>1. phase = "panic" /\ phase' = "returned" /\ UNCHANGED <<doc, text, fields>>
  BY DEF Unwind, Return
<1>2. WholeInv'
  BY <1>1 DEF Sound, WholeInv, Whole
<1> QED
  BY <1>1, <1>2, Ended

LEMMA NextSound == Inv /\ Sound /\ [Next]_vars => Sound'
<1> SUFFICES ASSUME Inv, Sound, [Next]_vars PROVE Sound'
  OBVIOUS
<1>1. CASE UNCHANGED vars
  BY <1>1 DEF vars, Sound, Track, FieldsKept, KeysInv, WholeInv, Whole, n
<1> QED
  BY <1>1, CallSound, SkipToBraceSound, SkipGapSound, StringByteSound, UnicodeEscapeSound,
     StringEndSound, SkipToColonSound, SkipSpaceSound, BareByteSound, LookupSound,
     DecodeByteSound, CtxDecodedSound, StateDecodedSound, UnwindSound
  DEF Next, Step, Returned

-----------------------------------------------------------------------------
(***************************************************************************)
(* What the caller gets.                                                   *)
(***************************************************************************)

LEMMA LastMemberAt ==
  ASSUME NEW fs \in Fields, NEW k, Members(fs, k) # {}
  PROVE  \E j \in 1 .. Len(fs) :
            j = Max(Members(fs, k)) /\ fs[j].key = k /\ fs[j].val \in Seq(Char)
<1>1. Len(fs) \in Nat /\ DOMAIN fs = 1 .. Len(fs)
  BY DEF Fields
<1>2. /\ Members(fs, k) \in SUBSET Nat
      /\ \A j \in Members(fs, k) : j \in 1 .. Len(fs) /\ fs[j].key = k
  BY <1>1 DEF Members
<1>3. PICK S \in SUBSET Nat : S = Members(fs, k)
  BY <1>2
<1>4. Max(S) \in S
  <2>1. S # {} /\ \A y \in S : y <= Len(fs)
    BY <1>1, <1>2, <1>3
  <2> QED
    BY <2>1, <1>1, GreatestOf
<1>5. PICK j \in 1 .. Len(fs) : j = Max(Members(fs, k)) /\ fs[j].key = k
  BY <1>2, <1>3, <1>4
<1>6. fs[j] \in [key : Seq(Char), val : Seq(Char)]
  BY ElementOfSeq DEF Fields
<1> QED
  BY <1>5, <1>6

\* In a flat document, the field read last under the key of the tables or of the
\* state is the only one the document has under it.
LEMMA OnlyMember ==
  ASSUME Inv, Sound, doc.flat = Len(doc.fields), NEW k \in {Ctx, State}, Members(fields, k) # {}
  PROVE  /\ Members(doc.fields, k) # {} /\ LastMember(doc.fields, k) \in Seq(Char)
         /\ Agree(LastMember(fields, k), LastMember(doc.fields, k), Needed(k))
<1>1. /\ doc \in Docs /\ fields \in Fields /\ doc.fields \in Fields
      /\ Len(fields) \in Nat /\ Len(doc.fields) \in Nat
  <2>1. doc \in Docs /\ fields \in Fields
    BY Here, InvFacts
  <2>2. doc.fields \in Fields /\ Len(doc.fields) \in Nat
    BY <2>1, DocMembers
  <2>3. Len(fields) \in Nat
    BY <2>1 DEF Fields
  <2> QED
    BY <2>1, <2>2, <2>3
<1>2. DOMAIN fields = 1 .. Len(fields) /\ DOMAIN doc.fields = 1 .. Len(doc.fields)
  BY <1>1 DEF Fields
<1>3. PICK j \in 1 .. Len(fields) : j = Max(Members(fields, k)) /\ fields[j].key = k
  BY <1>1, LastMemberAt
<1>4. j \in 1 .. Len(doc.fields) /\ j <= doc.flat /\ doc.fields[j].key = k
  <2>1. /\ j <= doc.flat => fields[j].key = doc.fields[j].key
        /\ j > doc.flat => doc.flat < Len(doc.fields)
    BY <1>2 DEF Sound, FieldsKept
  <2>2. j <= doc.flat
    BY <2>1, <1>1
  <2> QED
    BY <2>1, <2>2, <1>1, <1>3
<1>5. Agree(fields[j].val, doc.fields[j].val, Needed(k))
  BY <1>2, <1>4 DEF Sound, KeysInv
<1>9. Members(doc.fields, k) # {}
  BY <1>2, <1>4 DEF Members
<1>6. PICK l \in 1 .. Len(doc.fields) :
        l = Max(Members(doc.fields, k)) /\ doc.fields[l].key = k /\ doc.fields[l].val \in Seq(Char)
  BY <1>1, <1>9, LastMemberAt
<1>7. j = l
  <2>1. KeysPlain(doc)
    BY <1>1, DocsAssumption
  <2> QED
    BY <2>1, <1>2, <1>4, <1>6 DEF KeysPlain
<1> QED
  BY <1>3, <1>5, <1>6, <1>7, <1>9 DEF LastMember

\* Keys made of bytes that agree as far as they are needed.
LEMMA SameParts ==
  ASSUME NEW a \in Seq(0 .. 255), NEW b \in Seq(0 .. 255), NEW p \in Nat \ {0}, NEW q \in Nat,
         \A k \in p .. q : a[k] = b[k]
  PROVE  SubSeq(a, p, q) = SubSeq(b, p, q)
<1>1. /\ SubSeq(a, p, q) = [k \in 1 .. (1 + q - p) |-> a[k + p - 1]]
      /\ SubSeq(b, p, q) = [k \in 1 .. (1 + q - p) |-> b[k + p - 1]]
  OBVIOUS
<1>2. \A k \in 1 .. (1 + q - p) : k + p - 1 \in p .. q
  OBVIOUS
<1>3. \A k \in 1 .. (1 + q - p) : a[k + p - 1] = b[k + p - 1]
  BY <1>2
<1> QED
  BY <1>1, <1>3

LEMMA KeysOfCut ==
  ASSUME Inv, Sound, doc.flat = Len(doc.fields), NEW x \in KeysOf(fields)
  PROVE  \E e \in KeysOf(doc.fields) :
            x.st = e.st /\ SubSeq(x.ctx, 1, CtxSize) = SubSeq(e.ctx, 1, CtxSize)
<1>1. /\ Members(fields, Ctx) # {} /\ Members(fields, State) # {}
      /\ ~ (Len(Decoded(LastMember(fields, Ctx))) < CtxSize)
      /\ ~ (Len(Decoded(LastMember(fields, State))) < StateSize)
      /\ x = [ctx |-> Decoded(LastMember(fields, Ctx)),
              st  |-> [off \in Slots |-> SubSeq(Decoded(LastMember(fields, State)),
                                StateSize - off + 1, StateSize - off + 4)]]
  BY DEF KeysOf
<1>2. /\ Members(doc.fields, Ctx) # {} /\ LastMember(doc.fields, Ctx) \in Seq(Char)
      /\ Agree(LastMember(fields, Ctx), LastMember(doc.fields, Ctx), Needed(Ctx))
  BY <1>1, OnlyMember
<1>3. /\ Members(doc.fields, State) # {} /\ LastMember(doc.fields, State) \in Seq(Char)
      /\ Agree(LastMember(fields, State), LastMember(doc.fields, State), Needed(State))
  BY <1>1, OnlyMember
<1>4. Needed(Ctx) = CtxSize /\ Needed(State) = StateSize
  BY DEF Needed, Ctx, State
<1>5. CtxSize \in Nat \ {0} /\ StateSize \in Nat \ {0} /\ Slots \subseteq 4 .. StateSize
  BY TemplateAssumption
<1>6. LastMember(fields, Ctx) \in Seq(Char) /\ LastMember(fields, State) \in Seq(Char)
  BY <1>1, LastMemberType, InvFacts
<1>7. PICK a \in Seq(0 .. 255) : a = Decoded(LastMember(fields, Ctx))
  BY <1>6, DecodedType
<1>8. PICK b \in Seq(0 .. 255) : b = Decoded(LastMember(doc.fields, Ctx))
  BY <1>2, DecodedType
<1>9. PICK c \in Seq(0 .. 255) : c = Decoded(LastMember(fields, State))
  BY <1>6, DecodedType
<1>10. PICK d \in Seq(0 .. 255) : d = Decoded(LastMember(doc.fields, State))
  BY <1>3, DecodedType
<1>11. Len(a) \in Nat /\ Len(b) \in Nat /\ Len(c) \in Nat /\ Len(d) \in Nat
  OBVIOUS
<1>12. Len(b) >= CtxSize /\ \A k \in 1 .. CtxSize : a[k] = b[k]
  <2>1. Len(a) >= CtxSize
    BY <1>1, <1>5, <1>7, <1>11
  <2> QED
    BY <2>1, <1>2, <1>4, <1>7, <1>8 DEF Agree
<1>13. Len(d) >= StateSize /\ \A k \in 1 .. StateSize : c[k] = d[k]
  <2>1. Len(c) >= StateSize
    BY <1>1, <1>5, <1>9, <1>11
  <2> QED
    BY <2>1, <1>3, <1>4, <1>9, <1>10 DEF Agree
<1>14. SubSeq(a, 1, CtxSize) = SubSeq(b, 1, CtxSize)
  BY <1>5, <1>12, SameParts
<1>15. ASSUME NEW off \in Slots
       PROVE  SubSeq(c, StateSize - off + 1, StateSize - off + 4)
                = SubSeq(d, StateSize - off + 1, StateSize - off + 4)
  <2>1. PICK p \in Nat \ {0}, q \in Nat :
          p = StateSize - off + 1 /\ q = StateSize - off + 4 /\ q <= StateSize
    BY <1>5
  <2>2. \A k \in p .. q : k \in 1 .. StateSize
    BY <2>1, <1>5
  <2>3. \A k \in p .. q : c[k] = d[k]
    BY <2>2, <1>13
  <2>4. SubSeq(c, p, q) = SubSeq(d, p, q)
    BY <2>3, SameParts
  <2> QED
    BY <2>1, <2>4
<1> DEFINE words(y) == [off \in Slots |-> SubSeq(y, StateSize - off + 1, StateSize - off + 4)]
<1>16. words(c) = words(d)
  BY <1>15
<1> HIDE DEF words
<1>17. ~ (Len(b) < CtxSize) /\ ~ (Len(d) < StateSize)
  BY <1>5, <1>11, <1>12, <1>13
<1>18. KeysOf(doc.fields) = {[ctx |-> b, st |-> words(d)]}
  BY <1>2, <1>3, <1>8, <1>10, <1>17 DEF KeysOf, words
<1>19. x = [ctx |-> a, st |-> words(c)]
  BY <1>1, <1>7, <1>9 DEF words
<1>20. PICK e : e = [ctx |-> b, st |-> words(d)]
  OBVIOUS
<1>21. e \in KeysOf(doc.fields) /\ e.ctx = b /\ e.st = words(d)
  BY <1>18, <1>20
<1>22. x.ctx = a /\ x.st = words(c)
  BY <1>19
<1>23. x.st = e.st /\ SubSeq(x.ctx, 1, CtxSize) = SubSeq(e.ctx, 1, CtxSize)
  BY <1>14, <1>16, <1>21, <1>22
<1> QED
  BY <1>21, <1>23

LEMMA SoundKeys == Inv /\ Sound => KeysIntact
<1> SUFFICES ASSUME Inv, Sound, doc.flat = Len(doc.fields), NEW t \in result
             PROVE  \E e \in doc.keys :
                      t.st = e.st /\ SubSeq(t.ctx, 1, CtxSize) = SubSeq(e.ctx, 1, CtxSize)
  BY DEF KeysIntact
<1>1. t \in TemplateOf(fields)
  BY DEF Inv, DecodeInv
<1>2. PICK x \in KeysOf(fields) : t.ctx = x.ctx /\ t.st = x.st
  BY <1>1 DEF TemplateOf
<1>3. doc.keys = KeysOf(doc.fields)
  BY Here, DocsAssumption
<1> QED
  BY <1>2, <1>3, KeysOfCut

LEMMA SoundDocs == Inv /\ Sound => WholeDocsLoad
<1> SUFFICES ASSUME Inv, Sound, phase = "returned", Whole, doc.flat = Len(doc.fields)
             PROVE  result = doc.expect
  BY DEF WholeDocsLoad
<1>1. fields = doc.fields /\ result = TemplateOf(fields)
  BY DEF Sound, WholeInv
<1>2. doc.expect = TemplateOf(doc.fields)
  BY Here, DocsAssumption
<1> QED
  BY <1>1, <1>2

LEMMA SoundAlways == Spec => [](Inv /\ Sound)
<1>1. Init => Inv /\ Sound
  BY StartInv, StartSound
<1>2. Inv /\ Sound /\ [Next]_vars => (Inv /\ Sound)'
  BY NextInv, NextSound
<1> QED
  BY <1>1, <1>2, PTL DEF Spec

\* Wherever the response was cut, what parse_flat_json reads of the flat members is
\* what they say: a member that arrived in full is a field with its key and value,
\* one that did not a field with its key, and nothing is read that is not there.
THEOREM CutKeepsFields == Spec => []FieldsKept
<1>1. Inv /\ Sound => FieldsKept
  BY DEF Sound
<1> QED
  BY <1>1, SoundAlways, PTL

\* From a flat document that arrived in full, template_from_json makes the template
\* that its members describe by the standards, or none where a part is missing, is
\* too short or is no number; and no panic is met on the way.
THEOREM FlatDocsLoad == Spec => []WholeDocsLoad
<1>1. Inv /\ Sound => WholeDocsLoad
  BY SoundDocs
<1> QED
  BY <1>1, SoundAlways, PTL

\* A flat document in which the tables and the state stand once, and are written
\* without \u escapes before the bytes that count, never yields a template with other
\* tables or another state, wherever the response was cut.
THEOREM CutKeepsKeys == Spec => []KeysIntact
<1>1. Inv /\ Sound => KeysIntact
  BY SoundKeys
<1> QED
  BY <1>1, SoundAlways, PTL
===============================================================================
