---------------------------- MODULE Frames_proofs ----------------------------
(***************************************************************************)
(* Proofs that the scan for LL.control finds what a search byte by byte    *)
(* finds, in every text, and that what is proved of the parts of Frames    *)
(* holds of the whole.                                                     *)
(***************************************************************************)
EXTENDS Frames, SequenceTheorems, WellFoundedInduction, TLAPS

-----------------------------------------------------------------------------
(* The first of a set of positions                                          *)

\* A set of naturals has a least one.
LEMMA Least ==
    ASSUME NEW T, T \subseteq Nat, T # {}
    PROVE  Min(T) \in T /\ \A n \in T : Min(T) <= n
<1> DEFINE R == OpToRel(<, Nat)
<1>1. IsWellFoundedOn(R, Nat)
  BY NatLessThanWellFounded
<1>2. \A x, y \in Nat : <<y, x>> \in R <=> y < x
  BY DEF OpToRel
<1> HIDE DEF R
<1>3. PICK x \in T : \A y \in T : ~(<<y, x>> \in R)
  BY <1>1, WFMin
<1>4. \A y \in T : x <= y
  <2> SUFFICES ASSUME NEW y \in T PROVE x <= y
    OBVIOUS
  <2>1. x \in Nat /\ y \in Nat /\ ~(<<y, x>> \in R)
    BY <1>3
  <2>2. ~(y < x)
    BY <1>2, <2>1
  <2> QED BY <2>1, <2>2
<1> QED BY <1>4 DEF Min

\* What First is of a set of positions: none, or the least.
LEMMA FirstOf ==
    ASSUME NEW T, T \subseteq Nat \ {0}
    PROVE  /\ First(T) \in Nat
           /\ First(T) = 0 <=> T = {}
           /\ First(T) # 0 => First(T) \in T /\ \A n \in T : First(T) <= n
<1>1. CASE T = {}
  BY <1>1 DEF First
<1>2. CASE T # {}
  <2>1. Min(T) \in T /\ \A n \in T : Min(T) <= n
    BY <1>2, Least
  <2> QED BY <1>2, <2>1 DEF First
<1> QED BY <1>1, <1>2

\* A position with no other before it is the first.
LEMMA IsFirst ==
    ASSUME NEW T, T \subseteq Nat \ {0}, NEW m \in T, \A n \in T : m <= n
    PROVE  First(T) = m
<1>1. First(T) \in T /\ First(T) <= m
  BY FirstOf
<1>2. m <= First(T) /\ m \in Nat /\ First(T) \in Nat
  BY <1>1
<1> QED BY <1>1, <1>2

-----------------------------------------------------------------------------
(* Words                                                                    *)

Needles == {QUOTE, COLON, BACKSLASH}

\* A bit of the exclusive or, in its place.
BitOf(a, b, k) == k * (((a \div k) + (b \div k)) % 2)

\* It is set or not.
LEMMA XorBit ==
    ASSUME NEW a \in Nat, NEW b \in Nat, NEW k \in {1, 2, 4, 8, 16, 32, 64, 128}
    PROVE  BitOf(a, b, k) \in {0, k}
<1>1. a \div k \in Int /\ b \div k \in Int
  OBVIOUS
<1> DEFINE m == ((a \div k) + (b \div k)) % 2
<1>2. m = 0 \/ m = 1
  BY <1>1
<1> HIDE DEF m
<1>3. k * m = 0 \/ k * m = k
  BY <1>2
<1> QED BY <1>3 DEF BitOf, m

\* The exclusive or of two bytes is one.
LEMMA XorByte ==
    ASSUME NEW a \in Nat, NEW b \in Nat
    PROVE  Xor(a, b) \in Byte
<1> DEFINE bit(k) == BitOf(a, b, k)
<1>1. /\ bit(1) \in {0, 1} /\ bit(2) \in {0, 2} /\ bit(4) \in {0, 4} /\ bit(8) \in {0, 8}
      /\ bit(16) \in {0, 16} /\ bit(32) \in {0, 32} /\ bit(64) \in {0, 64}
      /\ bit(128) \in {0, 128}
  BY XorBit
<1>2. Xor(a, b) = bit(1) + bit(2) + bit(4) + bit(8) + bit(16) + bit(32) + bit(64) + bit(128)
  BY Zenon DEF Xor, BitOf
<1> HIDE DEF bit
<1> QED BY <1>1, <1>2 DEF Byte

\* A byte gives zero with itself only.
LEMMA XorZero ==
    ASSUME NEW a \in Byte, NEW b \in Needles
    PROVE  XorWith[b][a] \in Byte /\ (XorWith[b][a] = 0 <=> a = b)
<1>0. XorWith[b][a] = Xor(a, b)
  BY DEF XorWith, Needles, Byte
<1>a. a \in Nat /\ 34 \in Nat /\ 58 \in Nat /\ 92 \in Nat
  BY DEF Byte
<1>1. CASE b = 34
  <2>1. Xor(a, 34) \in Byte
    BY <1>a, XorByte, Zenon
  <2>2. Xor(a, 34) = 0 => a = 34
    BY DEF Xor, Byte
  <2>3. Xor(34, 34) = 0
    BY DEF Xor
  <2> QED BY <1>0, <1>1, <2>1, <2>2, <2>3
<1>2. CASE b = 58
  <2>1. Xor(a, 58) \in Byte
    BY <1>a, XorByte, Zenon
  <2>2. Xor(a, 58) = 0 => a = 58
    BY DEF Xor, Byte
  <2>3. Xor(58, 58) = 0
    BY DEF Xor
  <2> QED BY <1>0, <1>2, <2>1, <2>2, <2>3
<1>3. CASE b = 92
  <2>1. Xor(a, 92) \in Byte
    BY <1>a, XorByte, Zenon
  <2>2. Xor(a, 92) = 0 => a = 92
    BY DEF Xor, Byte
  <2>3. Xor(92, 92) = 0
    BY DEF Xor
  <2> QED BY <1>0, <1>3, <2>1, <2>2, <2>3
<1> QED BY <1>1, <1>2, <1>3 DEF Needles, QUOTE, COLON, BACKSLASH

\* zero_byte_mask marks every zero byte, and no byte before the first of them.
LEMMA ZeroMask ==
    ASSUME NEW w \in [1..8 -> Byte]
    PROVE  /\ zero_byte_mask(w) \subseteq 1..8
           /\ \A i \in 1..8 : w[i] = 0 => i \in zero_byte_mask(w)
           /\ \A i \in zero_byte_mask(w) : \E k \in 1..i : w[k] = 0
<1> DEFINE lent(i) == \E k \in 1..(i - 1) : w[k] = 0 /\ \A m \in (k + 1)..(i - 1) : w[m] <= 1
           borrow(i) == IF lent(i) THEN 1 ELSE 0
<1>0. zero_byte_mask(w) = {i \in 1..8 : w[i] < 128 /\ (w[i] - 1 - borrow(i)) % 256 >= 128}
  BY DEF zero_byte_mask
<1>1. \A i \in 1..8 : borrow(i) \in {0, 1}
  BY Zenon
<1>2. ASSUME NEW i \in 1..8, w[i] = 0 PROVE i \in zero_byte_mask(w)
  <2> HIDE DEF borrow, lent
  <2>1. (0 - 1 - borrow(i)) % 256 >= 128
    BY <1>1
  <2> QED BY <1>0, <1>2, <2>1
<1>3. ASSUME NEW i \in zero_byte_mask(w) PROVE \E k \in 1..i : w[k] = 0
  <2>0. i \in 1..8 /\ w[i] \in Byte /\ w[i] < 128 /\ (w[i] - 1 - borrow(i)) % 256 >= 128
    <3> HIDE DEF borrow
    <3> QED BY <1>0, <1>3
  <2>1. CASE lent(i)
    <3>1. PICK k \in 1..(i - 1) : w[k] = 0
      BY <2>1
    <3> QED BY <2>0, <3>1
  <2>2. CASE ~lent(i)
    <3>1. borrow(i) = 0
      BY <2>2
    <3> HIDE DEF borrow, lent
    <3> DEFINE x == w[i]
    <3>2. x \in Byte /\ x < 128 /\ (x - 1 - borrow(i)) % 256 >= 128
      BY <2>0, Zenon
    <3> HIDE DEF x
    <3>3. x = 0
      <4>0. x \in 0..127
        BY <3>2 DEF Byte
      <4>1. (x - 1) % 256 >= 128
        BY <3>1, <3>2, <4>0
      <4>2. x # 0 => (x - 1) % 256 = x - 1
        BY <4>0
      <4> QED BY <4>0, <4>1, <4>2
    <3> QED BY <2>0, <3>3 DEF x
  <2> QED BY <2>1, <2>2
<1> HIDE DEF borrow, lent
<1>4. zero_byte_mask(w) \subseteq 1..8
  BY <1>0
<1> QED BY <1>2, <1>3, <1>4

\* The same of the bytes of a word that are one of two.
EitherMask(w, a, b) ==
    zero_byte_mask([i \in 1..8 |-> XorWith[a][w[i]]]) \cup
    zero_byte_mask([i \in 1..8 |-> XorWith[b][w[i]]])

LEMMA Marks ==
    ASSUME NEW w \in Seq(Byte), Len(w) = 8, NEW a \in Needles, NEW b \in Needles
    PROVE  /\ EitherMask(w, a, b) \subseteq 1..8
           /\ \A i \in 1..8 : w[i] \in {a, b} => i \in EitherMask(w, a, b)
           /\ \A i \in EitherMask(w, a, b) : \E k \in 1..i : w[k] \in {a, b}
<1> DEFINE x(n) == [i \in 1..8 |-> XorWith[n][w[i]]]
<1>0. \A i \in 1..8 : w[i] \in Byte
  BY ElementOfSeq
<1>1. ASSUME NEW n \in Needles
      PROVE  /\ x(n) \in [1..8 -> Byte]
             /\ \A i \in 1..8 : x(n)[i] = 0 <=> w[i] = n
  BY <1>0, XorZero
<1> HIDE DEF x
<1>2. ASSUME NEW n \in Needles
      PROVE  /\ zero_byte_mask(x(n)) \subseteq 1..8
             /\ \A i \in 1..8 : w[i] = n => i \in zero_byte_mask(x(n))
             /\ \A i \in zero_byte_mask(x(n)) : \E k \in 1..i : w[k] = n
  <2>1. /\ zero_byte_mask(x(n)) \subseteq 1..8
        /\ \A i \in 1..8 : x(n)[i] = 0 => i \in zero_byte_mask(x(n))
        /\ \A i \in zero_byte_mask(x(n)) : \E k \in 1..i : x(n)[k] = 0
    BY <1>1, ZeroMask
  <2>2. ASSUME NEW i \in zero_byte_mask(x(n)) PROVE \E k \in 1..i : w[k] = n
    <3>1. PICK k \in 1..i : x(n)[k] = 0
      BY <2>1
    <3>2. k \in 1..8
      BY <2>1
    <3> QED BY <1>1, <3>1, <3>2
  <2> QED BY <1>1, <2>1, <2>2
<1>3. EitherMask(w, a, b) = zero_byte_mask(x(a)) \cup zero_byte_mask(x(b))
  BY DEF EitherMask, x
<1> QED BY <1>2, <1>3

-----------------------------------------------------------------------------
(* Slices                                                                   *)

\* The part of a sequence between two of its positions.
LEMMA Slice ==
    ASSUME NEW s \in Seq(Byte), NEW m \in Nat \ {0}, NEW n \in Nat, n <= Len(s), m <= n + 1
    PROVE  /\ SubSeq(s, m, n) \in Seq(Byte) /\ Len(SubSeq(s, m, n)) = n - m + 1
           /\ \A i \in 1..(n - m + 1) : SubSeq(s, m, n)[i] = s[m + i - 1]
<1>1. \A i \in m..n : s[i] \in Byte
  <2> SUFFICES ASSUME NEW i \in m..n PROVE s[i] \in Byte
    OBVIOUS
  <2>1. i \in 1..Len(s)
    OBVIOUS
  <2> QED BY <2>1, ElementOfSeq
<1>2. m \in Int /\ n \in Int
  OBVIOUS
<1> QED BY <1>1, <1>2, SubSeqProperties

\* The rest of a sequence.
LEMMA RestOf ==
    ASSUME NEW s \in Seq(Byte), NEW m \in Nat \ {0}, m <= Len(s) + 1
    PROVE  /\ From(s, m) \in Seq(Byte) /\ Len(From(s, m)) = Len(s) - m + 1
           /\ \A i \in 1..(Len(s) - m + 1) : From(s, m)[i] = s[m + i - 1]
<1>1. Len(s) \in Nat
  OBVIOUS
<1> QED BY <1>1, Slice DEF From

\* The beginning of a sequence.
LEMMA LimitedTo ==
    ASSUME NEW s \in Seq(Byte), NEW n \in Nat
    PROVE  /\ Limited(s, n) \in Seq(Byte)
           /\ Len(Limited(s, n)) = IF Len(s) < n THEN Len(s) ELSE n
           /\ \A i \in 1..Len(Limited(s, n)) : Limited(s, n)[i] = s[i]
<1> DEFINE e == IF Len(s) < n THEN Len(s) ELSE n
<1>1. e \in Nat /\ e <= Len(s)
  OBVIOUS
<1> HIDE DEF e
<1>2. /\ SubSeq(s, 1, e) \in Seq(Byte) /\ Len(SubSeq(s, 1, e)) = e - 1 + 1
      /\ \A i \in 1..(e - 1 + 1) : SubSeq(s, 1, e)[i] = s[1 + i - 1]
  BY <1>1, Slice
<1>3. Limited(s, n) = SubSeq(s, 1, e)
  BY DEF Limited, e
<1>4. \A i \in 1..e : SubSeq(s, 1, e)[i] = s[i]
  BY <1>1, <1>2
<1>5. Len(SubSeq(s, 1, e)) = e
  BY <1>1, <1>2
<1> QED BY <1>2, <1>3, <1>4, <1>5 DEF e

-----------------------------------------------------------------------------
(* The search by words                                                      *)

\* The positions behind d that hold a byte of S.
Holding(s, d, S) == {i \in (d + 1)..Len(s) : s[i] \in S}

\* find_either finds the first of two bytes, at whatever alignment.
LEMMA FindEither ==
    ASSUME NEW h \in Seq(Byte), NEW a \in Needles, NEW b \in Needles
    PROVE  find_either(h, a, b) = First(Holding(h, 0, {a, b}))
<1> DEFINE T == {i \in 1..Len(h) : h[i] \in {a, b}}
           chunks == Len(h) \div 8
           word(k) == SubSeq(h, 8 * k + 1, 8 * k + 8)
           mask == [k \in 0..(chunks - 1) |-> EitherMask(word(k), a, b)]
           hits == {k \in DOMAIN mask : mask[k] # {}}
           rest == {i \in (8 * chunks + 1)..Len(h) : h[i] \in {a, b}}
<1> SUFFICES find_either(h, a, b) = First(T)
  <2>1. T = Holding(h, 0, {a, b})
    BY DEF Holding
  <2> HIDE DEF T
  <2> QED BY <2>1
<1>0. find_either(h, a, b) = IF hits # {} THEN 8 * Min(hits) + first_mark(mask[Min(hits)])
                             ELSE First(rest)
  BY DEF find_either, EitherMask
<1>1. Len(h) \in Nat /\ chunks \in Nat /\ 8 * chunks <= Len(h)
  OBVIOUS
<1> HIDE DEF chunks
<1>2. ASSUME NEW k \in 0..(chunks - 1)
      PROVE  /\ mask[k] \subseteq 1..8
             /\ \A i \in 1..8 : h[8 * k + i] \in {a, b} => i \in mask[k]
             /\ \A i \in mask[k] : \E j \in 1..i : h[8 * k + j] \in {a, b}
  <2>1. /\ 8 * k + 1 \in Nat \ {0} /\ 8 * k + 8 \in Nat /\ 8 * k + 8 <= Len(h)
        /\ 8 * k + 1 <= 8 * k + 8 + 1
    BY <1>1
  <2>2. /\ word(k) \in Seq(Byte) /\ Len(word(k)) = (8 * k + 8) - (8 * k + 1) + 1
        /\ \A i \in 1..((8 * k + 8) - (8 * k + 1) + 1) : word(k)[i] = h[(8 * k + 1) + i - 1]
    BY <2>1, Slice
  <2>3. Len(word(k)) = 8 /\ \A i \in 1..8 : word(k)[i] = h[8 * k + i]
    <3>1. (8 * k + 8) - (8 * k + 1) + 1 = 8 /\ \A i \in 1..8 : (8 * k + 1) + i - 1 = 8 * k + i
      OBVIOUS
    <3> HIDE DEF word
    <3> QED BY <2>2, <3>1
  <2>4. mask[k] = EitherMask(word(k), a, b)
    OBVIOUS
  <2> HIDE DEF mask, word
  <2>5. /\ EitherMask(word(k), a, b) \subseteq 1..8
        /\ \A i \in 1..8 : word(k)[i] \in {a, b} => i \in EitherMask(word(k), a, b)
        /\ \A i \in EitherMask(word(k), a, b) : \E j \in 1..i : word(k)[j] \in {a, b}
    BY <2>2, <2>3, Marks
  <2>6. ASSUME NEW i \in mask[k] PROVE \E j \in 1..i : h[8 * k + j] \in {a, b}
    <3>1. PICK j \in 1..i : word(k)[j] \in {a, b}
      BY <2>4, <2>5
    <3>2. i \in 1..8
      BY <2>4, <2>5
    <3>3. j \in 1..8
      BY <3>2
    <3> QED BY <2>3, <3>1, <3>3
  <2> QED BY <2>3, <2>4, <2>5, <2>6
<1>3. DOMAIN mask = 0..(chunks - 1)
  OBVIOUS
<1> HIDE DEF mask, word
\* The word of a position, and the position in the word.
<1>4. ASSUME NEW n \in T, n <= 8 * chunks
      PROVE  \E k \in hits : \E j \in mask[k] : n = 8 * k + j
  <2> DEFINE k == (n - 1) \div 8
             j == n - 8 * k
  <2>1. k \in 0..(chunks - 1) /\ j \in 1..8 /\ n = 8 * k + j
    BY <1>1, <1>4
  <2> HIDE DEF k, j
  <2>2. h[8 * k + j] \in {a, b}
    BY <2>1
  <2>3. j \in mask[k]
    BY <1>2, <2>1, <2>2
  <2>4. k \in hits
    BY <1>3, <2>1, <2>3
  <2> QED BY <2>1, <2>3, <2>4
<1>5. CASE hits # {}
  <2> DEFINE k == Min(hits)
             m == Min(mask[k])
  <2>1. k \in hits /\ \A q \in hits : k <= q
    <3>1. hits \subseteq Nat
      BY <1>3
    <3> HIDE DEF hits
    <3> QED BY <1>5, <3>1, Least
  <2>2. k \in 0..(chunks - 1) /\ mask[k] # {}
    BY <1>3, <2>1
  <2>3. m \in mask[k] /\ \A i \in mask[k] : m <= i
    <3> HIDE DEF k, hits
    <3>1. mask[k] \subseteq 1..8
      BY <1>2, <2>2
    <3>2. mask[k] \subseteq Nat
      BY <3>1
    <3> QED BY <2>2, <3>2, Least
  <2>4. find_either(h, a, b) = 8 * k + m
    BY <1>0, <1>5 DEF first_mark
  <2> HIDE DEF k, m, hits
  <2>5. m \in 1..8
    BY <1>2, <2>2, <2>3
  <2>6. h[8 * k + m] \in {a, b}
    <3>1. PICK j \in 1..m : h[8 * k + j] \in {a, b}
      BY <1>2, <2>2, <2>3
    <3>2. j \in 1..8
      BY <2>5
    <3>3. m <= j
      BY <1>2, <2>2, <2>3, <3>1, <3>2
    <3>4. m = j
      BY <2>5, <3>2, <3>3
    <3> QED BY <3>1, <3>4
  <2>7. 8 * k + m \in 1..Len(h)
    BY <1>1, <2>2, <2>5
  <2>8. ASSUME NEW n \in T PROVE 8 * k + m <= n
    <3>1. CASE n > 8 * chunks
      BY <1>1, <2>2, <2>5, <3>1
    <3>2. CASE n <= 8 * chunks
      <4>1. PICK q \in hits : \E j \in mask[q] : n = 8 * q + j
        BY <1>4, <3>2
      <4>2. PICK j \in mask[q] : n = 8 * q + j
        BY <4>1
      <4>3. q \in 0..(chunks - 1)
        BY <1>3 DEF hits
      <4>4. j \in 1..8 /\ k <= q
        BY <1>2, <2>1, <4>3
      <4>5. CASE k = q
        BY <2>3, <2>5, <4>2, <4>3, <4>4, <4>5
      <4>6. CASE k < q
        BY <2>2, <2>5, <4>2, <4>3, <4>4, <4>6
      <4> QED BY <2>2, <4>3, <4>4, <4>5, <4>6
    <3> QED BY <1>1, <3>1, <3>2
  <2>9. 8 * k + m \in T /\ T \subseteq Nat \ {0}
    BY <2>6, <2>7
  <2> HIDE DEF T
  <2>10. First(T) = 8 * k + m
    BY <2>8, <2>9, IsFirst
  <2> QED BY <2>4, <2>10 DEF T
<1>6. CASE hits = {}
  <2>1. \A n \in T : n > 8 * chunks
    <3> HIDE DEF hits
    <3>1. \A n \in T : ~(n <= 8 * chunks)
      BY <1>4, <1>6
    <3> QED BY <1>1, <3>1
  <2>2. T = rest
    <3>1. ASSUME NEW n \in T PROVE n \in rest
      BY <1>1, <2>1
    <3>2. ASSUME NEW n \in rest PROVE n \in T
      BY <1>1
    <3> QED BY <3>1, <3>2
  <2> HIDE DEF hits
  <2>3. find_either(h, a, b) = First(rest)
    BY <1>0, <1>6
  <2> QED BY <2>2, <2>3
<1> QED BY <1>5, <1>6

-----------------------------------------------------------------------------
(* The value                                                                *)

\* t is what a sequence has behind its position d.
Behind(s, d, t) ==
    /\ t \in Seq(Byte) /\ d \in Nat /\ Len(t) \in Nat /\ Len(s) = d + Len(t)
    /\ \A j \in 1..Len(t) : t[j] = s[d + j]

\* What is behind a position of what is behind another.
LEMMA BehindMore ==
    ASSUME NEW s, NEW d, NEW t, Behind(s, d, t), NEW c \in 0..Len(t)
    PROVE  Behind(s, d + c, From(t, c + 1))
<1> DEFINE u == From(t, c + 1)
<1>1. d \in Nat /\ c \in Nat /\ Len(t) \in Nat /\ c <= Len(t) /\ Len(s) = d + Len(t)
  BY DEF Behind
<1>2. t \in Seq(Byte) /\ \A j \in 1..Len(t) : t[j] = s[d + j]
  BY DEF Behind
<1>3. c + 1 \in Nat \ {0} /\ c + 1 <= Len(t) + 1 /\ Len(t) - (c + 1) + 1 = Len(t) - c
  BY <1>1
<1>4. /\ u \in Seq(Byte) /\ Len(u) = Len(t) - c
      /\ \A j \in 1..(Len(t) - c) : u[j] = t[(c + 1) + j - 1]
  BY <1>2, <1>3, RestOf
<1> HIDE DEF u
<1>5. Len(u) \in Nat /\ d + c \in Nat /\ Len(s) = (d + c) + Len(u)
  BY <1>1, <1>4
<1>6. ASSUME NEW j \in 1..Len(u) PROVE u[j] = s[(d + c) + j]
  <2>1. /\ j \in 1..(Len(t) - c) /\ (c + 1) + j - 1 = c + j /\ c + j \in 1..Len(t)
        /\ d + (c + j) = (d + c) + j
    BY <1>1, <1>4
  <2> QED BY <1>2, <1>4, <2>1
<1>7. Behind(s, d + c, u)
  BY <1>4, <1>5, <1>6 DEF Behind
<1> QED BY <1>7 DEF u

\* f is the first place of t that holds one of S, and d + f the first of s behind d.
SameFirst(s, d, t, S, f) ==
    /\ f \in 0..Len(t)
    /\ f # 0 => t[f] = s[d + f] /\ t[f] \in S
    /\ First(Holding(s, d, S)) = IF f = 0 THEN 0 ELSE d + f

\* Where the first of some bytes is, behind a position and from the start.
LEMMA FirstBehind ==
    ASSUME NEW s, NEW d, NEW t, Behind(s, d, t), NEW S
    PROVE  SameFirst(s, d, t, S, First(Holding(t, 0, S)))
<1> DEFINE A == Holding(t, 0, S)
           B == Holding(s, d, S)
           f == First(A)
<1>0. d \in Nat /\ Len(t) \in Nat /\ Len(s) = d + Len(t)
  BY DEF Behind
<1>1. \A j \in 1..Len(t) : t[j] = s[d + j]
  BY DEF Behind
<1>2. \A j \in A : j \in 1..Len(t) /\ t[j] \in S /\ j \in Nat \ {0}
  BY DEF Holding
<1>3. ASSUME NEW j \in A PROVE d + j \in B
  <2>1. d + j \in (d + 1)..Len(s)
    BY <1>0, <1>2
  <2> QED BY <1>1, <1>2, <2>1 DEF Holding
<1>4. ASSUME NEW i \in B PROVE i \in Nat \ {0} /\ i - d \in A
  <2>1. i \in Nat \ {0} /\ i - d \in 1..Len(t) /\ d + (i - d) = i
    BY <1>0 DEF Holding
  <2>2. s[i] \in S /\ t[i - d] = s[i]
    BY <1>1, <2>1 DEF Holding
  <2> QED BY <2>1, <2>2 DEF Holding
<1> HIDE DEF A, B
<1>5. A \subseteq Nat \ {0} /\ B \subseteq Nat \ {0}
  BY <1>2, <1>4
<1>6. CASE f = 0
  <2>1. A = {}
    BY <1>5, <1>6, FirstOf
  <2>2. B = {}
    BY <1>4, <2>1
  <2>3. First(B) = 0
    BY <2>2 DEF First
  <2> QED BY <1>0, <1>6, <2>3 DEF A, B, SameFirst
<1>7. CASE f # 0
  <2>1. f \in A /\ \A j \in A : f <= j
    BY <1>5, <1>7, FirstOf
  <2> HIDE DEF f
  <2>2. f \in Nat /\ f \in 1..Len(t) /\ t[f] \in S
    BY <1>2, <2>1
  <2>3. ASSUME NEW i \in B PROVE d + f <= i
    <3>1. f <= i - d /\ i \in Nat
      BY <1>4, <2>1
    <3> QED BY <1>0, <2>2, <3>1
  <2>4. d + f \in B
    BY <1>3, <2>1
  <2>5. First(B) = d + f
    BY <1>5, <2>3, <2>4, IsFirst
  <2>6. t[f] = s[d + f] /\ f \in 0..Len(t)
    BY <1>0, <1>1, <2>2
  <2> QED BY <1>7, <2>2, <2>5, <2>6 DEF f, A, B, SameFirst
<1> QED BY <1>6, <1>7

\* v, a part of s behind d, has its end f where s has c, if that is within a limit.
Ends(s, d, L, v, f, c) ==
    /\ f # 0 <=> c # 0 /\ c - d <= L
    /\ f # 0 => /\ c \in 1..Len(s) /\ v[f] = s[c]
                /\ SubSeq(v, 1, f - 1) = SubSeq(s, d + 1, c - 1)

\* The first of some bytes, in what is behind a position and limited.
LEMMA FirstWithin ==
    ASSUME NEW s \in Seq(Byte), NEW d \in Nat, NEW t, Behind(s, d, t), NEW S, NEW L \in Nat,
           NEW v, v = Limited(t, L), NEW f \in Nat, f = First(Holding(v, 0, S)),
           NEW c \in Nat, c = First(Holding(s, d, S))
    PROVE  Ends(s, d, L, v, f, c)
<1> DEFINE g == First(Holding(t, 0, S))
<1>0. d \in Nat /\ Len(t) \in Nat /\ Len(s) = d + Len(t) /\ t \in Seq(Byte)
  BY DEF Behind
<1>1. \A j \in 1..Len(t) : t[j] = s[d + j]
  BY DEF Behind
<1>2. /\ v \in Seq(Byte) /\ Len(v) = IF Len(t) < L THEN Len(t) ELSE L
      /\ \A j \in 1..Len(v) : v[j] = t[j]
  BY <1>0, LimitedTo
<1>3. g \in 0..Len(t) /\ (g # 0 => t[g] = s[d + g]) /\ c = IF g = 0 THEN 0 ELSE d + g
  BY FirstBehind DEF SameFirst
<1>4. g # 0 => \A j \in 1..Len(t) : t[j] \in S => g <= j
  <2> DEFINE A == Holding(t, 0, S)
  <2>1. A \subseteq Nat \ {0}
    BY <1>0 DEF Holding
  <2>2. \A j \in 1..Len(t) : t[j] \in S => j \in A
    BY DEF Holding
  <2>3. g = First(A)
    OBVIOUS
  <2> HIDE DEF A, g
  <2>4. g # 0 => \A j \in A : g <= j
    BY <2>1, <2>3, FirstOf
  <2> QED BY <2>2, <2>4
<1>5. g = 0 => \A j \in 1..Len(t) : t[j] \notin S
  <2> DEFINE A == Holding(t, 0, S)
  <2>1. A \subseteq Nat \ {0}
    BY <1>0 DEF Holding
  <2>2. g = 0 => A = {}
    BY <2>1, FirstOf
  <2>3. \A j \in 1..Len(t) : t[j] \in S => j \in A
    BY DEF Holding
  <2> HIDE DEF A, g
  <2> QED BY <2>2, <2>3
<1>6. g # 0 => t[g] \in S
  BY FirstBehind DEF SameFirst
<1> HIDE DEF g
<1> DEFINE V == Holding(v, 0, S)
<1>7. /\ V \subseteq Nat \ {0} /\ f = First(V)
      /\ \A j \in V : j \in 1..Len(v) /\ v[j] \in S
      /\ \A j \in 1..Len(v) : v[j] \in S => j \in V
  BY DEF Holding
<1> HIDE DEF V
<1>8. \A j \in 1..Len(v) : j \in 1..Len(t) /\ j <= L
  BY <1>0, <1>2
<1>9. CASE g = 0 \/ g > L
  <2>1. ASSUME NEW j \in V PROVE FALSE
    <3>1. j \in 1..Len(t) /\ j <= L /\ t[j] \in S
      BY <1>2, <1>7, <1>8
    <3>2. g # 0 /\ g <= j
      BY <1>4, <1>5, <3>1
    <3> QED BY <1>0, <1>3, <1>9, <3>1, <3>2
  <2>2. f = 0
    <3>1. V = {}
      BY <2>1
    <3> QED BY <1>7, <3>1, FirstOf
  <2>3. ~(c # 0 /\ c - d <= L)
    BY <1>0, <1>3, <1>9
  <2> QED BY <2>2, <2>3 DEF Ends
<1>10. CASE g # 0 /\ g <= L
  <2>1. g \in 1..Len(v) /\ g \in 1..Len(t)
    BY <1>0, <1>2, <1>3, <1>10
  <2>2. g \in V /\ v[g] = s[d + g]
    BY <1>2, <1>3, <1>6, <1>7, <1>10, <2>1
  <2>3. ASSUME NEW j \in V PROVE g <= j
    <3>1. j \in 1..Len(t) /\ t[j] \in S
      BY <1>2, <1>7, <1>8
    <3> QED BY <1>4, <1>10, <3>1
  <2>4. f = g
    BY <1>7, <2>2, <2>3, IsFirst
  <2>5. c = d + g /\ c # 0 /\ c - d <= L /\ c \in 1..Len(s) /\ f # 0 /\ g \in Nat
    BY <1>0, <1>3, <1>10, <2>1, <2>4
  <2>6. SubSeq(v, 1, f - 1) = SubSeq(s, d + 1, c - 1)
    <3> DEFINE x == SubSeq(v, 1, g - 1)
               y == SubSeq(s, d + 1, c - 1)
    <3>2. /\ x \in Seq(Byte) /\ Len(x) = g - 1
          /\ \A i \in 1..(g - 1) : x[i] = v[1 + i - 1]
      <4>1. g - 1 \in Nat /\ g - 1 <= Len(v) /\ 1 <= (g - 1) + 1 /\ 1 \in Nat \ {0}
        BY <1>0, <2>1, <2>5
      <4>2. /\ x \in Seq(Byte) /\ Len(x) = (g - 1) - 1 + 1
            /\ \A i \in 1..((g - 1) - 1 + 1) : x[i] = v[1 + i - 1]
        BY <1>2, <4>1, Slice
      <4>3. (g - 1) - 1 + 1 = g - 1
        BY <2>5
      <4> HIDE DEF x
      <4> QED BY <4>2, <4>3
    <3>3. /\ y \in Seq(Byte) /\ Len(y) = g - 1
          /\ \A i \in 1..(g - 1) : y[i] = s[(d + 1) + i - 1]
      <4>1. /\ d + 1 \in Nat \ {0} /\ c - 1 \in Nat /\ c - 1 <= Len(s)
            /\ d + 1 <= (c - 1) + 1
        BY <1>0, <2>1, <2>5
      <4>2. /\ y \in Seq(Byte) /\ Len(y) = (c - 1) - (d + 1) + 1
            /\ \A i \in 1..((c - 1) - (d + 1) + 1) : y[i] = s[(d + 1) + i - 1]
        BY <4>1, Slice
      <4>3. (c - 1) - (d + 1) + 1 = g - 1
        BY <2>5
      <4> HIDE DEF y
      <4> QED BY <4>2, <4>3
    <3> HIDE DEF x, y
    <3>4. ASSUME NEW i \in 1..(g - 1) PROVE x[i] = y[i]
      <4>1. /\ 1 + i - 1 = i /\ (d + 1) + i - 1 = d + i
            /\ i \in 1..Len(v) /\ i \in 1..Len(t)
        BY <1>0, <1>8, <2>1, <2>5
      <4>2. x[i] = v[i] /\ y[i] = s[d + i]
        BY <3>2, <3>3, <4>1
      <4>3. v[i] = t[i] /\ t[i] = s[d + i]
        BY <1>1, <1>2, <4>1
      <4> QED BY <4>2, <4>3
    <3>5. x = y
      BY <3>2, <3>3, <3>4, SeqEqual
    <3> QED BY <2>4, <3>5 DEF x, y
  <2>7. v[f] = s[c]
    BY <2>2, <2>4, <2>5
  <2> QED BY <2>5, <2>6, <2>7 DEF Ends
<1>11. g = 0 \/ g > L \/ (g # 0 /\ g <= L)
  BY <1>0, <1>3
<1> QED BY <1>9, <1>10, <1>11

\* Where the key is, within its limit.
Keys(p) == {i \in 1..(Len(p) - 8) : i + 8 <= KeyLimit /\ SubSeq(p, i, i + 8) = KEY}

\* Behind the key, extract_ll_control finds what the search byte by byte finds.
LEMMA ValueAfter ==
    ASSUME NEW p \in Seq(Byte), NEW key \in 1..(Len(p) - 8), key = First(Keys(p))
    PROVE  value_after(p, key) = Reference(p)
<1> DEFINE is(i, S) == i \in DOMAIN p /\ p[i] \in S
           colonAt == First({i \in (key + 9)..Len(p) : is(i, {COLON})})
           openAt == First({i \in (colonAt + 1)..Len(p) : ~is(i, Whitespace)})
           closeAt == First({i \in (openAt + 1)..Len(p) : is(i, {QUOTE, BACKSLASH})})
           found == /\ key # 0 /\ colonAt # 0 /\ openAt # 0 /\ closeAt # 0
                    /\ is(openAt, {QUOTE}) /\ is(closeAt, {QUOTE}) /\ closeAt - openAt <= ValueLimit
                    /\ SubSeq(p, openAt + 1, closeAt - 1) \in Utf8
<1> DEFINE after_key == From(p, key + 9)
           colon == find_byte(after_key, COLON)
           after_colon == From(after_key, colon + 1)
           quote == First({i \in DOMAIN after_colon : after_colon[i] \notin Whitespace})
           tail == From(after_colon, quote + 1)
           value == Limited(tail, ValueLimit)
           end == find_either(value, QUOTE, BACKSLASH)
<1>1. Reference(p) = IF found THEN SubSeq(p, openAt + 1, closeAt - 1) ELSE None
  BY DEF Reference, Keys
<1>2. value_after(p, key) =
        IF colon = 0 \/ quote = 0 THEN None
        ELSE IF after_colon[quote] # QUOTE \/ end = 0 THEN None
        ELSE IF value[end] # QUOTE \/ SubSeq(value, 1, end - 1) \notin Utf8 THEN None
        ELSE SubSeq(value, 1, end - 1)
  BY DEF value_after
<1>3. /\ Len(p) \in Nat /\ DOMAIN p = 1..Len(p) /\ key \in Nat /\ key # 0
      /\ key + 8 \in 0..Len(p) /\ (key + 8) + 1 = key + 9
  OBVIOUS
<1>4. Behind(p, key + 8, after_key)
  <2>1. Behind(p, 0, p)
    BY <1>3 DEF Behind
  <2>2. Behind(p, 0 + (key + 8), From(p, (key + 8) + 1))
    BY <1>3, <2>1, BehindMore
  <2>3. 0 + (key + 8) = key + 8
    BY <1>3
  <2> QED BY <1>3, <2>2, <2>3
<1> HIDE DEF after_key
<1>5. colon \in 0..Len(after_key) /\ colonAt = IF colon = 0 THEN 0 ELSE (key + 8) + colon
  <2>1. colon = First(Holding(after_key, 0, {COLON, COLON}))
    <3>1. after_key \in Seq(Byte)
      BY <1>4 DEF Behind
    <3> QED BY <3>1, FindEither DEF find_byte, Needles
  <2> HIDE DEF colon
  <2>2. colonAt = First(Holding(p, key + 8, {COLON, COLON}))
    <3>1. \A i \in (key + 9)..Len(p) : i \in DOMAIN p
      BY <1>3
    <3>2. {i \in (key + 9)..Len(p) : is(i, {COLON})}
          = Holding(p, key + 8, {COLON, COLON})
      BY <1>3, <3>1 DEF Holding
    <3> QED BY <3>2
  <2> HIDE DEF colonAt
  <2>3. SameFirst(p, key + 8, after_key, {COLON, COLON}, colon)
    BY <1>4, <2>1, FirstBehind, Zenon
  <2> QED BY <2>2, <2>3 DEF SameFirst
<1> HIDE DEF colon, colonAt
<1>6. CASE colon = 0
  <2>1. ~found
    BY <1>5, <1>6
  <2> HIDE DEF found
  <2> QED BY <1>1, <1>2, <1>6, <2>1
<1>7. CASE colon # 0
  <2>1. Behind(p, colonAt, after_colon) /\ colonAt # 0 /\ colonAt \in Nat
    <3>1. Behind(p, (key + 8) + colon, after_colon)
      BY <1>4, <1>5, BehindMore
    <3>2. colonAt = (key + 8) + colon
      BY <1>5, <1>7
    <3>3. colonAt \in Nat /\ colonAt # 0
      <4>1. Len(after_key) \in Nat
        BY <1>4 DEF Behind
      <4>2. colon \in Nat
        BY <1>5, <4>1
      <4> QED BY <1>3, <3>2, <4>2
    <3> HIDE DEF after_colon
    <3> QED BY <3>1, <3>2, <3>3
  <2> HIDE DEF after_colon
  <2>2. /\ quote \in 0..Len(after_colon) /\ openAt = IF quote = 0 THEN 0 ELSE colonAt + quote
        /\ quote # 0 => after_colon[quote] = p[openAt]
    <3> DEFINE Other == Byte \ Whitespace
    <3>1. quote = First(Holding(after_colon, 0, Other))
      <4>1. after_colon \in Seq(Byte)
        BY <2>1 DEF Behind
      <4>2. DOMAIN after_colon = 1..Len(after_colon)
        BY <4>1
      <4>3. \A j \in 1..Len(after_colon) : after_colon[j] \in Byte
        BY <4>1, ElementOfSeq
      <4>4. {i \in DOMAIN after_colon : after_colon[i] \notin Whitespace}
            = Holding(after_colon, 0, Other)
        BY <4>2, <4>3 DEF Holding
      <4> QED BY <4>4
    <3> HIDE DEF quote
    <3>2. openAt = First(Holding(p, colonAt, Other))
      <4>1. \A i \in (colonAt + 1)..Len(p) : i \in DOMAIN p /\ i \in 1..Len(p)
        BY <1>3, <2>1
      <4>2. \A i \in 1..Len(p) : p[i] \in Byte
        BY ElementOfSeq
      <4>3. {i \in (colonAt + 1)..Len(p) : ~is(i, Whitespace)}
            = Holding(p, colonAt, Other)
        BY <4>1, <4>2 DEF Holding
      <4> QED BY <4>3
    <3> HIDE DEF Other, openAt
    <3>3. /\ quote \in 0..Len(after_colon) /\ openAt = IF quote = 0 THEN 0 ELSE colonAt + quote
          /\ quote # 0 => after_colon[quote] = p[colonAt + quote]
      <4>1. SameFirst(p, colonAt, after_colon, Other, quote)
        BY <2>1, <3>1, FirstBehind, Zenon
      <4> QED BY <3>2, <4>1 DEF SameFirst
    <3> QED BY <3>3
  <2> HIDE DEF quote, openAt
  <2>3. CASE quote = 0
    <3>1. ~found
      BY <2>2, <2>3
    <3> HIDE DEF found
    <3> QED BY <1>1, <1>2, <2>3, <3>1
  <2>4. CASE quote # 0
    <3>1. Behind(p, openAt, tail) /\ openAt # 0 /\ openAt \in DOMAIN p
      <4>1. Behind(p, colonAt + quote, tail)
        BY <2>1, <2>2, BehindMore
      <4>2. openAt = colonAt + quote
        BY <2>2, <2>4
      <4>3. Len(after_colon) \in Nat /\ Len(p) = colonAt + Len(after_colon)
        BY <2>1 DEF Behind
      <4>4. openAt \in 1..Len(p) /\ openAt # 0
        BY <2>1, <2>2, <2>4, <4>2, <4>3
      <4> HIDE DEF tail
      <4> QED BY <1>3, <4>1, <4>2, <4>4
    <3> HIDE DEF tail
    <3>2. end = First(Holding(value, 0, {QUOTE, BACKSLASH}))
      <4>1. value \in Seq(Byte)
        <5>1. tail \in Seq(Byte)
          BY <3>1 DEF Behind
        <5> QED BY <5>1, LimitedTo, ControlAssumption
      <4> HIDE DEF value
      <4> QED BY <4>1, FindEither DEF Needles
    <3> HIDE DEF end
    <3>3. closeAt = First(Holding(p, openAt, {QUOTE, BACKSLASH}))
      <4>1. \A i \in (openAt + 1)..Len(p) : i \in DOMAIN p
        BY <1>3, <3>1
      <4>2. {i \in (openAt + 1)..Len(p) : is(i, {QUOTE, BACKSLASH})}
            = Holding(p, openAt, {QUOTE, BACKSLASH})
        BY <4>1 DEF Holding
      <4> QED BY <4>2
    <3> HIDE DEF closeAt
    <3>4. Ends(p, openAt, ValueLimit, value, end, closeAt)
      <4>1. ValueLimit \in Nat
        BY ControlAssumption
      <4> DEFINE Q == {QUOTE, BACKSLASH}
      <4>2. end = First(Holding(value, 0, Q)) /\ closeAt = First(Holding(p, openAt, Q))
        BY <3>2, <3>3
      <4>3. value = Limited(tail, ValueLimit)
        OBVIOUS
      <4> HIDE DEF Q, value
      <4>4. openAt \in Nat
        BY <1>3, <3>1
      <4>5. end \in Nat
        <5>1. Holding(value, 0, Q) \subseteq Nat \ {0}
          BY DEF Holding
        <5> QED BY <4>2, <5>1, FirstOf
      <4>6. closeAt \in Nat
        <5>1. Holding(p, openAt, Q) \subseteq Nat \ {0}
          BY <4>4 DEF Holding
        <5> QED BY <4>2, <5>1, FirstOf
      <4> QED BY <3>1, <4>1, <4>2, <4>3, <4>4, <4>5, <4>6, FirstWithin
    <3> HIDE DEF value
    <3>5. found <=> /\ after_colon[quote] = QUOTE /\ end # 0 /\ value[end] = QUOTE
                    /\ SubSeq(value, 1, end - 1) \in Utf8
      BY <1>3, <2>1, <2>2, <2>4, <3>1, <3>4 DEF Ends
    <3> HIDE DEF found
    <3> QED BY <1>1, <1>2, <1>7, <2>4, <3>4, <3>5 DEF Ends
  <2> QED BY <2>3, <2>4
<1> QED BY <1>6, <1>7

-----------------------------------------------------------------------------
(* The key                                                                  *)

\* The key is nine bytes, from quote to quote.
LEMMA KeyBytes == KEY \in Seq(Byte) /\ Len(KEY) = 9 /\ KEY[1] = QUOTE /\ KEY[9] = QUOTE
  BY DEF KEY, Byte, QUOTE

\* The key begins at i, compared byte by byte.
Spells(w, i) == \A j \in 1..9 : w[i + j - 1] = KEY[j]

\* A slice is the key exactly if its bytes are.
LEMMA SliceIsKey ==
    ASSUME NEW p \in Seq(Byte), NEW i \in 1..(Len(p) - 8)
    PROVE  SubSeq(p, i, i + 8) = KEY <=> Spells(p, i)
<1> DEFINE x == SubSeq(p, i, i + 8)
<1>1. /\ i \in Nat \ {0} /\ i + 8 \in Nat /\ i + 8 <= Len(p) /\ i <= (i + 8) + 1
      /\ (i + 8) - i + 1 = 9
  OBVIOUS
<1>2. x \in Seq(Byte) /\ Len(x) = 9 /\ \A j \in 1..9 : x[j] = p[i + j - 1]
  <2>1. /\ x \in Seq(Byte) /\ Len(x) = (i + 8) - i + 1
        /\ \A j \in 1..((i + 8) - i + 1) : x[j] = p[i + j - 1]
    BY <1>1, Slice
  <2> HIDE DEF x
  <2> QED BY <1>1, <2>1
<1> HIDE DEF x
<1>3. x = KEY => Spells(p, i)
  BY <1>2 DEF Spells
<1>4. ASSUME Spells(p, i) PROVE x = KEY
  <2>1. \A j \in 1..9 : x[j] = KEY[j]
    BY <1>2, <1>4 DEF Spells
  <2> QED BY <1>2, <2>1, KeyBytes, SeqEqual
<1>5. x = KEY <=> Spells(p, i)
  BY <1>3, <1>4
<1> QED BY <1>5 DEF x

\* A word and a quote behind it are the key exactly if the bytes are.
LEMMA WordIsKey ==
    ASSUME NEW w \in Seq(Byte), NEW i \in 1..(Len(w) - 8)
    PROVE  SubSeq(w, i, i + 7) = SubSeq(KEY, 1, 8) /\ w[i + 8] = QUOTE <=> Spells(w, i)
<1> DEFINE x == SubSeq(w, i, i + 7)
           y == SubSeq(KEY, 1, 8)
<1>1. /\ i \in Nat \ {0} /\ i + 7 \in Nat /\ i + 7 <= Len(w) /\ i <= (i + 7) + 1
      /\ (i + 7) - i + 1 = 8
  OBVIOUS
<1>2. x \in Seq(Byte) /\ Len(x) = 8 /\ \A j \in 1..8 : x[j] = w[i + j - 1]
  <2>1. /\ x \in Seq(Byte) /\ Len(x) = (i + 7) - i + 1
        /\ \A j \in 1..((i + 7) - i + 1) : x[j] = w[i + j - 1]
    BY <1>1, Slice
  <2> HIDE DEF x
  <2> QED BY <1>1, <2>1
<1>3. y \in Seq(Byte) /\ Len(y) = 8 /\ \A j \in 1..8 : y[j] = KEY[j]
  <2>1. /\ y \in Seq(Byte) /\ Len(y) = 8 - 1 + 1
        /\ \A j \in 1..(8 - 1 + 1) : y[j] = KEY[1 + j - 1]
    <3>1. 1 \in Nat \ {0} /\ 8 \in Nat /\ 8 <= Len(KEY) /\ 1 <= 8 + 1
      BY KeyBytes
    <3> QED BY <3>1, KeyBytes, Slice
  <2> HIDE DEF y
  <2> QED BY <2>1
<1> HIDE DEF x, y
<1>4. ASSUME x = y, w[i + 8] = QUOTE PROVE Spells(w, i)
  <2> SUFFICES ASSUME NEW j \in 1..9 PROVE w[i + j - 1] = KEY[j]
    BY DEF Spells
  <2>1. CASE j = 9
    <3>1. i + j - 1 = i + 8
      BY <2>1
    <3> QED BY <1>4, <2>1, <3>1, KeyBytes
  <2>2. CASE j \in 1..8
    BY <1>2, <1>3, <1>4, <2>2
  <2> QED BY <2>1, <2>2
<1>5. ASSUME Spells(w, i) PROVE x = y /\ w[i + 8] = QUOTE
  <2>1. \A j \in 1..8 : x[j] = y[j]
    <3> SUFFICES ASSUME NEW j \in 1..8 PROVE x[j] = y[j]
      OBVIOUS
    <3>1. j \in 1..9
      OBVIOUS
    <3>2. w[i + j - 1] = KEY[j]
      BY <1>5, <3>1 DEF Spells
    <3> QED BY <1>2, <1>3, <3>2
  <2>2. x = y
    BY <1>2, <1>3, <2>1, SeqEqual
  <2>3. w[i + 9 - 1] = KEY[9] /\ i + 9 - 1 = i + 8
    BY <1>5 DEF Spells
  <2> QED BY <2>2, <2>3, KeyBytes
<1>6. x = y /\ w[i + 8] = QUOTE <=> Spells(w, i)
  BY <1>4, <1>5
<1> QED BY <1>6 DEF x, y

\* The keys within the limit are the keys of the window.
LEMMA KeysInWindow ==
    ASSUME NEW p \in Seq(Byte), NEW w, w = Limited(p, KeyLimit)
    PROVE  /\ w \in Seq(Byte) /\ Len(w) \in Nat /\ Len(w) <= Len(p)
           /\ \A i \in Nat : i \in Keys(p) <=> i \in 1..(Len(w) - 8) /\ Spells(w, i)
<1>0. KeyLimit \in Nat /\ Len(p) \in Nat
  BY ControlAssumption
<1>1. /\ w \in Seq(Byte) /\ Len(w) = IF Len(p) < KeyLimit THEN Len(p) ELSE KeyLimit
      /\ \A j \in 1..Len(w) : w[j] = p[j]
  BY <1>0, LimitedTo
<1>2. Len(w) \in Nat /\ Len(w) <= Len(p)
  BY <1>0, <1>1
<1>3. ASSUME NEW i \in Nat
      PROVE  i \in Keys(p) <=> i \in 1..(Len(w) - 8) /\ Spells(w, i)
  <2>1. i \in 1..(Len(w) - 8) <=> i \in 1..(Len(p) - 8) /\ i + 8 <= KeyLimit
    BY <1>0, <1>1
  <2>2. ASSUME i \in 1..(Len(w) - 8) PROVE Spells(w, i) <=> Spells(p, i)
    <3>1. \A j \in 1..9 : i + j - 1 \in 1..Len(w)
      BY <1>2, <2>2
    <3> QED BY <1>1, <3>1 DEF Spells
  <2>3. i \in 1..(Len(p) - 8) => (SubSeq(p, i, i + 8) = KEY <=> Spells(p, i))
    BY SliceIsKey
  <2> QED BY <2>1, <2>2, <2>3 DEF Keys
<1> QED BY <1>1, <1>2, <1>3

\* A search from a position, with no key before it, meets the next quote no later than
\* the next key.
LEMMA NextQuote ==
    ASSUME NEW p \in Seq(Byte), NEW w, w = Limited(p, KeyLimit),
           NEW f \in Nat \ {0}, f <= Len(w), \A i \in Keys(p) : f <= i,
           NEW q, q = find_byte(From(w, f), QUOTE)
    PROVE  /\ q \in Nat
           /\ q = 0 => Keys(p) = {}
           /\ q # 0 => \A i \in Keys(p) : f + q - 1 <= i
<1>1. /\ w \in Seq(Byte) /\ Len(w) \in Nat /\ Len(w) <= Len(p)
      /\ \A i \in Nat : i \in Keys(p) <=> i \in 1..(Len(w) - 8) /\ Spells(w, i)
  BY KeysInWindow
<1> DEFINE d == f - 1
           t == From(w, f)
           Q == {QUOTE, QUOTE}
<1>2. d \in Nat /\ d \in 0..Len(w) /\ 0 + d = d /\ d + 1 = f
  BY <1>1
<1>3. Behind(w, d, t)
  <2>1. Behind(w, 0, w)
    BY <1>1 DEF Behind
  <2> HIDE DEF d
  <2>2. Behind(w, 0 + d, From(w, d + 1))
    BY <1>2, <2>1, BehindMore
  <2> QED BY <1>2, <2>2
<1>4. q = First(Holding(t, 0, Q))
  <2>1. t \in Seq(Byte)
    BY <1>3 DEF Behind
  <2> HIDE DEF t
  <2>2. QUOTE \in Needles
    BY DEF Needles
  <2>3. q = find_either(t, QUOTE, QUOTE)
    BY DEF find_byte, t
  <2> QED BY <2>1, <2>2, <2>3, FindEither
<1> HIDE DEF t, Q
<1>5. q \in 0..Len(t) /\ First(Holding(w, d, Q)) = IF q = 0 THEN 0 ELSE d + q
  <2> HIDE DEF d
  <2>1. LET h == First(Holding(t, 0, Q))
        IN  h \in 0..Len(t) /\ First(Holding(w, d, Q)) = IF h = 0 THEN 0 ELSE d + h
    BY <1>3, FirstBehind DEF SameFirst
  <2> QED BY <1>4, <2>1
<1>6. Len(t) \in Nat
  BY <1>3 DEF Behind
<1>7. q \in Nat
  BY <1>5, <1>6
<1> DEFINE H == Holding(w, d, Q)
<1>8. H \subseteq Nat \ {0}
  BY <1>1, <1>2 DEF Holding
<1>9. ASSUME NEW i \in Keys(p) PROVE i \in H /\ i \in Nat
  <2>1. i \in Nat
    BY DEF Keys
  <2>2. i \in 1..(Len(w) - 8) /\ Spells(w, i)
    BY <1>1, <2>1
  <2>3. w[i + 1 - 1] = KEY[1] /\ i + 1 - 1 = i
    BY <2>2 DEF Spells
  <2>4. w[i] = QUOTE
    BY <2>3, KeyBytes
  <2>5. i \in (d + 1)..Len(w)
    BY <1>1, <1>2, <2>2
  <2> HIDE DEF d
  <2> QED BY <2>1, <2>4, <2>5 DEF Holding, Q
<1> HIDE DEF H
<1>10. CASE q = 0
  <2>1. H = {}
    BY <1>5, <1>8, <1>10, FirstOf DEF H
  <2> QED BY <1>7, <1>9, <1>10, <2>1
<1>11. CASE q # 0
  <2>1. First(H) = d + q
    BY <1>5, <1>11 DEF H
  <2>2. First(H) # 0
    BY <1>2, <1>7, <1>11, <2>1
  <2>3. \A i \in H : First(H) <= i
    BY <1>8, <2>2, FirstOf
  <2>4. d + q = f + q - 1
    BY <1>7
  <2> HIDE DEF d
  <2>5. \A i \in Keys(p) : f + q - 1 <= i
    BY <1>9, <2>1, <2>3, <2>4
  <2> QED BY <1>7, <1>11, <2>5
<1> QED BY <1>10, <1>11

-----------------------------------------------------------------------------
(* The search                                                               *)

\* While the search is under way, no key is before its position.
ScanInv ==
    /\ text \in Seq(Byte) /\ from \in Nat
    /\ from # 0 => \A i \in Keys(text) : from <= i
    /\ ScanAgrees

\* A text without a key has no value.
LEMMA NoKey ==
    ASSUME NEW p, Keys(p) = {}
    PROVE  Reference(p) = None
  BY DEF Reference, Keys, First

\* Every text is searched from its start.
LEMMA ReadTextScan == ScanInv /\ ReadText => ScanInv'
<1> SUFFICES ASSUME ScanInv, ReadText PROVE ScanInv'
  OBVIOUS
<1>1. PICK p \in Pieces : text' = text \o p
  BY DEF ReadText
<1>2. p \in Seq(Byte) /\ text \in Seq(Byte)
  BY ControlAssumption DEF Byte, ScanInv
<1>3. text' \in Seq(Byte)
  BY <1>1, <1>2, ConcatProperties
<1>4. from' = 1
  BY DEF ReadText
<1>5. \A i \in Keys(text') : 1 <= i
  BY DEF Keys
<1>6. (\A i \in Keys(text) : from <= i)' <=> \A i \in Keys(text') : from' <= i
  BY DEF Keys
<1> QED BY <1>3, <1>4, <1>5, <1>6 DEF ScanInv, ScanAgrees

\* A turn of find_control_key passes no key, and stops at the first.
LEMMA FindControlKeyScan == ScanInv /\ find_control_key => ScanInv'
<1> SUFFICES ASSUME ScanInv, find_control_key PROVE ScanInv'
  OBVIOUS
<1> DEFINE w == Limited(text, KeyLimit)
           last == Len(w) - 8
           q == find_byte(From(w, from), QUOTE)
           pos == from + q - 1
           none == from > last \/ q = 0 \/ pos > last
           here == SubSeq(w, pos, pos + 7) = SubSeq(KEY, 1, 8) /\ w[pos + 8] = QUOTE
<1>1. /\ from # 0 /\ text' = text
      /\ \/ none /\ from' = 0 /\ control' = None
         \/ ~none /\ here /\ from' = 0 /\ control' = value_after(text, pos)
         \/ ~none /\ ~here /\ from' = pos + 1
  BY DEF find_control_key
<1>2. text \in Seq(Byte) /\ from \in Nat \ {0} /\ \A i \in Keys(text) : from <= i
  BY <1>1 DEF ScanInv
<1>3. /\ w \in Seq(Byte) /\ Len(w) \in Nat /\ Len(w) <= Len(text)
      /\ \A i \in Nat : i \in Keys(text) <=> i \in 1..(Len(w) - 8) /\ Spells(w, i)
  BY <1>2, KeysInWindow
<1>4. from <= Len(w) => /\ q \in Nat
                        /\ q = 0 => Keys(text) = {}
                        /\ q # 0 => \A i \in Keys(text) : from + q - 1 <= i
  BY <1>2, NextQuote
<1> HIDE DEF w
<1>5. \A i \in Keys(text) : i \in Nat /\ i <= last
  <2>1. \A i \in Keys(text) : i \in Nat
    BY DEF Keys
  <2> QED BY <1>3, <2>1
<1>6. CASE none /\ from' = 0 /\ control' = None
  <2>1. Keys(text) = {}
    <3> SUFFICES ASSUME NEW i \in Keys(text) PROVE FALSE
      OBVIOUS
    <3>1. i \in Nat /\ i <= last /\ from <= i
      BY <1>2, <1>5
    <3>2. from <= last /\ from <= Len(w)
      BY <1>2, <1>3, <3>1
    <3> HIDE DEF q
    <3>3. q \in Nat /\ q # 0 /\ from + q - 1 <= i
      BY <1>4, <3>2
    <3> QED BY <1>2, <1>3, <1>6, <3>1, <3>2, <3>3
  <2>2. Reference(text) = None
    BY <2>1, NoKey
  <2>3. Reference(text)' = Reference(text')
    BY DEF Reference, First
  <2> QED BY <1>1, <1>2, <1>6, <2>2, <2>3 DEF ScanInv, ScanAgrees
<1>7. ASSUME ~none
      PROVE  /\ pos \in 1..(Len(w) - 8) /\ pos \in Nat /\ \A i \in Keys(text) : pos <= i
             /\ pos \in Keys(text) <=> here
  <2> HIDE DEF q
  <2>1. from <= last /\ q # 0 /\ ~(pos > last) /\ from <= Len(w)
    BY <1>2, <1>3, <1>7
  <2>2. q \in Nat /\ \A i \in Keys(text) : pos <= i
    BY <1>4, <2>1
  <2>3. pos \in 1..(Len(w) - 8) /\ pos \in Nat
    BY <1>2, <1>3, <2>1, <2>2
  <2> HIDE DEF pos
  <2>4. here <=> Spells(w, pos)
    BY <1>3, <2>3, WordIsKey
  <2>5. pos \in Keys(text) <=> Spells(w, pos)
    BY <1>3, <2>3
  <2> HIDE DEF here
  <2> QED BY <2>2, <2>3, <2>4, <2>5
<1> HIDE DEF pos, here
<1>8. CASE ~none /\ here /\ from' = 0 /\ control' = value_after(text, pos)
  <2>1. pos \in Keys(text) /\ \A i \in Keys(text) : pos <= i
    BY <1>7, <1>8
  <2>2. pos = First(Keys(text))
    <3>1. Keys(text) \subseteq Nat \ {0}
      BY DEF Keys
    <3> QED BY <2>1, <3>1, IsFirst
  <2>3. pos \in 1..(Len(text) - 8)
    BY <2>1 DEF Keys
  <2>4. value_after(text, pos) = Reference(text)
    BY <1>2, <2>2, <2>3, ValueAfter
  <2>5. Reference(text)' = Reference(text')
    BY DEF Reference, First
  <2> QED BY <1>1, <1>2, <1>8, <2>4, <2>5 DEF ScanInv, ScanAgrees
<1>9. CASE ~none /\ ~here /\ from' = pos + 1
  <2>1. pos \in Nat /\ pos \notin Keys(text) /\ \A i \in Keys(text) : pos <= i
    BY <1>7, <1>9
  <2>2. ASSUME NEW i \in Keys(text) PROVE pos + 1 <= i
    BY <1>5, <2>1
  <2>3. (\A i \in Keys(text) : from <= i)' <=> \A i \in Keys(text') : from' <= i
    BY DEF Keys
  <2>4. from' # 0 /\ from' \in Nat
    BY <1>9, <2>1
  <2> QED BY <1>1, <1>2, <1>9, <2>2, <2>3, <2>4 DEF ScanInv, ScanAgrees
<1> HIDE DEF none
<1> QED BY <1>1, <1>6, <1>8, <1>9

\* For every text, every set of UTF-8 values and both limits: what extract_ll_control
\* finds eight bytes at a time is what a search byte by byte finds.
THEOREM ScanAgreesHolds == ControlSpec => []ScanAgrees
<1>1. ControlInit => ScanInv
  <2> SUFFICES ASSUME ControlInit PROVE ScanInv
    OBVIOUS
  <2>1. text = <<>> /\ from = 0 /\ control = None
    BY DEF ControlInit
  <2>2. Keys(<<>>) = {}
    BY DEF Keys
  <2>3. Reference(text) = None
    BY <2>1, <2>2, NoKey
  <2>4. text \in Seq(Byte)
    BY <2>1
  <2> QED BY <2>1, <2>3, <2>4 DEF ScanInv, ScanAgrees
<1>2. ScanInv /\ [ControlNext]_controlVars => ScanInv'
  <2> SUFFICES ASSUME ScanInv, [ControlNext]_controlVars PROVE ScanInv'
    OBVIOUS
  <2>1. CASE ReadText
    BY <2>1, ReadTextScan
  <2>2. CASE find_control_key
    BY <2>2, FindControlKeyScan
  <2>3. CASE UNCHANGED controlVars
    BY <2>3 DEF controlVars, ScanInv, ScanAgrees
  <2> QED BY <2>1, <2>2, <2>3 DEF ControlNext
<1>3. ScanInv => ScanAgrees
  BY DEF ScanInv
<1> QED BY <1>1, <1>2, <1>3, PTL DEF ControlSpec

-----------------------------------------------------------------------------
(* The three sorts of message                                              *)

\* Every behaviour of the reader's composed step is one of the walk, one of the scan and
\* one of the comparison: what is proved of each part holds of the whole.
THEOREM FramesImplement == FramesSpec => TableSpec /\ ControlSpec /\ EchoSpec
<1>1. FramesInit => TableInit /\ ControlInit /\ EchoInit
  BY DEF FramesInit
<1>2. [FramesNext]_frameVars => [TableNext]_tableVars
  BY DEF FramesNext, frameVars
<1>3. [FramesNext]_frameVars => [ControlNext]_controlVars
  BY DEF FramesNext, frameVars
<1>4. [FramesNext]_frameVars => [ResolveHead]_echoVars
  BY DEF FramesNext, frameVars
<1> QED
  BY <1>1, <1>2, <1>3, <1>4, PTL DEF FramesSpec, TableSpec, ControlSpec, EchoSpec

=============================================================================
