---------------------------- MODULE Tables_proofs ----------------------------
(***************************************************************************)
(* Proofs that the walkers find the records that are in a message to the   *)
(* last byte, and nothing else, for every table and wherever it ends, and  *)
(* that the maps collected from them agree.                                *)
(***************************************************************************)
EXTENDS Tables, FiniteSetTheorems, SequenceTheorems, TLAPS

-----------------------------------------------------------------------------
(* Names                                                                   *)

\* The bytes of a uuid, and the place of its k-th digit among the dashes.
Bytes16 == [1..16 -> 0..255]
Place(k) == k + (IF k <= 8 THEN 0 ELSE IF k <= 12 THEN 1 ELSE IF k <= 16 THEN 2 ELSE 3)

\* t is x and then y.
Joined(t, x, y) ==
    /\ t \in Seq(Int) /\ Len(t) = Len(x) + Len(y)
    /\ \A i \in 1..(Len(x) + Len(y)) : t[i] = IF i <= Len(x) THEN x[i] ELSE y[i - Len(x)]

\* What \o does, as one predicate.
LEMMA JoinedIs ==
    ASSUME NEW x \in Seq(Int), NEW y \in Seq(Int)
    PROVE  Joined(x \o y, x, y)
  BY ConcatProperties, Zenon DEF Joined

\* FieldOrder turns the first three fields around and keeps the rest.
LEMMA OrderIs ==
    /\ FieldOrder \in Seq(Int) /\ Len(FieldOrder) = 16
    /\ FieldOrder[1] = 4 /\ FieldOrder[2] = 3 /\ FieldOrder[3] = 2 /\ FieldOrder[4] = 1
    /\ FieldOrder[5] = 6 /\ FieldOrder[6] = 5 /\ FieldOrder[7] = 8 /\ FieldOrder[8] = 7
    /\ \A i \in 9..16 : FieldOrder[i] = i
<1> DEFINE a == <<4, 3, 2, 1, 6, 5, 8, 7>>
           b == [i \in 1..8 |-> 8 + i]
<1>1. a \in Seq(Int) /\ Len(a) = 8
  OBVIOUS
<1>2. b \in Seq(Int) /\ Len(b) = 8
  OBVIOUS
<1>3. /\ a[1] = 4 /\ a[2] = 3 /\ a[3] = 2 /\ a[4] = 1
      /\ a[5] = 6 /\ a[6] = 5 /\ a[7] = 8 /\ a[8] = 7
  OBVIOUS
<1>4. \A i \in 1..8 : b[i] = 8 + i
  OBVIOUS
<1> HIDE DEF a, b
<1>5. Joined(FieldOrder, a, b)
  BY <1>1, <1>2, JoinedIs, Zenon DEF FieldOrder, a, b
<1>6. /\ FieldOrder \in Seq(Int) /\ Len(FieldOrder) = 16
      /\ \A i \in 1..16 : FieldOrder[i] = IF i <= 8 THEN a[i] ELSE b[i - 8]
  BY <1>1, <1>2, <1>5 DEF Joined
<1>7. \A i \in 9..16 : FieldOrder[i] = i
  BY <1>4, <1>6
<1> QED
  BY <1>3, <1>6, <1>7

\* Every byte of a uuid is written, and none from outside it.
LEMMA OrderOnto ==
    /\ \A i \in 1..16 : FieldOrder[i] \in 1..16
    /\ \A k \in 1..16 : \E i \in 1..16 : FieldOrder[i] = k
<1>1. \A i \in 1..16 : i = 1 \/ i = 2 \/ i = 3 \/ i = 4 \/ i = 5 \/ i = 6 \/ i = 7 \/ i = 8 \/ i \in 9..16
  OBVIOUS
<1>2. \A i \in 1..16 : FieldOrder[i] \in 1..16
  BY <1>1, OrderIs
<1>3. \A k \in 1..16 : \E i \in 1..16 : FieldOrder[i] = k
  <2> SUFFICES ASSUME NEW k \in 1..16
               PROVE  \E i \in 1..16 : FieldOrder[i] = k
    BY Zenon
  <2>1. CASE k \in 9..16
    BY <2>1, OrderIs
  <2>2. CASE k \in 1..8
    <3>1. k = 1 \/ k = 2 \/ k = 3 \/ k = 4 \/ k = 5 \/ k = 6 \/ k = 7 \/ k = 8
      BY <2>2
    <3> QED
      BY <3>1, OrderIs
  <2> QED
    BY <2>1, <2>2
<1> QED
  BY <1>2, <1>3

\* The i-th byte written is a byte.
LEMMA ByteAt ==
    ASSUME NEW u \in Bytes16, NEW i \in 1..16
    PROVE  u[FieldOrder[i]] \in 0..255
<1>1. FieldOrder[i] \in 1..16
  BY OrderOnto, Zenon
<1> QED
  BY <1>1 DEF Bytes16

\* The two digits of the i-th byte written stand side by side in the name.
LEMMA DigitsOf ==
    ASSUME NEW u \in Bytes16, NEW i \in 1..16
    PROVE  /\ format_loxone_bytes(u)[Place(2 * i - 1)] = u[FieldOrder[i]] \div 16
           /\ format_loxone_bytes(u)[Place(2 * i)] = u[FieldOrder[i]] % 16
<1> DEFINE digit(k) == put_hex(u[FieldOrder[(k + 1) \div 2]])[2 - (k % 2)]
           f == format_loxone_bytes(u)
<1>1. \A k \in 1..32 : f[Place(k)] = digit(k)
  <2> SUFFICES ASSUME NEW k \in 1..32
               PROVE  f[Place(k)] = digit(k)
    OBVIOUS
  <2> DEFINE j == Place(k)
             back == j - (IF j < 9 THEN 0 ELSE IF j < 14 THEN 1 ELSE IF j < 19 THEN 2 ELSE 3)
  <2>1. j \in 1..35 /\ j \notin {9, 14, 19} /\ back = k
    BY DEF Place
  <2> HIDE DEF j
  <2>2. f[j] = digit(back)
    BY <2>1 DEF format_loxone_bytes, Ordered
  <2>3. digit(back) = digit(k)
    BY <2>1
  <2> QED
    BY <2>2, <2>3 DEF j
<1>2. \A b \in 0..255 : put_hex(b)[1] = b \div 16 /\ put_hex(b)[2] = (b % 16)
  BY DEF put_hex
<1>3. PICK b \in 0..255 : b = u[FieldOrder[i]]
  BY ByteAt, Zenon
<1>4. /\ 2 * i - 1 \in 1..32 /\ (2 * i - 1 + 1) \div 2 = i /\ 2 - ((2 * i - 1) % 2) = 1
      /\ 2 * i \in 1..32 /\ (2 * i + 1) \div 2 = i /\ 2 - ((2 * i) % 2) = 2
  OBVIOUS
<1>5. digit(2 * i - 1) = put_hex(b)[1] /\ digit(2 * i) = put_hex(b)[2]
  BY <1>3, <1>4, Zenon
<1> HIDE DEF digit
<1>6. digit(2 * i - 1) = b \div 16 /\ digit(2 * i) = (b % 16)
  BY <1>2, <1>5, Zenon
<1>7. f[Place(2 * i - 1)] = digit(2 * i - 1) /\ f[Place(2 * i)] = digit(2 * i)
  BY <1>1, <1>4, Zenon
<1> QED
  BY <1>3, <1>6, <1>7, Zenon

\* No two uuids share a name.
LEMMA NamesDiffer ==
    ASSUME NEW u \in Bytes16, NEW v \in Bytes16, format_loxone_bytes(u) = format_loxone_bytes(v)
    PROVE  u = v
<1>1. \A i \in 1..16 : u[FieldOrder[i]] = v[FieldOrder[i]]
  <2> SUFFICES ASSUME NEW i \in 1..16
               PROVE  u[FieldOrder[i]] = v[FieldOrder[i]]
    OBVIOUS
  <2>1. PICK a \in 0..255 : a = u[FieldOrder[i]]
    BY ByteAt, Zenon
  <2>2. PICK b \in 0..255 : b = v[FieldOrder[i]]
    BY ByteAt, Zenon
  <2>3. a \div 16 = b \div 16 /\ (a % 16) = (b % 16)
    BY <2>1, <2>2, DigitsOf
  <2>4. a = b
    BY <2>3
  <2> QED
    BY <2>1, <2>2, <2>4
<1>2. \A k \in 1..16 : u[k] = v[k]
  <2> SUFFICES ASSUME NEW k \in 1..16
               PROVE  u[k] = v[k]
    BY Zenon
  <2>1. PICK i \in 1..16 : FieldOrder[i] = k
    BY OrderOnto, Zenon
  <2> QED
    BY <1>1, <2>1, Zenon
<1>3. u = [k \in 1..16 |-> u[k]] /\ v = [k \in 1..16 |-> v[k]]
  BY Zenon DEF Bytes16
<1>4. [k \in 1..16 |-> u[k]] = [k \in 1..16 |-> v[k]]
  BY <1>2, Zenon
<1> QED
  BY <1>3, <1>4, Zenon

\* The digits a reader of the uuid's fields expects are the ones written.
LEMMA DigitsMatch ==
    ASSUME NEW u \in Bytes16
    PROVE  /\ Len(Digits(u)) = 32
           /\ \A k \in 1..32 : Digits(u)[k] = put_hex(u[FieldOrder[(k + 1) \div 2]])[2 - (k % 2)]
<1> DEFINE a == <<u[4], u[3], u[2], u[1]>>
           b == <<u[6], u[5]>>
           c == <<u[8], u[7]>>
           d == SubSeq(u, 9, 16)
           fields == a \o b \o c \o d
<1>0. u \in Seq(Int) /\ Len(u) = 16 /\ \A k \in 1..16 : u[k] \in Int
  <2>1. ASSUME NEW k \in 1..16 PROVE u[k] \in Int
    <3>1. u[k] \in 0..255
      BY Zenon DEF Bytes16
    <3> QED BY <3>1
  <2>2. u = [k \in 1..16 |-> u[k]]
    BY DEF Bytes16
  <2> QED
    BY <2>1, <2>2
<1>1. /\ a \in Seq(Int) /\ Len(a) = 4
      /\ a[1] = u[4] /\ a[2] = u[3] /\ a[3] = u[2] /\ a[4] = u[1]
  BY <1>0
<1>2. b \in Seq(Int) /\ Len(b) = 2 /\ b[1] = u[6] /\ b[2] = u[5]
  BY <1>0
<1>3. c \in Seq(Int) /\ Len(c) = 2 /\ c[1] = u[8] /\ c[2] = u[7]
  BY <1>0
<1>4. d \in Seq(Int) /\ Len(d) = 8 /\ \A k \in 1..8 : d[k] = u[8 + k]
  BY <1>0
<1> HIDE DEF a, b, c, d
<1>5. PICK ab : ab = a \o b
  BY Zenon
<1>6. Joined(ab, a, b)
  BY <1>1, <1>2, <1>5, JoinedIs, Zenon
<1>7. /\ ab \in Seq(Int) /\ Len(ab) = 6
      /\ \A k \in 1..6 : ab[k] = IF k <= 4 THEN a[k] ELSE b[k - 4]
  BY <1>1, <1>2, <1>6 DEF Joined
<1>8. PICK abc : abc = ab \o c
  BY Zenon
<1>9. Joined(abc, ab, c)
  BY <1>3, <1>8, <1>7, JoinedIs, Zenon
<1>10. /\ abc \in Seq(Int) /\ Len(abc) = 8
      /\ \A k \in 1..8 : abc[k] = IF k <= 6 THEN ab[k] ELSE c[k - 6]
  BY <1>3, <1>9, <1>7 DEF Joined
<1>11. Joined(fields, abc, d)
  BY <1>4, <1>5, <1>8, <1>10, JoinedIs, Zenon
<1> HIDE DEF fields
<1>12. \A k \in 1..16 : fields[k] = IF k <= 8 THEN abc[k] ELSE d[k - 8]
  BY <1>4, <1>11, <1>10 DEF Joined
<1>13. ab[1] = u[4] /\ ab[2] = u[3] /\ ab[3] = u[2] /\ ab[4] = u[1] /\ ab[5] = u[6] /\ ab[6] = u[5]
  BY <1>1, <1>2, <1>7
<1>14. /\ abc[1] = u[4] /\ abc[2] = u[3] /\ abc[3] = u[2] /\ abc[4] = u[1]
      /\ abc[5] = u[6] /\ abc[6] = u[5] /\ abc[7] = u[8] /\ abc[8] = u[7]
  BY <1>3, <1>10, <1>13
<1>15. \A k \in 9..16 : fields[k] = u[k]
  <2> SUFFICES ASSUME NEW k \in 9..16
               PROVE  fields[k] = u[k]
    BY Zenon
  <2>1. k \in 1..16 /\ ~(k <= 8) /\ k - 8 \in 1..8 /\ 8 + (k - 8) = k
    OBVIOUS
  <2>2. fields[k] = d[k - 8]
    BY <1>12, <2>1, Zenon
  <2>3. d[k - 8] = u[8 + (k - 8)]
    BY <1>4, <2>1, Zenon
  <2> QED
    BY <2>1, <2>2, <2>3, Zenon
<1>16. \A k \in 1..16 : fields[k] = u[FieldOrder[k]]
  <2> SUFFICES ASSUME NEW k \in 1..16
               PROVE  fields[k] = u[FieldOrder[k]]
    OBVIOUS
  <2>1. CASE k \in 9..16
    BY <1>15, <2>1, OrderIs
  <2>2. CASE k \in 1..8
    <3>1. k = 1 \/ k = 2 \/ k = 3 \/ k = 4 \/ k = 5 \/ k = 6 \/ k = 7 \/ k = 8
      BY <2>2
    <3>2. fields[k] = abc[k]
      BY <1>12, <2>2
    <3> QED
      BY <1>14, <3>1, <3>2, OrderIs, Zenon
  <2> QED
    BY <2>1, <2>2
<1>17. Digits(u) = [i \in 1..32 |-> IF i % 2 = 1 THEN fields[(i + 1) \div 2] \div 16
                                    ELSE fields[(i + 1) \div 2] % 16]
  BY DEF Digits, fields, a, b, c, d
<1>18. ASSUME NEW k \in 1..32
       PROVE  Digits(u)[k] = put_hex(u[FieldOrder[(k + 1) \div 2]])[2 - (k % 2)]
  <2>1. (k + 1) \div 2 \in 1..16 /\ ((k % 2) = 0 \/ (k % 2) = 1)
    OBVIOUS
  <2>2. PICK i \in 1..16 : i = (k + 1) \div 2
    BY <2>1
  <2>3. PICK x : x = u[FieldOrder[i]] /\ x = fields[i]
    BY <1>16
  <2>4. Digits(u)[k] = IF (k % 2) = 1 THEN x \div 16 ELSE x % 16
    BY <1>17, <2>2, <2>3
  <2>5. put_hex(x)[1] = x \div 16 /\ put_hex(x)[2] = (x % 16)
    BY DEF put_hex
  <2> QED
    BY <2>1, <2>2, <2>3, <2>4, <2>5
<1>19. Len(Digits(u)) = 32
  <2>1. DOMAIN Digits(u) = 1..32
    BY <1>17
  <2> QED
    BY <1>17, <2>1
<1> QED
  BY <1>18, <1>19

\* How many of the three dashes stand before character j.
LEMMA DashesBefore ==
    \A j \in 1..35 : Cardinality({d \in {9, 14, 19} : d < j}) =
                     IF j <= 9 THEN 0 ELSE IF j <= 14 THEN 1 ELSE IF j <= 19 THEN 2 ELSE 3
<1> SUFFICES ASSUME NEW j \in 1..35
             PROVE  Cardinality({d \in {9, 14, 19} : d < j}) =
                     IF j <= 9 THEN 0 ELSE IF j <= 14 THEN 1 ELSE IF j <= 19 THEN 2 ELSE 3
  OBVIOUS
<1> DEFINE S == {d \in {9, 14, 19} : d < j}
<1>1. j <= 9 => S = {}
  OBVIOUS
<1>2. 9 < j /\ j <= 14 => S = {9}
  OBVIOUS
<1>3. 14 < j /\ j <= 19 => S = {9} \cup {14}
  OBVIOUS
<1>4. 19 < j => S = ({9} \cup {14}) \cup {19}
  OBVIOUS
<1> HIDE DEF S
<1>5. Cardinality({}) = 0 /\ Cardinality({9}) = 1 /\ IsFiniteSet({9})
  BY FS_EmptySet, FS_Singleton, Zenon
<1>6. Cardinality({9} \cup {14}) = 2 /\ IsFiniteSet({9} \cup {14})
  BY <1>5, FS_AddElement
<1>7. Cardinality(({9} \cup {14}) \cup {19}) = 3
  BY <1>6, FS_AddElement
<1>8. Cardinality(S) = IF j <= 9 THEN 0 ELSE IF j <= 14 THEN 1 ELSE IF j <= 19 THEN 2 ELSE 3
  BY <1>1, <1>2, <1>3, <1>4, <1>5, <1>6, <1>7
<1> QED
  BY <1>8 DEF S

\* The dashes after digits 8, 12 and 16 are characters 9, 14 and 19.
LEMMA DashPlaces ==
    LET cuts == {8, 12, 16}
    IN  /\ Cardinality(cuts) = 3
        /\ {c + Cardinality({d \in cuts : d <= c}) : c \in cuts} = {9, 14, 19}
<1> DEFINE cuts == {8, 12, 16}
           n(c) == Cardinality({d \in cuts : d <= c})
<1>1. Cardinality({8}) = 1 /\ IsFiniteSet({8})
  BY FS_Singleton, Zenon
<1>2. Cardinality({8} \cup {12}) = 2 /\ IsFiniteSet({8} \cup {12})
  BY <1>1, FS_AddElement
<1>3. Cardinality(({8} \cup {12}) \cup {16}) = 3
  BY <1>2, FS_AddElement
<1>4. /\ {d \in cuts : d <= 8} = {8} /\ {d \in cuts : d <= 12} = {8} \cup {12}
      /\ {d \in cuts : d <= 16} = ({8} \cup {12}) \cup {16} /\ cuts = ({8} \cup {12}) \cup {16}
  OBVIOUS
<1>5. n(8) = 1 /\ n(12) = 2 /\ n(16) = 3 /\ Cardinality(cuts) = 3
  BY <1>1, <1>2, <1>3, <1>4
<1> HIDE DEF n
<1>6. {c + n(c) : c \in cuts} = {9, 14, 19}
  BY <1>5
<1> QED
  BY <1>5, <1>6 DEF n

\* format_loxone_bytes writes the name that LoxAPP3.json gives a uuid.
LEMMA NameIs ==
    ASSUME NEW u \in Bytes16
    PROVE  Dashed(Digits(u), {8, 12, 16}) = format_loxone_bytes(u)
<1> DEFINE digit(k) == put_hex(u[FieldOrder[(k + 1) \div 2]])[2 - (k % 2)]
           dashes == {9, 14, 19}
           before(j) == Cardinality({d \in dashes : d < j})
           back(j) == j - (IF j < 9 THEN 0 ELSE IF j < 14 THEN 1 ELSE IF j < 19 THEN 2 ELSE 3)
<1>1. Dashed(Digits(u), {8, 12, 16}) =
        [j \in 1..35 |-> IF j \in dashes THEN Dash ELSE Digits(u)[j - before(j)]]
  <2>1. Len(Digits(u)) + Cardinality({8, 12, 16}) = 35
    <3>1. Len(Digits(u)) = 32
      BY DigitsMatch, Zenon
    <3>2. Cardinality({8, 12, 16}) = 3
      BY DashPlaces, Zenon
    <3> QED
      BY <3>1, <3>2
  <2> QED
    BY <2>1, DashPlaces, Zenon DEF Dashed
<1>2. format_loxone_bytes(u) = [j \in 1..35 |-> IF j \in dashes THEN Dash ELSE digit(back(j))]
  BY DEF format_loxone_bytes, Ordered
<1>3. \A j \in 1..35 : j \notin dashes => j - before(j) = back(j) /\ back(j) \in 1..32
  <2> SUFFICES ASSUME NEW j \in 1..35, j \notin dashes
               PROVE  j - before(j) = back(j) /\ back(j) \in 1..32
    OBVIOUS
  <2>1. before(j) = IF j <= 9 THEN 0 ELSE IF j <= 14 THEN 1 ELSE IF j <= 19 THEN 2 ELSE 3
    BY DashesBefore
  <2> HIDE DEF before
  <2> QED
    BY <2>1
<1>4. \A k \in 1..32 : Digits(u)[k] = digit(k)
  BY DigitsMatch
<1> HIDE DEF digit, before, back, dashes
<1>5. \A j \in 1..35 : j \notin dashes => Digits(u)[j - before(j)] = digit(back(j))
  BY <1>3, <1>4
<1> QED
  BY <1>1, <1>2, <1>5

-----------------------------------------------------------------------------
(* Fields                                                                  *)

Kinds == {"ValueStates", "TextStates", "DaytimerStates", "WeatherStates"}

\* A number is its last byte and what is above it.
LEMMA LastByte ==
    ASSUME NEW n \in Int
    PROVE  n \div 256 \in Int /\ n % 256 \in Byte /\ n = 256 * (n \div 256) + (n % 256)
  BY DEF Byte

\* A word has four bytes.
LEMMA WordBytes ==
    ASSUME NEW n \in Int
    PROVE  Word(n) \in Seq(Byte) /\ Len(Word(n)) = WORD
<1> DEFINE a == n \div 256  b == a \div 256  c == b \div 256
           x == n % 256  y == a % 256  z == b % 256  d == c % 256
<1>1. a \in Int /\ x \in Byte
  BY LastByte
<1> HIDE DEF a, x
<1>2. b \in Int /\ y \in Byte
  BY <1>1, LastByte
<1> HIDE DEF b, y
<1>3. c \in Int /\ z \in Byte
  BY <1>2, LastByte
<1> HIDE DEF c, z
<1>4. d \in Byte
  BY <1>3, LastByte
<1>5. Word(n) = <<x, y, z, d>>
  BY DEF Word, a, b, c, x, y, z
<1> HIDE DEF d
<1>6. Len(<<x, y, z, d>>) = 4 /\ <<x, y, z, d>> \in Seq(Byte)
  BY <1>1, <1>2, <1>3, <1>4
<1> QED
  BY <1>5, <1>6 DEF WORD

\* A count is read as the number it was written for.
LEMMA WordRead ==
    ASSUME NEW n \in Int, -MaxI32 <= n, n <= MaxI32
    PROVE  /\ Word(n) \in Seq(Byte) /\ Len(Word(n)) = WORD
           /\ I32(Word(n)) = n
<1> DEFINE a == n \div 256  b == a \div 256  c == b \div 256  d == c % 256
           x == n % 256  y == a % 256  z == b % 256
<1>1. MaxI32 = 256 * (256 * (256 * 127 + 255) + 255) + 255
  BY DEF MaxI32
<1>3. a \in Int /\ x \in Byte /\ n = 256 * a + x
  BY LastByte
<1> HIDE DEF a, x
<1>4. b \in Int /\ y \in Byte /\ a = 256 * b + y
  BY <1>3, LastByte
<1> HIDE DEF b, y
<1>5. c \in Int /\ z \in Byte /\ b = 256 * c + z
  BY <1>4, LastByte
<1> HIDE DEF c, z
<1>6. c \in -128..127
  BY <1>1, <1>3, <1>4, <1>5, SMT DEF Byte
<1>7. d \in Byte /\ c = IF d < 128 THEN d ELSE d - 256
  BY <1>6 DEF Byte
<1>8. Word(n) = <<x, y, z, d>>
  BY DEF Word, a, b, c, x, y, z
<1> HIDE DEF d
<1>9. Word(n) \in Seq(Byte) /\ Len(Word(n)) = WORD
  BY WordBytes
<1>10. I32(Word(n)) = x + 256 * (y + 256 * (z + 256 * c))
  BY <1>7, <1>8 DEF I32
<1> QED
  BY <1>3, <1>4, <1>5, <1>9, <1>10 DEF Byte

\* A field of a sequence is what stands there.
LEMMA FieldIs ==
    ASSUME NEW s \in Seq(Byte), NEW f \in Seq(Byte), NEW d \in Nat, NEW l,
           l = Len(f), d + l <= Len(s), \A j \in 1..l : s[d + j] = f[j]
    PROVE  Field(s, d, l) = f
<1>1. l \in Nat
  OBVIOUS
<1>2. Field(s, d, l) \in Seq(Byte) /\ Len(Field(s, d, l)) = l
      /\ \A j \in 1..l : Field(s, d, l)[j] = s[d + j]
  BY <1>1 DEF Field
<1> QED
  BY <1>1, <1>2, SeqEqual

\* Three sequences in a row.
LEMMA ThreeInARow ==
    ASSUME NEW x \in Seq(Byte), NEW y \in Seq(Byte), NEW z \in Seq(Byte)
    PROVE  /\ x \o y \o z \in Seq(Byte)
           /\ Len(x \o y \o z) = Len(x) + Len(y) + Len(z)
           /\ \A j \in 1..Len(x) : (x \o y \o z)[j] = x[j]
           /\ \A j \in 1..Len(y) : (x \o y \o z)[Len(x) + j] = y[j]
           /\ \A j \in 1..Len(z) : (x \o y \o z)[Len(x) + Len(y) + j] = z[j]
  OBVIOUS

\* The place of byte j of entry k.
LEMMA EntryPlace ==
    ASSUME NEW size \in {24, 68}, NEW k \in Int, NEW j \in 1..size
    PROVE  /\ (((k - 1) * size + j - 1) \div size) + 1 = k
           /\ (((k - 1) * size + j - 1) % size) + 1 = j
<1>1. CASE size = 24
  <2>1. j \in 1..24
    BY <1>1
  <2>2. (((k - 1) * 24 + j - 1) \div 24) + 1 = k
    BY <2>1
  <2>3. (((k - 1) * 24 + j - 1) % 24) + 1 = j
    BY <2>1
  <2> QED
    BY <1>1, <2>2, <2>3
<1>2. CASE size = 68
  <2>1. j \in 1..68
    BY <1>2
  <2>2. (((k - 1) * 68 + j - 1) \div 68) + 1 = k
    BY <2>1
  <2>3. (((k - 1) * 68 + j - 1) % 68) + 1 = j
    BY <2>1
  <2> QED
    BY <1>2, <2>2, <2>3
<1> QED
  BY <1>1, <1>2

\* Entries of one size, one after the other, are entries of that size.
LEMMA FlatEntries ==
    ASSUME NEW size \in {DAYTIMER_ENTRY_SIZE, WEATHER_ENTRY_SIZE},
           NEW e \in Seq([1..size -> Byte])
    PROVE  /\ Flat(e, size) \in Seq(Byte) /\ Len(Flat(e, size)) = Len(e) * size
           /\ Len(Flat(e, size)) % 4 = 0
           /\ entries_of(Flat(e, size), size) = e
<1> DEFINE f == Flat(e, size)  m == Len(e) * size
<1>0. size \in {24, 68}
  BY DEF DAYTIMER_ENTRY_SIZE, WEATHER_ENTRY_SIZE, WORD, DOUBLE
<1>1. m \in Nat /\ m \div size = Len(e) /\ Len(e) \in Nat
  BY <1>0
<1>1a. m % 4 = 0
  <2>1. CASE size = 24
    BY <2>1
  <2>2. CASE size = 68
    BY <2>2
  <2> QED
    BY <1>0, <2>1, <2>2
<1>2. ASSUME NEW i \in 1..m
      PROVE  /\ ((i - 1) \div size) + 1 \in 1..Len(e)
             /\ ((i - 1) % size) + 1 \in 1..size
  BY <1>0, <1>1
<1>3. \A i \in 1..m : e[((i - 1) \div size) + 1][((i - 1) % size) + 1] \in Byte
  <2> SUFFICES ASSUME NEW i \in 1..m
               PROVE  e[((i - 1) \div size) + 1][((i - 1) % size) + 1] \in Byte
    OBVIOUS
  <2> DEFINE p == ((i - 1) \div size) + 1  q == ((i - 1) % size) + 1
  <2>1. p \in 1..Len(e) /\ q \in 1..size
    BY <1>2
  <2> HIDE DEF p, q
  <2>2. e[p] \in [1..size -> Byte]
    BY <2>1
  <2>3. e[p][q] \in Byte
    BY <2>1, <2>2
  <2> QED
    BY <2>3 DEF p, q
<1>4. f = [i \in 1..m |-> e[((i - 1) \div size) + 1][((i - 1) % size) + 1]]
  BY DEF Flat
<1> HIDE DEF f, m
<1>5. f \in Seq(Byte) /\ Len(f) = m
  <2>1. f \in [1..m -> Byte]
    BY <1>3, <1>4
  <2> QED
    BY <2>1, <1>1
<1>6. ASSUME NEW k \in 1..Len(e)
      PROVE  Field(f, (k - 1) * size, size) = e[k]
  <2> DEFINE d == (k - 1) * size
  <2>1. d \in Nat /\ d + size <= m
    <3>1. CASE size = 24
      BY <3>1 DEF m
    <3>2. CASE size = 68
      BY <3>2 DEF m
    <3> QED
      BY <1>0, <3>1, <3>2
  <2>2. e[k] \in [1..size -> Byte] /\ e[k] \in Seq(Byte) /\ Len(e[k]) = size
    <3>1. e[k] \in [1..size -> Byte]
      OBVIOUS
    <3> QED
      BY <3>1, <1>0
  <2>3. ASSUME NEW j \in 1..size
        PROVE  f[d + j] = e[k][j]
    <3> DEFINE l == d + j
    <3>1. l \in 1..m
      BY <1>0, <1>1, <2>1
    <3>2. ((l - 1) \div size) + 1 = k /\ ((l - 1) % size) + 1 = j
      BY <1>0, EntryPlace
    <3> HIDE DEF l
    <3>3. f[l] = e[((l - 1) \div size) + 1][((l - 1) % size) + 1]
      BY <1>4, <3>1
    <3>4. f[l] = e[k][j]
      BY <3>2, <3>3
    <3> QED
      BY <3>4 DEF l
  <2> HIDE DEF d
  <2>4. Field(f, d, size) = e[k]
    BY <1>5, <2>1, <2>2, <2>3, FieldIs
  <2> QED
    BY <2>4 DEF d
<1>7. entries_of(f, size) = [k \in 1..Len(e) |-> Field(f, (k - 1) * size, size)]
  BY <1>1, <1>5 DEF entries_of
<1>8. entries_of(f, size) = [k \in 1..Len(e) |-> e[k]]
  BY <1>6, <1>7
<1>9. e = [k \in 1..Len(e) |-> e[k]]
  OBVIOUS
<1> QED
  BY <1>5, <1>8, <1>9, <1>1a DEF f, m

\* The sequences agree as far as both go.
Agree(s, t) == \A j \in 1..Len(s) : j <= Len(t) => s[j] = t[j]

\* A sequence agrees with itself.
LEMMA AgreeSelf == \A s : Agree(s, s)
  BY DEF Agree

\* A field of a fixed size is a sequence of that length.
LEMMA FixedSize ==
    ASSUME NEW m \in Nat, NEW f \in [1..m -> Byte]
    PROVE  f \in Seq(Byte) /\ Len(f) = m
  OBVIOUS

\* The fields s has of t, which is x, y, w and v in a row.
Fields(s, t, x, y, w, v) ==
    /\ Len(t) = Len(x) + Len(y) + Len(w) + Len(v)
    /\ Len(s) >= Len(x) + Len(y) =>
         Field(s, 0, Len(x)) = x /\ Field(s, Len(x), Len(y)) = y
    /\ Len(s) >= Len(x) + Len(y) + Len(w) => Field(s, Len(x) + Len(y), Len(w)) = w
    /\ Len(s) >= Len(x) + Len(y) + Len(w) + Len(v) =>
         Field(s, Len(x) + Len(y) + Len(w), Len(v)) = v

\* The fields of four sequences in a row, or of as much of them as there is.
LEMMA FourFields ==
    ASSUME NEW x \in Seq(Byte), NEW y \in Seq(Byte), NEW w \in Seq(Byte), NEW v \in Seq(Byte),
           NEW s \in Seq(Byte), Agree(s, x \o y \o (w \o v))
    PROVE  Fields(s, x \o y \o (w \o v), x, y, w, v)
<1> DEFINE z == w \o v  t == x \o y \o z  lx == Len(x)  ly == Len(y)  lw == Len(w)  lv == Len(v)
<1>1. /\ z \in Seq(Byte) /\ Len(z) = lw + lv
      /\ \A j \in 1..lw : z[j] = w[j]
      /\ \A j \in 1..lv : z[lw + j] = v[j]
  OBVIOUS
<1>2. lx \in Nat /\ ly \in Nat /\ lw \in Nat /\ lv \in Nat /\ Len(s) \in Nat
  OBVIOUS
<1> HIDE DEF z
<1>3. /\ t \in Seq(Byte) /\ Len(t) = lx + ly + Len(z)
      /\ \A j \in 1..lx : t[j] = x[j]
      /\ \A j \in 1..ly : t[lx + j] = y[j]
      /\ \A j \in 1..Len(z) : t[lx + ly + j] = z[j]
  <2>1. z \in Seq(Byte)
    BY <1>1
  <2> QED
    BY <2>1, ThreeInARow
<1>4. Agree(s, t)
  BY DEF z
<1>5. lx = Len(x) /\ ly = Len(y) /\ lw = Len(w) /\ lv = Len(v)
  OBVIOUS
<1> HIDE DEF t, lx, ly, lw, lv
<1>6. Len(t) = lx + ly + lw + lv
  BY <1>1, <1>2, <1>3
<1>7. \A j \in 1..Len(s) : j <= lx + ly + lw + lv => s[j] = t[j]
  BY <1>4, <1>6 DEF Agree
<1>8. ASSUME Len(s) >= lx + ly
      PROVE  Field(s, 0, lx) = x /\ Field(s, lx, ly) = y
  <2>1. ASSUME NEW j \in 1..lx
        PROVE  s[0 + j] = x[j]
    BY <1>2, <1>3, <1>7, <1>8
  <2>2. ASSUME NEW j \in 1..ly
        PROVE  s[lx + j] = y[j]
    <3>1. lx + j \in 1..Len(s) /\ lx + j <= lx + ly + lw + lv
      BY <1>2, <1>8
    <3>2. s[lx + j] = t[lx + j] /\ t[lx + j] = y[j]
      BY <1>3, <1>7, <3>1
    <3> QED
      BY <3>2
  <2>3. 0 \in Nat /\ 0 + lx <= Len(s) /\ lx + ly <= Len(s)
    BY <1>2, <1>8
  <2>4. Field(s, 0, lx) = x
    BY <1>5, <2>1, <2>3, FieldIs
  <2>5. Field(s, lx, ly) = y
    <3>1. lx \in Nat /\ ly = Len(y)
      BY <1>2, <1>5
    <3>2. \A j \in 1..Len(y) : s[lx + j] = y[j]
      BY <2>2, <3>1
    <3> QED
      BY <2>3, <3>1, <3>2, FieldIs
  <2> QED
    BY <2>4, <2>5
<1>9. ASSUME Len(s) >= lx + ly + lw
      PROVE  Field(s, lx + ly, lw) = w
  <2> DEFINE d == lx + ly
  <2>1. ASSUME NEW j \in 1..lw
        PROVE  s[d + j] = w[j]
    <3>1. j \in 1..Len(z) /\ d + j \in 1..Len(s) /\ d + j <= lx + ly + lw + lv
      BY <1>1, <1>2, <1>5, <1>9
    <3>2. t[d + j] = z[j] /\ z[j] = w[j]
      BY <1>1, <1>3, <1>5, <3>1
    <3> HIDE DEF d
    <3>3. s[d + j] = t[d + j]
      BY <1>7, <3>1
    <3> QED
      BY <3>2, <3>3
  <2>2. d \in Nat /\ d + lw <= Len(s)
    BY <1>2, <1>9
  <2> HIDE DEF d
  <2>3. Field(s, d, lw) = w
    BY <1>5, <2>1, <2>2, FieldIs
  <2> QED
    BY <2>3 DEF d
<1>10. ASSUME Len(s) >= lx + ly + lw + lv
       PROVE  Field(s, lx + ly + lw, lv) = v
  <2> DEFINE d == lx + ly + lw
  <2>1. ASSUME NEW j \in 1..lv
        PROVE  s[d + j] = v[j]
    <3> DEFINE i == lw + j
    <3>1. /\ i \in 1..Len(z) /\ d + j \in 1..Len(s)
          /\ d + j <= lx + ly + lw + lv /\ d + j = lx + ly + i
      BY <1>1, <1>2, <1>5, <1>10
    <3>2. z[i] = v[j]
      BY <1>1, <1>5
    <3> HIDE DEF d, i
    <3>3. t[lx + ly + i] = z[i]
      BY <1>3, <3>1
    <3>4. s[d + j] = t[d + j]
      BY <1>7, <3>1
    <3> QED
      BY <3>1, <3>2, <3>3, <3>4
  <2>2. d \in Nat /\ d + lv <= Len(s)
    BY <1>2, <1>10
  <2> HIDE DEF d
  <2>3. Field(s, d, lv) = v
    BY <1>5, <2>1, <2>2, FieldIs
  <2> QED
    BY <2>3 DEF d
<1> QED
  BY <1>5, <1>6, <1>8, <1>9, <1>10 DEF Fields, t, z

\* What a turn has to find where a record of b bytes stands.
Turn(r, b, s, found) ==
    IF r.n < 0 \/ Len(s) < Len(b) THEN found = {}
    ELSE found = {[uuid |-> r.uuid, head |-> r.head, parts |-> r.parts,
                   len |-> Len(b) + Len(Padding(Len(b)))]}

\* A record is padded to a multiple of four bytes.
LEMMA PaddingSize ==
    ASSUME NEW l \in Nat
    PROVE  /\ Padding(l) \in Seq(Byte) /\ Len(Padding(l)) = (4 - (l % 4)) % 4
           /\ l + Len(Padding(l)) = ((l + 3) \div 4) * 4
           /\ l % 4 = 0 => Len(Padding(l)) = 0
<1> DEFINE m == (4 - (l % 4)) % 4
<1>1. m \in 0..3 /\ l + m = ((l + 3) \div 4) * 4 /\ (l % 4 = 0 => m = 0)
  OBVIOUS
<1>2. Padding(l) = [i \in 1..m |-> 0]
  BY DEF Padding
<1> HIDE DEF m
<1>3. Padding(l) \in [1..m -> Byte]
  BY <1>2 DEF Byte
<1>4. Padding(l) \in Seq(Byte) /\ Len(Padding(l)) = m
  BY <1>1, <1>3
<1> QED
  BY <1>1, <1>4 DEF m

\* A whole record of a daytimer or weather table is found, and no other.
LEMMA TableTurn ==
    ASSUME NEW size \in {DAYTIMER_ENTRY_SIZE, WEATHER_ENTRY_SIZE}, NEW header \in {24, 28},
           NEW r, Len(r.uuid) = UUID, Len(r.head) = header - UUID - WORD,
           r.n \in Int, -MaxI32 <= r.n, r.n <= MaxI32, r.parts \in Seq([1..size -> Byte]),
           IF r.n < 0 THEN r.parts = <<>> ELSE r.n = Len(r.parts),
           NEW b \in Seq(Byte), NEW s \in Seq(Byte),
           Fields(s, b, r.uuid, r.head, Word(r.n), Flat(r.parts, size))
    PROVE  Turn(r, b, s, split_table(s, header, size)) /\ Len(b) > 0
<1> DEFINE x == r.uuid  y == r.head  w == Word(r.n)  v == Flat(r.parts, size)
           lv == Len(v)  l == Len(s)  n == I32(Field(s, header - WORD, WORD))
<1>1. w \in Seq(Byte) /\ Len(w) = 4 /\ I32(w) = r.n
  BY WordRead DEF WORD
<1>2. v \in Seq(Byte) /\ lv = Len(r.parts) * size /\ lv % 4 = 0
      /\ entries_of(v, size) = r.parts
  BY FlatEntries
<1>3. Len(x) = 16 /\ Len(y) = header - 20 /\ l \in Nat /\ lv \in Nat
      /\ size \in {24, 68} /\ Len(r.parts) \in Nat
  BY <1>2 DEF UUID, WORD, DOUBLE, DAYTIMER_ENTRY_SIZE, WEATHER_ENTRY_SIZE
<1>4. Fields(s, b, x, y, w, v)
  OBVIOUS
<1> HIDE DEF w, v, x, y
<1>5. /\ Len(b) = 16 + (header - 20) + 4 + lv
      /\ l >= 16 + (header - 20) =>
           Field(s, 0, 16) = x /\ Field(s, 16, header - 20) = y
      /\ l >= 16 + (header - 20) + 4 => Field(s, 16 + (header - 20), 4) = w
      /\ l >= 16 + (header - 20) + 4 + lv => Field(s, 16 + (header - 20) + 4, lv) = v
  <2> DEFINE lx == Len(x)  ly == Len(y)  lw == Len(w)
  <2>1. lx = 16 /\ ly = header - 20 /\ lw = 4
    BY <1>1, <1>3
  <2>2. /\ Len(b) = lx + ly + lw + lv
        /\ l >= lx + ly => Field(s, 0, lx) = x /\ Field(s, lx, ly) = y
        /\ l >= lx + ly + lw => Field(s, lx + ly, lw) = w
        /\ l >= lx + ly + lw + lv => Field(s, lx + ly + lw, lv) = v
    BY <1>4 DEF Fields
  <2> HIDE DEF lx, ly, lw, lv, l
  <2> QED
    BY <2>1, <2>2, Zenon
<1> HIDE DEF lv, l
<1>6. /\ Len(b) = header + lv /\ Len(b) > 0
      /\ l >= header => /\ Field(s, 0, 16) = x /\ Field(s, 16, header - 20) = y
                        /\ Field(s, header - 4, 4) = w
      /\ l >= header + lv => Field(s, header, lv) = v
  <2>1. /\ 16 + (header - 20) = header - 4 /\ 16 + (header - 20) + 4 = header
        /\ header + lv > 0 /\ (l >= header => l >= header - 4)
    BY <1>3
  <2>2. Len(b) = header + lv
    BY <1>5, <2>1
  <2>3. l >= header => Field(s, 0, 16) = x /\ Field(s, 16, header - 20) = y
    BY <1>5, <2>1
  <2>4. l >= header => Field(s, header - 4, 4) = w
    BY <1>5, <2>1
  <2>5. l >= header + lv => Field(s, header, lv) = v
    BY <1>5, <2>1
  <2> QED
    BY <2>1, <2>2, <2>3, <2>4, <2>5
<1>7. l >= header => n = r.n
  <2>1. l >= header => Field(s, header - WORD, WORD) = w
    BY <1>6 DEF WORD
  <2> QED
    BY <1>1, <2>1
<1>8. Len(Padding(Len(b))) = 0
  <2>1. (header + lv) % 4 = 0 /\ header + lv \in Nat
    <3>1. lv % 4 = 0 /\ lv \in Nat
      BY <1>2, <1>3
    <3>2. CASE header = 24
      BY <3>1, <3>2
    <3>3. CASE header = 28
      BY <3>1, <3>3
    <3> QED
      BY <3>2, <3>3
  <2>2. Len(Padding(header + lv)) = 0
    BY <2>1, PaddingSize
  <2> QED
    BY <1>6, <2>2
<1>9. split_table(s, header, size) =
        IF l < header THEN {} ELSE IF n < 0 \/ n * size > l - header THEN {}
        ELSE {[uuid |-> Field(s, 0, 16), head |-> Field(s, 16, header - 20),
               parts |-> entries_of(Field(s, header, n * size), size),
               len |-> header + n * size]}
  <2>1. header - UUID - WORD = header - 20
    BY DEF UUID, WORD
  <2> QED
    BY <2>1 DEF split_table, UUID, l
<1> HIDE DEF n, l, lv
<1>10. CASE l < header
  <2>1. l < Len(b)
    <3>1. Len(b) = header + lv /\ lv \in Nat /\ l \in Nat
      BY <1>3, <1>6
    <3> QED
      BY <1>10, <3>1
  <2> QED
    BY <1>6, <1>9, <1>10, <2>1 DEF Turn, l
<1>11. CASE ~(l < header) /\ r.n < 0
  <2>1. n = r.n
    BY <1>3, <1>7, <1>11
  <2> QED
    BY <1>6, <1>9, <1>11, <2>1 DEF Turn, l
<1>12. CASE ~(l < header) /\ ~(r.n < 0)
  <2>1. n = r.n /\ r.n = Len(r.parts) /\ l >= header
    BY <1>3, <1>7, <1>12
  <2>2. n * size = lv
    BY <1>2, <2>1
  <2>3. l < Len(b) <=> lv > l - header
    BY <1>3, <1>6
  <2>4. CASE l < Len(b)
    <3>1. split_table(s, header, size) = {}
      BY <1>9, <1>12, <2>2, <2>3, <2>4
    <3> QED
      BY <1>6, <2>4, <3>1 DEF Turn, l
  <2>5. CASE ~(l < Len(b))
    <3>1. ~(n < 0 \/ lv > l - header) /\ l >= header + lv
      <4>1. ~(n < 0)
        BY <1>12, <2>1
      <4>2. ~(lv > l - header)
        BY <2>3, <2>5
      <4> QED
        BY <1>3, <4>1, <4>2
    <3>2. split_table(s, header, size) =
            {[uuid |-> Field(s, 0, 16), head |-> Field(s, 16, header - 20),
              parts |-> entries_of(Field(s, header, lv), size), len |-> header + lv]}
      BY <1>9, <1>12, <2>2, <3>1
    <3>3. /\ Field(s, 0, 16) = x /\ Field(s, 16, header - 20) = y
          /\ entries_of(Field(s, header, lv), size) = r.parts
      BY <1>2, <1>6, <2>1, <3>1
    <3>4. header + lv = Len(b) + Len(Padding(Len(b)))
      BY <1>3, <1>6, <1>8
    <3>5. split_table(s, header, size) =
            {[uuid |-> x, head |-> y, parts |-> r.parts,
              len |-> Len(b) + Len(Padding(Len(b)))]}
      BY <3>2, <3>3, <3>4
    <3> QED
      BY <1>6, <1>12, <2>5, <3>5 DEF Turn, l, x, y
  <2> QED
    BY <2>4, <2>5
<1> QED
  BY <1>10, <1>11, <1>12

\* A whole record of a text table is found, and no other.
LEMMA TextTurn ==
    ASSUME NEW r, Len(r.uuid) = UUID, Len(r.head) = UUID,
           NEW t \in Seq(Byte), U32(Word(Len(t))) = Len(t), r.parts = <<t>>, r.n = Len(t),
           NEW b \in Seq(Byte), NEW s \in Seq(Byte),
           Fields(s, b, r.uuid, r.head, Word(r.n), t)
    PROVE  Turn(r, b, s, walk_texts(s)) /\ Len(b) > 0
<1> DEFINE w == Word(r.n)  x == r.uuid  y == r.head  lt == Len(t)  l == Len(s)
           n == U32(Field(s, 2 * UUID, WORD))
<1>1. Len(x) = 16 /\ Len(y) = 16 /\ r.n = lt /\ lt \in Nat /\ l \in Nat
  BY DEF UUID
<1>3. w \in Seq(Byte) /\ Len(w) = 4 /\ U32(w) = lt
  BY <1>1, WordBytes DEF WORD
<1>4. Fields(s, b, x, y, w, t)
  OBVIOUS
<1> HIDE DEF w, x, y
<1>6. /\ Len(b) = 36 + lt
      /\ l >= 36 => Field(s, 0, 16) = x /\ Field(s, 16, 16) = y /\ Field(s, 32, 4) = w
      /\ l >= 36 + lt => Field(s, 36, lt) = t
  <2> DEFINE lx == Len(x)  ly == Len(y)  lw == Len(w)
  <2>1. lx = 16 /\ ly = 16 /\ lw = 4
    BY <1>1, <1>3
  <2>2. /\ Len(b) = lx + ly + lw + lt
        /\ l >= lx + ly => Field(s, 0, lx) = x /\ Field(s, lx, ly) = y
        /\ l >= lx + ly + lw => Field(s, lx + ly, lw) = w
        /\ l >= lx + ly + lw + lt => Field(s, lx + ly + lw, lt) = t
    BY <1>4 DEF Fields
  <2> HIDE DEF lx, ly, lw, lt, l
  <2>3. 16 + 16 = 32 /\ 32 + 4 = 36 /\ (l >= 36 => l >= 32)
    BY <1>1
  <2> QED
    BY <2>1, <2>2, <2>3, Zenon
<1> HIDE DEF lt, l
<1>7. l >= 36 => n = lt
  <2>1. l >= 36 => Field(s, 2 * UUID, WORD) = w
    BY <1>6 DEF UUID, WORD
  <2> QED
    BY <1>3, <2>1
<1>8. record_len(lt) = Len(b) + Len(Padding(Len(b)))
  <2>1. record_len(lt) = ((36 + lt + 3) \div 4) * 4
    BY DEF record_len, TEXT_HEADER_SIZE, UUID, WORD
  <2>2. (36 + lt) + Len(Padding(36 + lt)) = ((36 + lt + 3) \div 4) * 4
    BY <1>1, PaddingSize
  <2> QED
    BY <1>6, <2>1, <2>2
<1>9. walk_texts(s) =
        IF l < 36 THEN {} ELSE IF n > l - 36 THEN {}
        ELSE {[uuid |-> Field(s, 0, 16), head |-> Field(s, 16, 16),
               parts |-> <<Field(s, 36, n)>>, len |-> record_len(n)]}
  <2>1. TEXT_HEADER_SIZE = 36 /\ UUID = 16
    BY DEF TEXT_HEADER_SIZE, UUID, WORD
  <2> QED
    BY <2>1 DEF walk_texts, l
<1> HIDE DEF n
<1>10. ~(r.n < 0) /\ Len(b) > 0
  BY <1>1, <1>6
<1>11. CASE l < Len(b)
  <2>1. walk_texts(s) = {}
    <3>1. CASE l < 36
      BY <1>9, <3>1
    <3>2. CASE ~(l < 36)
      <4>1. n > l - 36
        BY <1>1, <1>6, <1>7, <1>11, <3>2
      <4> QED
        BY <1>9, <3>2, <4>1
    <3> QED
      BY <3>1, <3>2
  <2> QED
    BY <1>10, <1>11, <2>1 DEF Turn, l
<1>12. CASE ~(l < Len(b))
  <2>1. l >= 36 /\ ~(l < 36) /\ l >= 36 + lt /\ ~(lt > l - 36)
    BY <1>1, <1>6, <1>12
  <2>2. n = lt
    BY <1>7, <2>1
  <2>3. walk_texts(s) = {[uuid |-> Field(s, 0, 16), head |-> Field(s, 16, 16),
                          parts |-> <<Field(s, 36, lt)>>, len |-> record_len(lt)]}
    BY <1>9, <2>1, <2>2
  <2>4. walk_texts(s) = {[uuid |-> x, head |-> y, parts |-> r.parts,
                          len |-> Len(b) + Len(Padding(Len(b)))]}
    BY <1>6, <1>8, <2>1, <2>3
  <2> QED
    BY <1>10, <1>12, <2>4 DEF Turn, l, x, y
<1> QED
  BY <1>11, <1>12

\* A whole record of a value table is found, and no other.
LEMMA ValueTurn ==
    ASSUME NEW r, Len(r.uuid) = UUID, Len(r.head) = DOUBLE, r.parts = <<>>, r.n = 0,
           NEW b \in Seq(Byte), NEW s \in Seq(Byte), Fields(s, b, r.uuid, r.head, <<>>, <<>>)
    PROVE  Turn(r, b, s, walk_values(s)) /\ Len(b) > 0
<1> DEFINE x == r.uuid  y == r.head  w == <<>>  l == Len(s)
<1>1. Len(x) = 16 /\ Len(y) = 8 /\ l \in Nat /\ Len(w) = 0
  BY DEF UUID, DOUBLE
<1>2. Fields(s, b, x, y, w, w)
  OBVIOUS
<1> HIDE DEF x, y, w
<1>5. /\ Len(b) = 24
      /\ l >= 24 => Field(s, 0, 16) = x /\ Field(s, 16, 8) = y
  <2>1. /\ Len(b) = 16 + 8 + 0 + 0
        /\ l >= 16 + 8 => Field(s, 0, 16) = x /\ Field(s, 16, 8) = y
    BY <1>1, <1>2 DEF Fields
  <2> QED
    BY <2>1
<1>6. Len(Padding(24)) = 0
  <2>1. 24 \in Nat /\ 24 % 4 = 0
    OBVIOUS
  <2> QED
    BY <2>1, PaddingSize
<1>7. walk_values(s) =
        IF l < 24 THEN {}
        ELSE {[uuid |-> Field(s, 0, 16), head |-> Field(s, 16, 8), parts |-> <<>>, len |-> 24]}
  BY DEF walk_values, VALUE_RECORD_SIZE, UUID, DOUBLE
<1> HIDE DEF l
<1>8. CASE l < 24
  BY <1>5, <1>7, <1>8 DEF Turn, l
<1>9. CASE ~(l < 24)
  <2>1. walk_values(s) = {[uuid |-> x, head |-> y, parts |-> r.parts,
                           len |-> Len(b) + Len(Padding(Len(b)))]}
    BY <1>1, <1>5, <1>6, <1>7, <1>9
  <2> QED
    BY <1>5, <1>9, <2>1 DEF Turn, l, x, y
<1> QED
  BY <1>8, <1>9

\* The turn for a record of kind k finds it when it is all there.
Found(k, r) ==
    /\ r.n \in Int /\ Encode(k, r) \in Seq(Byte) /\ Len(Encode(k, r)) > 0
    /\ \A s \in Seq(Byte) : Agree(s, Encode(k, r)) =>
                              Turn(r, Encode(k, r), s, dispatch_event(k, s))

\* A record with its fields in front of w and v, found wherever these four are.
LEMMA FoundByFields ==
    ASSUME NEW k, NEW r, NEW w \in Seq(Byte), NEW v \in Seq(Byte), r.n \in Int,
           r.uuid \in Seq(Byte), r.head \in Seq(Byte), Body(k, r) = w \o v,
           \A b \in Seq(Byte), s \in Seq(Byte) : Fields(s, b, r.uuid, r.head, w, v) =>
             Turn(r, b, s, dispatch_event(k, s)) /\ Len(b) > 0
    PROVE  Found(k, r)
<1> DEFINE b == Encode(k, r)  x == r.uuid  y == r.head
<1>1. x \in Seq(Byte) /\ y \in Seq(Byte) /\ b = x \o y \o (w \o v)
  BY DEF Encode
<1>2. \A s \in Seq(Byte) : b \in Seq(Byte) /\ Fields(s, b, x, y, w, v) =>
        Turn(r, b, s, dispatch_event(k, s)) /\ Len(b) > 0
  OBVIOUS
<1> HIDE DEF b, x, y
<1>3. b \in Seq(Byte)
  <2>1. w \o v \in Seq(Byte)
    OBVIOUS
  <2> QED
    BY <1>1, <2>1, ThreeInARow
<1>4. ASSUME NEW s \in Seq(Byte), Agree(s, b)
      PROVE  Turn(r, b, s, dispatch_event(k, s)) /\ Len(b) > 0
  <2>1. Agree(s, x \o y \o (w \o v))
    BY <1>1, <1>4
  <2>2. Fields(s, x \o y \o (w \o v), x, y, w, v)
    BY <1>1, <2>1, FourFields
  <2>3. Fields(s, b, x, y, w, v)
    BY <1>1, <2>2
  <2> QED
    BY <1>2, <1>3, <2>3
<1>5. Len(b) > 0
  BY <1>3, <1>4, AgreeSelf
<1> QED
  BY <1>3, <1>4, <1>5 DEF Found, b

\* A value record is found.
LEMMA ValueFound ==
    ASSUME NEW u \in Uuids, NEW d \in Doubles
    PROVE  Found("ValueStates", Record(u, d, 0, <<>>))
<1> DEFINE r == Record(u, d, 0, <<>>)
<1>1. r.uuid = u /\ r.head = d /\ r.n = 0 /\ r.parts = <<>>
  BY DEF Record
<1>2. u \in [1..UUID -> Byte] /\ d \in [1..DOUBLE -> Byte] /\ UUID \in Nat /\ DOUBLE \in Nat
  BY TableAssumption DEF UUID, DOUBLE
<1> HIDE DEF r
<1>3. r.uuid \in Seq(Byte) /\ Len(r.uuid) = UUID /\ r.head \in Seq(Byte) /\ Len(r.head) = DOUBLE
  BY <1>1, <1>2, FixedSize
<1>4. Body("ValueStates", r) = <<>> \o <<>> /\ <<>> \in Seq(Byte)
  BY DEF Body
<1>5. ASSUME NEW b \in Seq(Byte), NEW s \in Seq(Byte), Fields(s, b, r.uuid, r.head, <<>>, <<>>)
      PROVE  Turn(r, b, s, dispatch_event("ValueStates", s)) /\ Len(b) > 0
  <2>1. dispatch_event("ValueStates", s) = walk_values(s)
    BY DEF dispatch_event
  <2> QED
    BY <1>1, <1>3, <1>5, <2>1, ValueTurn
<1>6. Found("ValueStates", r)
  <2>1. r.n \in Int
    BY <1>1
  <2> QED
    BY <1>3, <1>4, <1>5, <2>1, FoundByFields
<1> QED
  BY <1>6 DEF r

TextRecord(u, i, t) == Record(u, i, Len(t), <<t>>)

\* A text record is found, whatever its text and its icon.
LEMMA TextFound ==
    ASSUME NEW u \in Uuids, NEW d \in Uuids, NEW t \in Texts
    PROVE  Found("TextStates", Record(u, d, Len(t), <<t>>))
<1> DEFINE r == Record(u, d, Len(t), <<t>>)
<1>1. r.uuid = u /\ r.head = d /\ r.n = Len(t) /\ r.parts = <<t>> /\ r.parts[1] = t
  BY DEF Record
<1>2. u \in [1..UUID -> Byte] /\ d \in [1..UUID -> Byte] /\ UUID \in Nat
  BY TableAssumption DEF UUID
<1>3. t \in Seq(Byte) /\ U32(Word(Len(t))) = Len(t) /\ Len(t) \in Nat
  BY TableAssumption
<1> HIDE DEF r
<1>4. r.uuid \in Seq(Byte) /\ Len(r.uuid) = UUID /\ r.head \in Seq(Byte) /\ Len(r.head) = UUID
  BY <1>1, <1>2, FixedSize
<1>5. r.n \in Int /\ Word(r.n) \in Seq(Byte)
  BY <1>1, <1>3, WordBytes
<1>6. Body("TextStates", r) = Word(r.n) \o t
  BY <1>1 DEF Body
<1>7. ASSUME NEW b \in Seq(Byte), NEW s \in Seq(Byte), Fields(s, b, r.uuid, r.head, Word(r.n), t)
      PROVE  Turn(r, b, s, dispatch_event("TextStates", s)) /\ Len(b) > 0
  <2>1. dispatch_event("TextStates", s) = walk_texts(s)
    BY DEF dispatch_event
  <2> QED
    BY <1>1, <1>3, <1>4, <1>7, <2>1, TextTurn
<1>8. Found("TextStates", r)
  BY <1>3, <1>4, <1>5, <1>6, <1>7, FoundByFields
<1> QED
  BY <1>8 DEF r

\* The same of a table, whose records end with entries of one size.
LEMMA TableFound ==
    ASSUME NEW k, NEW size \in {DAYTIMER_ENTRY_SIZE, WEATHER_ENTRY_SIZE}, NEW header \in {24, 28},
           NEW heads, heads \subseteq [1..(header - 20) -> Byte],
           NEW entries, entries \subseteq Seq([1..size -> Byte]),
           \A e \in entries : Len(e) <= MaxI32, NEW r \in TablesOf(heads, entries),
           Body(k, r) = Word(r.n) \o Flat(r.parts, size),
           \A s \in Seq(Byte) : dispatch_event(k, s) = split_table(s, header, size)
    PROVE  Found(k, r)
<1>1. /\ r.uuid \in Uuids /\ r.head \in heads
      /\ \/ r.parts \in entries /\ r.n = Len(r.parts)
         \/ r.parts = <<>> /\ r.n \in Negatives
  <2> DEFINE Counted == {Record(u, h, Len(e), e) : u \in Uuids, h \in heads, e \in entries}
             Negative == {Record(u, h, n, <<>>) : u \in Uuids, h \in heads, n \in Negatives}
  <2>0. r \in Counted \/ r \in Negative
    BY DEF TablesOf
  <2>1. CASE r \in Counted
    <3>1. PICK u \in Uuids, h \in heads, e \in entries : r = Record(u, h, Len(e), e)
      BY <2>1
    <3> QED
      BY <3>1 DEF Record
  <2>2. CASE r \in Negative
    <3>1. PICK u \in Uuids, h \in heads, n \in Negatives : r = Record(u, h, n, <<>>)
      BY <2>2
    <3> QED
      BY <3>1 DEF Record
  <2> HIDE DEF Counted, Negative
  <2> QED
    BY <2>0, <2>1, <2>2, Zenon
<1>2. /\ r.uuid \in Seq(Byte) /\ Len(r.uuid) = UUID
      /\ r.head \in Seq(Byte) /\ Len(r.head) = header - UUID - WORD
  <2>1. r.uuid \in [1..UUID -> Byte] /\ UUID \in Nat
    BY <1>1, TableAssumption DEF UUID
  <2>2. r.head \in [1..(header - 20) -> Byte] /\ header - 20 \in Nat
    BY <1>1
  <2>3. header - UUID - WORD = header - 20
    BY DEF UUID, WORD
  <2> QED
    BY <2>1, <2>2, <2>3, FixedSize
<1>3. /\ r.n \in Int /\ -MaxI32 <= r.n /\ r.n <= MaxI32 /\ r.parts \in Seq([1..size -> Byte])
      /\ IF r.n < 0 THEN r.parts = <<>> ELSE r.n = Len(r.parts)
  <2>1. MaxI32 \in Nat
    BY DEF MaxI32
  <2>2. CASE r.parts \in entries /\ r.n = Len(r.parts)
    BY <2>1, <2>2
  <2>3. CASE r.parts = <<>> /\ r.n \in Negatives
    <3>1. r.n \in Int /\ -MaxI32 <= r.n /\ r.n < 0
      BY <2>3, TableAssumption
    <3>2. r.parts \in Seq([1..size -> Byte])
      BY <2>3
    <3>3. r.n <= MaxI32
      BY <2>1, <3>1
    <3> QED
      BY <2>3, <3>1, <3>2, <3>3
  <2> QED
    BY <1>1, <2>2, <2>3
<1>4. Word(r.n) \in Seq(Byte) /\ Flat(r.parts, size) \in Seq(Byte)
  BY <1>3, WordRead, FlatEntries
<1>5. ASSUME NEW b \in Seq(Byte), NEW s \in Seq(Byte),
             Fields(s, b, r.uuid, r.head, Word(r.n), Flat(r.parts, size))
      PROVE  Turn(r, b, s, dispatch_event(k, s)) /\ Len(b) > 0
  <2>1. Turn(r, b, s, split_table(s, header, size)) /\ Len(b) > 0
    BY <1>2, <1>3, <1>5, TableTurn
  <2> QED
    BY <2>1
<1> QED
  BY <1>2, <1>3, <1>4, <1>5, FoundByFields

\* The same of every kind.
LEMMA RecordFound == \A k \in Kinds : \A r \in Records(k) : Found(k, r)
<1> SUFFICES ASSUME NEW k \in Kinds, NEW r \in Records(k)
             PROVE  Found(k, r)
  OBVIOUS
<1>1. CASE k = "ValueStates"
  <2>1. Records(k) = {Record(u, d, 0, <<>>) : u \in Uuids, d \in Doubles}
    BY <1>1 DEF Records
  <2> QED
    BY <1>1, <2>1, ValueFound
<1>2. CASE k = "TextStates"
  <2>1. Records(k) = {TextRecord(u, i, t) : u \in Uuids, i \in Uuids, t \in Texts}
    BY <1>2 DEF Records, TextRecord
  <2>2. \A u \in Uuids, i \in Uuids, t \in Texts : Found("TextStates", TextRecord(u, i, t))
    BY TextFound DEF TextRecord
  <2> QED
    BY <1>2, <2>1, <2>2
<1>3. CASE k = "DaytimerStates"
  <2>1. /\ Doubles \subseteq [1..(28 - 20) -> Byte]
        /\ Daytimers \subseteq Seq([1..DAYTIMER_ENTRY_SIZE -> Byte])
        /\ \A e \in Daytimers : Len(e) <= MaxI32
    BY TableAssumption DEF DOUBLE
  <2>2. r \in TablesOf(Doubles, Daytimers)
    BY <1>3 DEF Records
  <2>3. Body(k, r) = Word(r.n) \o Flat(r.parts, DAYTIMER_ENTRY_SIZE)
    BY <1>3 DEF Body
  <2>4. \A s \in Seq(Byte) : dispatch_event(k, s) = split_table(s, 28, DAYTIMER_ENTRY_SIZE)
    BY <1>3 DEF dispatch_event, walk_daytimers, DAYTIMER_HEADER_SIZE, UUID, DOUBLE, WORD
  <2>5. DAYTIMER_ENTRY_SIZE \in {DAYTIMER_ENTRY_SIZE, WEATHER_ENTRY_SIZE} /\ 28 \in {24, 28}
    OBVIOUS
  <2> QED
    BY <2>1, <2>2, <2>3, <2>4, <2>5, TableFound
<1>4. CASE k = "WeatherStates"
  <2>1. /\ Stamps \subseteq [1..(24 - 20) -> Byte]
        /\ Weathers \subseteq Seq([1..WEATHER_ENTRY_SIZE -> Byte])
        /\ \A e \in Weathers : Len(e) <= MaxI32
    BY TableAssumption DEF WORD
  <2>2. r \in TablesOf(Stamps, Weathers)
    BY <1>4 DEF Records
  <2>3. Body(k, r) = Word(r.n) \o Flat(r.parts, WEATHER_ENTRY_SIZE)
    BY <1>4 DEF Body
  <2>4. \A s \in Seq(Byte) : dispatch_event(k, s) = split_table(s, 24, WEATHER_ENTRY_SIZE)
    BY <1>4 DEF dispatch_event, walk_weather, WEATHER_HEADER_SIZE, UUID, WORD
  <2>5. WEATHER_ENTRY_SIZE \in {DAYTIMER_ENTRY_SIZE, WEATHER_ENTRY_SIZE} /\ 24 \in {24, 28}
    OBVIOUS
  <2> QED
    BY <2>1, <2>2, <2>3, <2>4, <2>5, TableFound
<1> QED
  BY <1>1, <1>2, <1>3, <1>4 DEF Kinds

-----------------------------------------------------------------------------
(* The walk's invariant                                                    *)

\* Record i, its bytes, and where the next one begins.
B(i) == Encode(kind, recs[i])
After(i) == starts[i] + Len(B(i)) + Len(Padding(Len(B(i))))

\* The table is its records in a row.
Laid ==
    /\ kind \in Kinds /\ recs \in Seq(Records(kind)) /\ starts \in Seq(Nat)
    /\ bytes \in Seq(Byte) /\ cut \in 0..Len(bytes) /\ Len(starts) = Len(recs)
    /\ IF recs = <<>> THEN bytes = <<>>
       ELSE starts[1] = 0 /\ After(Len(recs)) = Len(bytes)
    /\ \A i \in 1..(Len(recs) - 1) : After(i) = starts[i + 1]
    /\ \A i, j \in 1..Len(recs) : i < j => After(i) <= starts[j]
    /\ \A i \in 1..Len(recs) : After(i) <= Len(bytes)
    /\ \A i \in 1..Len(recs) : \A j \in 1..Len(B(i)) : bytes[starts[i] + j] = B(i)[j]

\* The walk is at the record after the ones it has called for, all of them whole, and has
\* ended only where no whole one is next.
Walked ==
    LET n == Len(seen)
    IN  /\ n \in 0..Len(recs) /\ seen = [i \in 1..n |-> Call(recs[i])]
        /\ \A i \in 1..n : Whole(i)
        /\ IF at = Done THEN n < Len(recs) => ~Whole(n + 1)
           ELSE /\ msg_type = kind /\ at \in 0..cut
                /\ at = IF n = Len(recs) THEN Len(bytes) ELSE starts[n + 1]

TableInv == Laid /\ Walked

\* An index of the records.
LEMMA RecordAt ==
    ASSUME Laid, NEW i \in 1..Len(recs)
    PROVE  /\ recs[i] \in Records(kind) /\ Found(kind, recs[i]) /\ starts[i] \in Nat
           /\ B(i) \in Seq(Byte) /\ Len(B(i)) \in Nat /\ Len(B(i)) > 0
           /\ Len(Padding(Len(B(i)))) \in Nat /\ After(i) \in Nat
<1>1. recs[i] \in Records(kind) /\ starts[i] \in Nat /\ kind \in Kinds
  BY DEF Laid
<1>2. Found(kind, recs[i])
  BY <1>1, RecordFound
<1>3. B(i) \in Seq(Byte) /\ Len(B(i)) > 0
  BY <1>2 DEF Found, B
<1>4. Len(B(i)) \in Nat
  BY <1>3
<1>5. Len(Padding(Len(B(i)))) \in Nat
  BY <1>4, PaddingSize
<1> QED
  BY <1>1, <1>2, <1>3, <1>4, <1>5 DEF After

\* A walk that has ended has called for the whole records.
LEMMA WalkedWhole == TableInv => RecordsWhole
<1> SUFFICES ASSUME Laid, Walked, at = Done
             PROVE  RecordsWhole
  BY DEF TableInv, RecordsWhole
<1> DEFINE n == Len(seen)  m == Len(recs)
<1>1. /\ n \in 0..m /\ seen = [i \in 1..n |-> Call(recs[i])] /\ m \in Nat
      /\ \A i \in 1..n : Whole(i)
      /\ n < m => ~Whole(n + 1)
  BY DEF Walked, Laid
<1> HIDE DEF n, m
<1>2. ASSUME NEW i \in 1..m, Whole(i), ~(i <= n)
      PROVE  FALSE
  <2>1. n + 1 \in 1..m /\ n < m /\ i >= n + 1 /\ n + 1 \in Nat
    BY <1>1, <1>2
  <2>2. ~Whole(n + 1)
    BY <1>1, <2>1
  <2>3. CASE i = n + 1
    BY <1>2, <2>2, <2>3
  <2>4. CASE i # n + 1
    <3> DEFINE k == n + 1
    <3>1. k \in 1..m /\ i \in 1..m /\ k < i
      BY <2>1, <2>4
    <3> HIDE DEF k
    <3>2. \A j \in 1..k : recs[j].n >= 0
      BY <1>2, <3>1 DEF Whole
    <3>3. starts[i] + Len(B(i)) <= cut
      BY <1>2 DEF Whole, B
    <3>4. /\ starts[i] \in Nat /\ Len(B(i)) \in Nat /\ starts[k] \in Nat /\ Len(B(k)) \in Nat
          /\ Len(Padding(Len(B(k)))) \in Nat
      BY <3>1, RecordAt DEF m
    <3>5. After(k) <= starts[i]
      BY <3>1 DEF Laid, m
    <3>6. cut \in Nat
      BY DEF Laid
    <3>7. starts[k] + Len(B(k)) <= cut
      BY <3>3, <3>4, <3>5, <3>6 DEF After
    <3> QED
      BY <2>2, <3>2, <3>7 DEF Whole, B, k
  <2> QED
    BY <2>3, <2>4
<1>3. DOMAIN recs = 1..m
  BY DEF Laid, m
<1>4. {i \in DOMAIN recs : Whole(i)} = 1..n
  <2>1. \A i \in 1..m : Whole(i) <=> i \in 1..n
    <3> SUFFICES ASSUME NEW i \in 1..m
                 PROVE  Whole(i) <=> i \in 1..n
      OBVIOUS
    <3>1. i \in 1..n <=> i <= n
      BY <1>1
    <3> QED
      BY <1>1, <1>2, <3>1
  <2>2. 1..n \subseteq 1..m
    BY <1>1
  <2> QED
    BY <1>3, <2>1, <2>2
<1>5. Cardinality(1..n) = n
  <2>1. 1 \in Int /\ n \in Int /\ ~(1 > n + 1)
    BY <1>1
  <2>2. Cardinality(1..n) = IF 1 > n THEN 0 ELSE n - 1 + 1
    BY <2>1, FS_Interval
  <2> QED
    BY <1>1, <2>2
<1> QED
  BY <1>1, <1>4, <1>5 DEF RecordsWhole

\* Two sequences in a row.
LEMMA TwoInARow ==
    ASSUME NEW x \in Seq(Byte), NEW y \in Seq(Byte)
    PROVE  /\ x \o y \in Seq(Byte) /\ Len(x \o y) = Len(x) + Len(y)
           /\ \A j \in 1..Len(x) : (x \o y)[j] = x[j]
  OBVIOUS

\* The message's header says which table it is.
LEMMA HeaderKind ==
    ASSUME kind \in Kinds, cut' \in Int, ReadTable
    PROVE  msg_type' = kind
<1> DEFINE id == CHOOSE v \in 0..7 : from_u8(v) = kind
           w == Word(cut')  buf == <<3, id, 0, 0>> \o w
<1>1. id \in 0..7 /\ from_u8(id) = kind
  <2>1. \E v \in 0..7 : from_u8(v) = kind
    <3>1. from_u8(2) = "ValueStates" /\ from_u8(3) = "TextStates"
      BY DEF from_u8, MessageTypes
    <3>2. from_u8(4) = "DaytimerStates" /\ from_u8(7) = "WeatherStates"
      BY DEF from_u8, MessageTypes
    <3>3. 2 \in 0..7 /\ 3 \in 0..7 /\ 4 \in 0..7 /\ 7 \in 0..7
      OBVIOUS
    <3> QED
      BY <3>1, <3>2, <3>3 DEF Kinds
  <2> QED
    BY <2>1
<1>2. msg_type' = from_u8(parse_header(buf).identifier)
  BY DEF ReadTable
<1>3. w \in Seq(Byte) /\ Len(w) = 4
  BY WordBytes DEF WORD
<1> HIDE DEF id, w
<1>4. Len(buf) = 8 /\ Head(buf) = 3 /\ buf[2] = id
  <2> DEFINE f == <<3, id, 0, 0>>
  <2>1. f \in Seq(Byte) /\ Len(f) = 4 /\ f[1] = 3 /\ f[2] = id
    BY <1>1 DEF Byte
  <2> HIDE DEF f
  <2>2. f \o w \in Seq(Byte) /\ Len(f \o w) = 8 /\ (f \o w)[1] = 3 /\ (f \o w)[2] = id
    <3>1. 1 \in 1..Len(f) /\ 2 \in 1..Len(f)
      BY <2>1
    <3>2. /\ f \o w \in Seq(Byte) /\ Len(f \o w) = Len(f) + Len(w)
          /\ \A j \in 1..Len(f) : (f \o w)[j] = f[j]
      BY <1>3, <2>1, TwoInARow
    <3>3. Len(f \o w) = 8
      BY <1>3, <2>1, <3>2
    <3> QED
      BY <2>1, <3>1, <3>2, <3>3, Zenon
  <2>3. Head(f \o w) = 3
    BY <2>2
  <2> QED
    BY <2>2, <2>3 DEF f
<1> HIDE DEF buf
<1>5. parse_header(buf).identifier = id
  BY <1>4 DEF parse_header
<1> QED
  BY <1>1, <1>2, <1>5

\* A message that is read has its walk at the first record.
LEMMA ReadWalked ==
    ASSUME kind \in Kinds, kind' = kind, Laid', recs' # <<>>, ReadTable
    PROVE  Walked'
<1>1. cut' \in Nat /\ starts'[1] = 0 /\ Len(recs') \in Nat /\ Len(recs') # 0
  BY DEF Laid
<1>2. msg_type' = kind'
  BY <1>1, HeaderKind
<1>3. at' = 0 /\ seen' = <<>>
  BY DEF ReadTable
<1>4. Len(seen') = 0 /\ seen' = [i \in 1..0 |-> Call(recs'[i])] /\ at' # Done
  BY <1>3 DEF Done
<1>5. at' \in 0..cut' /\ at' = starts'[0 + 1]
  BY <1>1, <1>3
<1> QED
  BY <1>1, <1>2, <1>4, <1>5 DEF Walked

\* Before any message there is nothing to walk.
LEMMA InitInv == TableInit => TableInv
<1> SUFFICES ASSUME TableInit
             PROVE  TableInv
  OBVIOUS
<1>1. /\ kind \in Kinds /\ recs = <<>> /\ bytes = <<>> /\ starts = <<>> /\ cut = 0
      /\ at = Done /\ seen = <<>>
  BY DEF TableInit, Kinds
<1>2. Len(recs) = 0 /\ Len(bytes) = 0 /\ Len(starts) = 0 /\ Len(seen) = 0
  BY <1>1
<1>3. Laid
  BY <1>1, <1>2 DEF Laid
<1>4. seen = [i \in 1..0 |-> Call(recs[i])]
  BY <1>1
<1>5. Walked
  BY <1>1, <1>2, <1>4 DEF Walked
<1> QED
  BY <1>3, <1>5 DEF TableInv

\* One more record begins where the table ended.
LEMMA RecordInv == TableInv /\ TableRecord => TableInv'
<1> SUFFICES ASSUME Laid, TableRecord
             PROVE  TableInv'
  BY DEF TableInv
<1>a. PICK m \in Nat : m = Len(recs)
  BY DEF Laid
<1>b. PICK l \in Nat : l = Len(bytes)
  BY DEF Laid
<1>0. /\ UNCHANGED kind /\ starts' = Append(starts, l) /\ cut' = cut + 1 /\ cut = l
      /\ ReadTable
  BY <1>b DEF TableRecord
<1>1. PICK r \in Records(kind) : /\ recs' = Append(recs, r)
                                 /\ bytes' = bytes \o Encode(kind, r) \o Padding(Len(Encode(kind, r)))
  BY DEF TableRecord
<1> DEFINE b == Encode(kind, r)  p == Padding(Len(b))
<1>2. /\ kind \in Kinds /\ m \in Nat /\ l \in Nat /\ Len(starts) = m /\ bytes \in Seq(Byte)
      /\ starts \in Seq(Nat) /\ recs \in Seq(Records(kind)) /\ cut \in Nat
  BY <1>a DEF Laid
<1>3. b \in Seq(Byte) /\ Len(b) \in Nat /\ Len(b) > 0
  BY <1>2, RecordFound DEF Found
<1>4. p \in Seq(Byte) /\ Len(p) \in Nat
  BY <1>3, PaddingSize
<1>5. bytes' = bytes \o b \o p
  BY <1>1
<1> HIDE DEF b, p
<1>6. /\ bytes' \in Seq(Byte) /\ Len(bytes') = l + Len(b) + Len(p)
      /\ \A j \in 1..l : bytes'[j] = bytes[j]
      /\ \A j \in 1..Len(b) : bytes'[l + j] = b[j]
  BY <1>b, <1>2, <1>3, <1>4, <1>5, ThreeInARow
<1>7. /\ recs' \in Seq(Records(kind)) /\ Len(recs') = m + 1 /\ recs'[m + 1] = r
      /\ \A i \in 1..m : recs'[i] = recs[i]
  BY <1>a, <1>1, <1>2
<1>8. /\ starts' \in Seq(Nat) /\ Len(starts') = m + 1 /\ starts'[m + 1] = l
      /\ \A i \in 1..m : starts'[i] = starts[i]
  BY <1>0, <1>2
<1>9. \A i \in 1..m : B(i)' = B(i) /\ After(i)' = After(i)
  BY <1>0, <1>7, <1>8 DEF B, After
<1>10. B(m + 1)' = b /\ After(m + 1)' = Len(bytes')
  <2>1. B(m + 1)' = b
    BY <1>0, <1>7 DEF B, b
  <2>2. After(m + 1)' = l + Len(b) + Len(p)
    BY <1>8, <2>1 DEF After, p
  <2> QED
    BY <1>6, <2>1, <2>2
<1>11. /\ \A i \in 1..m : After(i) <= l /\ starts[i] \in Nat /\ After(i) \in Nat
       /\ \A i \in 1..m : Len(B(i)) \in Nat /\ starts[i] + Len(B(i)) <= l
  <2> SUFFICES ASSUME NEW i \in 1..m
               PROVE  /\ After(i) <= l /\ starts[i] \in Nat /\ After(i) \in Nat
                      /\ Len(B(i)) \in Nat /\ starts[i] + Len(B(i)) <= l
    OBVIOUS
  <2>1. After(i) <= l
    BY <1>a, <1>b DEF Laid
  <2>2. /\ starts[i] \in Nat /\ Len(B(i)) \in Nat /\ Len(Padding(Len(B(i)))) \in Nat
        /\ After(i) \in Nat
    BY <1>a, RecordAt
  <2> QED
    BY <1>2, <2>1, <2>2 DEF After
<1>12. cut' \in 0..Len(bytes')
  BY <1>0, <1>2, <1>3, <1>4, <1>6
<1>13. recs' # <<>>
  BY <1>2, <1>7
<1>14. starts'[1] = 0
  <2>1. CASE m = 0
    <3>0. recs \in Seq(Records(kind)) /\ Len(recs) = 0
      BY <1>a, <1>2, <2>1
    <3>1. recs = <<>>
      BY <3>0, EmptySeq
    <3>2. bytes = <<>>
      BY <3>1 DEF Laid
    <3> QED
      BY <1>b, <1>8, <2>1, <3>2
  <2>2. CASE m # 0
    <3>1. 1 \in 1..m /\ recs # <<>>
      BY <1>a, <1>2, <2>2
    <3>2. starts[1] = 0
      BY <3>1 DEF Laid
    <3> QED
      BY <1>8, <3>1, <3>2
  <2> QED
    BY <2>1, <2>2
<1>15. \A i \in 1..((m + 1) - 1) : After(i)' = starts'[i + 1]
  <2> SUFFICES ASSUME NEW i \in 1..m
               PROVE  After(i)' = starts'[i + 1]
    BY <1>2
  <2>1. CASE i = m
    <3>1. recs # <<>>
      BY <1>a, <1>2, <2>1
    <3>2. After(m) = l
      BY <1>a, <1>b, <3>1 DEF Laid
    <3> QED
      BY <1>8, <1>9, <2>1, <3>2
  <2>2. CASE i # m
    <3>1. i \in 1..(m - 1) /\ i + 1 \in 1..m
      BY <1>2, <2>2
    <3>2. After(i) = starts[i + 1]
      BY <1>a, <3>1 DEF Laid
    <3> QED
      BY <1>8, <1>9, <3>1, <3>2
  <2> QED
    BY <2>1, <2>2
<1>16. \A i, j \in 1..(m + 1) : i < j => After(i)' <= starts'[j]
  <2> SUFFICES ASSUME NEW i \in 1..(m + 1), NEW j \in 1..(m + 1), i < j
               PROVE  After(i)' <= starts'[j]
    OBVIOUS
  <2>1. i \in 1..m
    BY <1>2
  <2>2. CASE j = m + 1
    BY <1>8, <1>9, <1>11, <2>1, <2>2
  <2>3. CASE j # m + 1
    <3>1. j \in 1..m
      BY <1>2, <2>3
    <3>2. After(i) <= starts[j]
      BY <1>a, <2>1, <3>1 DEF Laid
    <3> QED
      BY <1>8, <1>9, <2>1, <3>1, <3>2
  <2> QED
    BY <2>2, <2>3
<1>17. \A i \in 1..(m + 1) : After(i)' <= Len(bytes')
  <2> SUFFICES ASSUME NEW i \in 1..(m + 1)
               PROVE  After(i)' <= Len(bytes')
    OBVIOUS
  <2>1. CASE i = m + 1
    BY <1>2, <1>3, <1>4, <1>6, <1>10, <2>1
  <2>2. CASE i # m + 1
    <3>1. i \in 1..m
      BY <1>2, <2>2
    <3>2. After(i)' <= l /\ After(i)' \in Nat
      BY <1>9, <1>11, <3>1
    <3> QED
      BY <1>2, <1>3, <1>4, <1>6, <3>2
  <2> QED
    BY <2>1, <2>2
<1>18. \A i \in 1..(m + 1) : \A j \in 1..Len(B(i)') : bytes'[starts'[i] + j] = B(i)'[j]
  <2> SUFFICES ASSUME NEW i \in 1..(m + 1), NEW j \in 1..Len(B(i)')
               PROVE  bytes'[starts'[i] + j] = B(i)'[j]
    OBVIOUS
  <2>1. CASE i = m + 1
    BY <1>6, <1>8, <1>10, <2>1
  <2>2. CASE i # m + 1
    <3>1. i \in 1..m
      BY <1>2, <2>2
    <3>2. B(i)' = B(i) /\ starts'[i] = starts[i] /\ j \in 1..Len(B(i))
      BY <1>8, <1>9, <3>1
    <3>3. bytes[starts[i] + j] = B(i)[j]
      BY <1>a, <3>1, <3>2 DEF Laid
    <3>4. starts[i] + j \in 1..l
      <4>1. starts[i] \in Nat /\ Len(B(i)) \in Nat /\ starts[i] + Len(B(i)) <= l
        BY <1>11, <3>1
      <4> QED
        BY <1>2, <3>2, <4>1
    <3> QED
      BY <1>6, <3>2, <3>3, <3>4
  <2> QED
    BY <2>1, <2>2
<1>19. Laid'
  <2>1. kind' \in Kinds /\ recs' \in Seq(Records(kind')) /\ starts' \in Seq(Nat)
        /\ bytes' \in Seq(Byte) /\ Len(starts') = Len(recs')
    BY <1>0, <1>2, <1>6, <1>7, <1>8
  <2>2. After(Len(recs))' = Len(bytes')
    BY <1>7, <1>10
  <2>3. \A i \in 1..(Len(recs') - 1) : After(i)' = starts'[i + 1]
    BY <1>7, <1>15
  <2>4. \A i, j \in 1..Len(recs') : i < j => After(i)' <= starts'[j]
    BY <1>7, <1>16
  <2>5. \A i \in 1..Len(recs') : After(i)' <= Len(bytes')
    BY <1>7, <1>17
  <2>6. \A i \in 1..Len(recs') : \A j \in 1..Len(B(i)') : bytes'[starts'[i] + j] = B(i)'[j]
    BY <1>7, <1>18
  <2> QED
    BY <1>12, <1>13, <1>14, <2>1, <2>2, <2>3, <2>4, <2>5, <2>6 DEF Laid
<1>20. Walked'
  BY <1>0, <1>2, <1>13, <1>19, ReadWalked
<1> QED
  BY <1>19, <1>20 DEF TableInv

\* One more byte of the table is read from its first record on.
LEMMA ByteInv == TableInv /\ TableByte => TableInv'
<1> SUFFICES ASSUME Laid, TableByte
             PROVE  TableInv'
  BY DEF TableInv
<1>1. UNCHANGED <<kind, recs, bytes, starts>> /\ ReadTable /\ cut' = cut + 1 /\ cut < Len(bytes)
  BY DEF TableByte
<1>2. \A i : B(i)' = B(i) /\ After(i)' = After(i)
  BY <1>1 DEF B, After
<1>3. cut' \in 0..Len(bytes')
  BY <1>1 DEF Laid
<1>4. Laid'
  BY <1>1, <1>2, <1>3 DEF Laid
<1>5. recs' # <<>> /\ kind \in Kinds
  BY <1>1 DEF Laid
<1>6. Walked'
  BY <1>1, <1>4, <1>5, ReadWalked
<1> QED
  BY <1>4, <1>6 DEF TableInv

\* At the end of a table no walker finds a record.
LEMMA NothingLeft ==
    ASSUME NEW k, NEW s, Len(s) = 0
    PROVE  dispatch_event(k, s) = {}
<1>1. walk_values(s) = {} /\ walk_texts(s) = {}
  BY DEF walk_values, walk_texts, VALUE_RECORD_SIZE, TEXT_HEADER_SIZE, UUID, DOUBLE, WORD
<1>2. walk_daytimers(s) = {}
  BY DEF walk_daytimers, split_table, DAYTIMER_HEADER_SIZE, UUID, DOUBLE, WORD
<1>3. walk_weather(s) = {}
  BY DEF walk_weather, split_table, WEATHER_HEADER_SIZE, UUID, WORD
<1> QED
  BY <1>1, <1>2, <1>3 DEF dispatch_event

\* What is left of the message at byte d.
LEMMA RestIs ==
    ASSUME NEW b \in Seq(Byte), NEW c \in 0..Len(b), NEW d \in 0..c
    PROVE  /\ Rest(SubSeq(b, 1, c), d) \in Seq(Byte)
           /\ Len(Rest(SubSeq(b, 1, c), d)) = c - d
           /\ \A j \in 1..(c - d) : Rest(SubSeq(b, 1, c), d)[j] = b[d + j]
<1> DEFINE u == SubSeq(b, 1, c)
<1>1. u \in Seq(Byte) /\ Len(u) = c /\ \A j \in 1..c : u[j] = b[j]
  OBVIOUS
<1> HIDE DEF u
<1>2. /\ SubSeq(u, d + 1, c) \in Seq(Byte) /\ Len(SubSeq(u, d + 1, c)) = c - d
      /\ \A j \in 1..(c - d) : SubSeq(u, d + 1, c)[j] = u[d + j]
  BY <1>1
<1>3. \A j \in 1..(c - d) : u[d + j] = b[d + j]
  <2> SUFFICES ASSUME NEW j \in 1..(c - d)
               PROVE  u[d + j] = b[d + j]
    OBVIOUS
  <2>1. d + j \in 1..c
    OBVIOUS
  <2> QED
    BY <1>1, <2>1
<1> QED
  BY <1>1, <1>2, <1>3 DEF Rest, u

\* The turn of the loop at record i.
LEMMA TurnAt ==
    ASSUME Laid, NEW i \in 1..Len(recs), NEW s \in Seq(Byte), starts[i] <= cut,
           s = Rest(SubSeq(bytes, 1, cut), starts[i])
    PROVE  /\ Len(s) = cut - starts[i]
           /\ Turn(recs[i], B(i), s, dispatch_event(kind, s))
<1>1. bytes \in Seq(Byte) /\ cut \in 0..Len(bytes) /\ starts[i] \in Nat
  BY DEF Laid
<1>2. starts[i] \in 0..cut
  BY <1>1
<1>3. Len(s) = cut - starts[i] /\ \A j \in 1..(cut - starts[i]) : s[j] = bytes[starts[i] + j]
  BY <1>1, <1>2, RestIs
<1>4. \A j \in 1..Len(B(i)) : bytes[starts[i] + j] = B(i)[j]
  BY DEF Laid
<1>5. Agree(s, B(i))
  <2>1. Len(B(i)) \in Nat
    BY RecordAt
  <2> SUFFICES ASSUME NEW j \in 1..Len(s), j <= Len(B(i))
               PROVE  s[j] = B(i)[j]
    BY DEF Agree
  <2>2. j \in 1..Len(B(i)) /\ j \in 1..(cut - starts[i])
    BY <1>3, <2>1
  <2> QED
    BY <1>3, <1>4, <2>2
<1>6. Found(kind, recs[i])
  BY RecordAt
<1> QED
  BY <1>3, <1>5, <1>6 DEF Found, B

\* A record whose turn comes is whole when the message has it to its last byte.
LEMMA WholeAt ==
    ASSUME Laid, NEW i \in 1..Len(recs), \A j \in 1..(i - 1) : Whole(j)
    PROVE  Whole(i) <=> starts[i] + Len(B(i)) <= cut /\ recs[i].n >= 0
<1>1. \A j \in 1..(i - 1) : recs[j].n >= 0
  <2> SUFFICES ASSUME NEW j \in 1..(i - 1)
               PROVE  recs[j].n >= 0
    OBVIOUS
  <2>1. Whole(j) /\ j \in 1..j
    OBVIOUS
  <2> QED
    BY <2>1 DEF Whole
<1>2. (\A j \in 1..i : recs[j].n >= 0) <=> recs[i].n >= 0
  <2>1. \A j \in 1..i : j = i \/ j \in 1..(i - 1)
    OBVIOUS
  <2>2. i \in 1..i
    OBVIOUS
  <2> QED
    BY <1>1, <2>1, <2>2
<1> QED
  BY <1>2 DEF Whole, B

\* A turn of the loop calls for the next record when it is whole, and ends the walk when
\* it is not.
LEMMA WalkInv == TableInv /\ Walk => TableInv'
<1> SUFFICES ASSUME Laid, Walked, Walk
             PROVE  TableInv'
  BY DEF TableInv
<1>a. PICK m \in Nat : m = Len(recs)
  BY DEF Laid
<1>b. PICK n \in Nat : n = Len(seen)
  <2>1. Len(seen) \in 0..Len(recs)
    BY DEF Walked
  <2> QED
    BY <1>a, <2>1
<1> DEFINE s == Rest(SubSeq(bytes, 1, cut), at)
           found == dispatch_event(msg_type, s)
<1>1. UNCHANGED <<kind, recs, bytes, starts, cut, msg_type>> /\ at # Done
  BY DEF Walk
<1>2. \/ found = {} /\ at' = Done /\ seen' = seen
      \/ \E call \in found : /\ seen' = Append(seen, Call(call))
                             /\ at' = IF call.len > Len(s) THEN Done ELSE at + call.len
  BY DEF Walk
<1>3. \A i : B(i)' = B(i) /\ After(i)' = After(i) /\ (Whole(i)' <=> Whole(i))
  BY <1>1 DEF B, After, Whole
<1>4. Laid'
  BY <1>1, <1>3 DEF Laid
<1>5. /\ n \in 0..m /\ seen = [i \in 1..n |-> Call(recs[i])] /\ m \in Nat
      /\ \A i \in 1..n : Whole(i)
      /\ msg_type = kind /\ at \in 0..cut
      /\ at = IF n = m THEN Len(bytes) ELSE starts[n + 1]
  BY <1>a, <1>b, <1>1 DEF Walked
<1>6. bytes \in Seq(Byte) /\ Len(bytes) \in Nat /\ cut \in 0..Len(bytes) /\ cut \in Nat
  BY DEF Laid
<1>7. s \in Seq(Byte) /\ Len(s) = cut - at
  BY <1>5, <1>6, RestIs
<1> HIDE DEF s
<1>8. CASE n = m
  <2>1. Len(s) = 0
    BY <1>5, <1>6, <1>7, <1>8
  <2>2. at' = Done /\ seen' = seen
    BY <1>2, <2>1, NothingLeft
  <2>3. Len(seen') = n /\ Len(recs') = m
    BY <1>a, <1>b, <1>1, <2>2
  <2>4. seen' = [i \in 1..n |-> Call(recs'[i])]
    BY <1>1, <1>5, <2>2
  <2>5. n < m => ~Whole(n + 1)'
    BY <1>5, <1>8
  <2>6. Walked'
    BY <1>3, <1>5, <2>2, <2>3, <2>4, <2>5 DEF Walked
  <2> QED
    BY <1>4, <2>6 DEF TableInv
<1>9. CASE n # m
  <2>0. PICK i \in Nat : i = n + 1
    OBVIOUS
  <2>1. i \in 1..m /\ i \in Nat /\ at = starts[i] /\ i - 1 = n
    BY <1>5, <1>9, <2>0
  <2>2. i \in 1..Len(recs) /\ starts[i] <= cut /\ s = Rest(SubSeq(bytes, 1, cut), starts[i])
    BY <1>a, <1>5, <1>6, <2>1 DEF s
  <2>3. Len(s) = cut - starts[i] /\ Turn(recs[i], B(i), s, found)
    BY <1>5, <1>7, <2>2, TurnAt
  <2>4. Whole(i) <=> starts[i] + Len(B(i)) <= cut /\ recs[i].n >= 0
    BY <1>5, <2>1, <2>2, WholeAt
  <2>5. /\ starts[i] \in Nat /\ Len(B(i)) \in Nat /\ Len(Padding(Len(B(i)))) \in Nat
        /\ After(i) \in Nat /\ recs[i].n \in Int
    BY <2>2, RecordAt DEF Found
  <2> HIDE DEF found
  <2>6. CASE ~Whole(i)
    <3>0. recs[i].n < 0 \/ Len(s) < Len(B(i))
      BY <1>6, <2>3, <2>4, <2>5, <2>6
    <3>1. found = {}
      BY <2>3, <3>0, Zenon DEF Turn
    <3>2. at' = Done /\ seen' = seen
      BY <1>2, <3>1
    <3>3. Len(seen') = n /\ Len(recs') = m
      BY <1>a, <1>b, <1>1, <3>2
    <3>4. seen' = [j \in 1..n |-> Call(recs'[j])]
      BY <1>1, <1>5, <3>2
    <3>5. n < m => ~Whole(n + 1)'
      BY <2>0, <1>3, <2>6
    <3>6. Walked'
      BY <1>3, <1>5, <3>2, <3>3, <3>4, <3>5 DEF Walked
    <3> QED
      BY <1>4, <3>6 DEF TableInv
  <2>7. CASE Whole(i)
    <3> DEFINE len == Len(B(i)) + Len(Padding(Len(B(i))))
               call == [uuid |-> recs[i].uuid, head |-> recs[i].head, parts |-> recs[i].parts,
                        len |-> len]
    <3>0. ~(recs[i].n < 0 \/ Len(s) < Len(B(i)))
      BY <1>6, <2>3, <2>4, <2>5, <2>7
    <3>1. found = {call}
      BY <2>3, <3>0, Zenon DEF Turn
    <3>2. Call(call) = Call(recs[i]) /\ call.len = len
      BY DEF Call
    <3> HIDE DEF call
    <3>3. seen' = Append(seen, Call(recs[i])) /\ at' = IF len > Len(s) THEN Done ELSE at + len
      BY <1>2, <3>1, <3>2
    <3>4. After(i) = starts[i] + len /\ len \in Nat
      BY <2>5 DEF After
    <3> HIDE DEF len
    <3>5. Len(seen') = i /\ Len(recs') = m /\ seen' = [j \in 1..i |-> Call(recs'[j])]
      <4> DEFINE f == [j \in 1..i |-> Call(recs[j])]
      <4>1. f = Append(seen, Call(recs[i])) /\ Len(f) = i
        <5> DEFINE g == [j \in 1..n |-> Call(recs[j])]
        <5>1. Append(g, Call(recs[i])) = f
          BY <2>0, <1>5, <2>1
        <5>2. Len(f) = i
          BY <2>1
        <5> QED
          BY <1>5, <5>1, <5>2
      <4>2. seen' = f
        BY <3>3, <4>1
      <4> QED
        BY <1>a, <1>1, <4>1, <4>2
    <3>6. \A j \in 1..i : Whole(j)'
      <4>1. \A j \in 1..i : j = i \/ j \in 1..n
        BY <2>1
      <4> QED
        BY <1>3, <1>5, <2>7, <4>1
    <3>7. i < m => i + 1 \in 1..m /\ i \in 1..(m - 1) /\ After(i) = starts[i + 1]
      <4> SUFFICES ASSUME i < m
                   PROVE  i + 1 \in 1..m /\ i \in 1..(m - 1) /\ After(i) = starts[i + 1]
        OBVIOUS
      <4>1. i + 1 \in 1..m /\ i \in 1..(m - 1)
        BY <1>5, <2>1
      <4> QED
        BY <1>a, <4>1 DEF Laid
    <3>8. i = m => After(i) = Len(bytes)
      <4>1. i = m => recs # <<>>
        BY <1>a, <2>1
      <4> QED
        BY <1>a, <4>1 DEF Laid
    <3>9. CASE len > Len(s)
      <4>1. at' = Done
        BY <3>3, <3>9
      <4>2. i < m => ~Whole(i + 1)'
        <5> SUFFICES ASSUME i < m, Whole(i + 1)
                     PROVE  FALSE
          BY <1>3
        <5>1. starts[i + 1] + Len(B(i + 1)) <= cut
          BY DEF Whole, B
        <5>2. i + 1 \in 1..m /\ After(i) = starts[i + 1]
          BY <3>7
        <5>3. Len(B(i + 1)) \in Nat
          BY <1>a, <5>2, RecordAt
        <5>4. After(i) > cut
          BY <1>6, <2>3, <2>5, <3>4, <3>9
        <5>5. starts[i + 1] > cut
          BY <5>2, <5>4
        <5> QED
          BY <1>6, <2>5, <5>1, <5>2, <5>3, <5>5
      <4>3. i \in 0..m
        BY <2>1
      <4>4. Walked'
        BY <3>5, <3>6, <4>1, <4>2, <4>3 DEF Walked
      <4> QED
        BY <1>4, <4>4 DEF TableInv
    <3>10. CASE ~(len > Len(s))
      <4>1. at' = After(i)
        BY <2>1, <3>3, <3>4, <3>10
      <4>2. at' \in 0..cut /\ at' # Done
        BY <1>6, <2>3, <2>5, <3>4, <3>10, <4>1 DEF Done
      <4>3. i \in 0..m
        BY <2>1
      <4>4. at' = IF i = m THEN Len(bytes) ELSE starts[i + 1]
        BY <2>1, <3>7, <3>8, <4>1, <4>3
      <4>5. msg_type' = kind' /\ at' \in 0..cut' /\ at' = IF i = m THEN Len(bytes') ELSE starts'[i + 1]
        BY <1>1, <1>5, <4>2, <4>4
      <4>6. Walked'
        BY <3>5, <3>6, <4>2, <4>3, <4>5 DEF Walked
      <4> QED
        BY <1>4, <4>6 DEF TableInv
    <3> QED
      BY <3>9, <3>10
  <2> QED
    BY <2>6, <2>7
<1> QED
  BY <1>8, <1>9

\* Every step of the table keeps the invariant.
LEMMA NextInv == TableInv /\ [TableNext]_tableVars => TableInv'
<1> SUFFICES ASSUME TableInv, [TableNext]_tableVars
             PROVE  TableInv'
  OBVIOUS
<1>1. CASE UNCHANGED tableVars
  <2>1. UNCHANGED <<kind, recs, bytes, starts, cut, msg_type, at, seen>>
    BY <1>1 DEF tableVars
  <2>2. \A i : B(i)' = B(i) /\ After(i)' = After(i) /\ (Whole(i)' <=> Whole(i))
    BY <2>1 DEF B, After, Whole
  <2>3. Laid'
    BY <2>1, <2>2 DEF Laid, TableInv
  <2>4. Walked'
    BY <2>1, <2>2 DEF Walked, TableInv
  <2> QED
    BY <2>3, <2>4 DEF TableInv
<1> QED
  BY <1>1, RecordInv, ByteInv, WalkInv DEF TableNext

\* Wherever a message ends, the walkers have called the handler for the records that are
\* in it to the last byte and for nothing else (RecordsWhole), for every table, of any
\* number of records, of fields of the sizes the assumption gives them.
THEOREM RecordsWholeHolds == TableSpec => []RecordsWhole
  BY InitInv, NextInv, WalkedWhole, PTL DEF TableSpec

-----------------------------------------------------------------------------
(* The two maps                                                            *)

\* The map by name has the entries of the map by wire bytes, each under its uuid's name.
Mapped(m, n) ==
    /\ DOMAIN m \subseteq Bytes16 /\ IsFiniteSet(DOMAIN m) /\ IsFiniteSet(DOMAIN n)
    /\ Cardinality(DOMAIN n) = Cardinality(DOMAIN m)
    /\ DOMAIN n = {format_loxone_bytes(u) : u \in DOMAIN m}
    /\ \A u \in DOMAIN m : n[format_loxone_bytes(u)] = m[u]

\* Two empty maps agree.
LEMMA MappedEmpty == Mapped(<<>>, <<>>)
<1>1. DOMAIN <<>> = {}
  OBVIOUS
<1> QED
  BY <1>1, FS_EmptySet DEF Mapped

\* A value inserted under a uuid and under its name keeps the maps so.
LEMMA MappedInsert ==
    ASSUME NEW m, NEW n, Mapped(m, n), NEW u \in Bytes16, NEW v
    PROVE  Mapped(insert(m, u, v), insert(n, format_loxone_bytes(u), v))
<1> DEFINE F(w) == format_loxone_bytes(w)
           m1 == insert(m, u, v)
           n1 == insert(n, F(u), v)
<1>1. /\ DOMAIN m1 = DOMAIN m \cup {u} /\ m1[u] = v
      /\ \A w \in DOMAIN m : w # u => m1[w] = m[w]
  BY DEF insert
<1>2. /\ DOMAIN n1 = DOMAIN n \cup {F(u)} /\ n1[F(u)] = v
      /\ \A k \in DOMAIN n : k # F(u) => n1[k] = n[k]
  BY DEF insert
<1>3. /\ DOMAIN m \subseteq Bytes16 /\ IsFiniteSet(DOMAIN m) /\ IsFiniteSet(DOMAIN n)
      /\ Cardinality(DOMAIN n) = Cardinality(DOMAIN m)
      /\ DOMAIN n = {F(w) : w \in DOMAIN m} /\ \A w \in DOMAIN m : n[F(w)] = m[w]
  BY DEF Mapped
<1>4. \A w \in Bytes16 : F(w) = F(u) => w = u
  BY NamesDiffer
<1> HIDE DEF F, m1, n1
<1>5. F(u) \in DOMAIN n <=> u \in DOMAIN m
  BY <1>3, <1>4
<1>6. /\ IsFiniteSet(DOMAIN m1)
      /\ Cardinality(DOMAIN m1) = IF u \in DOMAIN m THEN Cardinality(DOMAIN m)
                                  ELSE Cardinality(DOMAIN m) + 1
  BY <1>1, <1>3, FS_AddElement, Zenon
<1>7. /\ IsFiniteSet(DOMAIN n1)
      /\ Cardinality(DOMAIN n1) = IF F(u) \in DOMAIN n THEN Cardinality(DOMAIN n)
                                  ELSE Cardinality(DOMAIN n) + 1
  BY <1>2, <1>3, FS_AddElement, Zenon
<1>8. Cardinality(DOMAIN n1) = Cardinality(DOMAIN m1)
  <2>1. CASE u \in DOMAIN m
    BY <1>3, <1>5, <1>6, <1>7, <2>1, Zenon
  <2>2. CASE u \notin DOMAIN m
    BY <1>3, <1>5, <1>6, <1>7, <2>2, Zenon
  <2> QED
    BY <2>1, <2>2, Zenon
<1>9. DOMAIN m1 \subseteq Bytes16 /\ DOMAIN n1 = {F(w) : w \in DOMAIN m1}
  BY <1>1, <1>2, <1>3
<1>10. \A w \in DOMAIN m1 : n1[F(w)] = m1[w]
  <2> SUFFICES ASSUME NEW w \in DOMAIN m, w # u
               PROVE  n1[F(w)] = m1[w]
    BY <1>1, <1>2
  <2>1. F(w) \in DOMAIN n /\ F(w) # F(u)
    BY <1>3, <1>4
  <2> QED
    BY <1>1, <1>2, <1>3, <2>1
<1> QED
  BY <1>6, <1>7, <1>8, <1>9, <1>10 DEF Mapped, F, m1, n1

\* A record carries one of the uuids.
LEMMA RecordUuid == \A k \in Kinds : \A r \in Records(k) : r.uuid \in Uuids
<1>1. \A r \in Records("ValueStates") : r.uuid \in Uuids
  BY DEF Records, Record
<1>2. \A r \in Records("TextStates") : r.uuid \in Uuids
  BY DEF Records, Record
<1>3. \A heads, entries : \A r \in TablesOf(heads, entries) : r.uuid \in Uuids
  BY DEF TablesOf, Record
<1>4. \A r \in Records("DaytimerStates") : r.uuid \in Uuids
  BY <1>3 DEF Records
<1>5. \A r \in Records("WeatherStates") : r.uuid \in Uuids
  BY <1>3 DEF Records
<1> QED
  BY <1>1, <1>2, <1>4, <1>5 DEF Kinds

\* Wherever the walk stands, a turn finds a record that the Miniserver sent.
LEMMA FoundUuid ==
    ASSUME TableInv, at # Done,
           NEW call \in dispatch_event(msg_type, Rest(SubSeq(bytes, 1, cut), at))
    PROVE  call.uuid \in Bytes16
<1> DEFINE s == Rest(SubSeq(bytes, 1, cut), at)
           n == Len(seen)
<1>1. /\ n \in 0..Len(recs) /\ msg_type = kind /\ at \in 0..cut
      /\ at = IF n = Len(recs) THEN Len(bytes) ELSE starts[n + 1]
  BY DEF TableInv, Walked
<1>2. bytes \in Seq(Byte) /\ cut \in 0..Len(bytes) /\ kind \in Kinds /\ Len(recs) \in Nat
  BY DEF TableInv, Laid
<1>3. s \in Seq(Byte) /\ Len(s) = cut - at
  BY <1>1, <1>2, RestIs, Zenon
<1>4. n # Len(recs)
  <2> SUFFICES ASSUME n = Len(recs)
               PROVE  FALSE
    OBVIOUS
  <2>1. Len(s) = 0
    <3>1. Len(bytes) \in Nat
      BY <1>2
    <3> QED
      BY <1>1, <1>2, <1>3, <3>1
  <2> QED
    BY <2>1, NothingLeft
<1>5. PICK i \in 1..Len(recs) : i = n + 1
  BY <1>1, <1>2, <1>4
<1>6. starts[i] <= cut /\ s = Rest(SubSeq(bytes, 1, cut), starts[i])
  BY <1>1, <1>2, <1>4, <1>5
<1> HIDE DEF s
<1>7. Turn(recs[i], B(i), s, dispatch_event(kind, s))
  BY <1>3, <1>6, TurnAt DEF TableInv
<1>8. call.uuid = recs[i].uuid
  <2>1. call \in dispatch_event(kind, s)
    BY <1>1 DEF s
  <2>2. dispatch_event(kind, s) # {}
    BY <2>1, Zenon
  <2> DEFINE c == [uuid |-> recs[i].uuid, head |-> recs[i].head, parts |-> recs[i].parts,
                   len |-> Len(B(i)) + Len(Padding(Len(B(i))))]
  <2>3. dispatch_event(kind, s) = {c}
    BY <1>7, <2>2, Zenon DEF Turn
  <2>4. c.uuid = recs[i].uuid
    OBVIOUS
  <2> HIDE DEF c
  <2> QED
    BY <2>1, <2>3, <2>4, Zenon
<1>9. recs[i].uuid \in Uuids
  BY <1>2, RecordAt, RecordUuid DEF TableInv
<1>10. Uuids \subseteq Bytes16
  BY TableAssumption, Zenon DEF Bytes16, UUID, Byte
<1> QED
  BY <1>8, <1>9, <1>10, Zenon

\* The map by name agrees with the map by wire bytes after every call of the collectors
\* (MapsAgree): format_loxone_bytes writes the name that LoxAPP3.json gives a uuid and
\* writes no two uuids alike, for every table of values or texts.
THEOREM MapsAgreeHolds == TableSpec => []MapsAgree
<1> DEFINE Inv == Mapped(snapshot, named)
<1>1. TableInit => Inv
  BY MappedEmpty DEF TableInit
<1>2. TableInv /\ Inv /\ [TableNext]_tableVars => Inv'
  <2> SUFFICES ASSUME TableInv, Inv, [TableNext]_tableVars
               PROVE  Inv'
    OBVIOUS
  <2>1. CASE UNCHANGED tableVars
    BY <2>1 DEF tableVars
  <2>2. CASE TableRecord \/ TableByte
    <3>1. snapshot' = <<>> /\ named' = <<>>
      BY <2>2 DEF TableRecord, TableByte, ReadTable
    <3> QED
      BY <3>1, MappedEmpty
  <2>3. CASE Walk
    <3>1. at # Done
      BY <2>3 DEF Walk
    <3>2. CASE UNCHANGED <<snapshot, named>>
      BY <3>2
    <3>3. ASSUME NEW call \in dispatch_event(msg_type, Rest(SubSeq(bytes, 1, cut), at)),
                 snapshot' = collect(msg_type, snapshot, call.uuid, call),
                 named' = collect(msg_type, named, format_loxone_bytes(call.uuid), call)
          PROVE  Inv'
      <4>1. call.uuid \in Bytes16
        BY <3>1, FoundUuid
      <4>2. \/ UNCHANGED <<snapshot, named>>
            \/ \E v : /\ snapshot' = insert(snapshot, call.uuid, v)
                      /\ named' = insert(named, format_loxone_bytes(call.uuid), v)
        BY <3>3 DEF collect
      <4> QED
        BY <4>1, <4>2, MappedInsert
    <3> QED
      BY <2>3, <3>2, <3>3 DEF Walk
  <2> QED
    BY <2>1, <2>2, <2>3 DEF TableNext
<1>3. Inv => MapsAgree
  <2> SUFFICES ASSUME Inv
               PROVE  MapsAgree
    OBVIOUS
  <2>1. \A u \in DOMAIN snapshot : Dashed(Digits(u), {8, 12, 16}) = format_loxone_bytes(u)
    BY NameIs DEF Mapped
  <2> QED
    BY <2>1 DEF Mapped, MapsAgree
<1> HIDE DEF Inv
<1> QED
  BY <1>1, <1>2, <1>3, InitInv, NextInv, PTL DEF TableSpec

=============================================================================
