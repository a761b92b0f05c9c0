-------------------------------- MODULE Uuid --------------------------------
(***************************************************************************)
(* LoxoneUuid: sixteen wire bytes and the string form 8-4-4-16, whose      *)
(* first three fields are little-endian on the wire.                       *)
(*                                                                         *)
(* A character is a number: 0..15 a hex digit as the client writes it,     *)
(* 26..31 an upper-case one, Dash the dash, Foreign any other.             *)
(***************************************************************************)
EXTENDS Integers, Sequences, FiniteSets

Dash == 16
Foreign == 17
Upper(c) == IF c \in 10..15 THEN c + 16 ELSE c

\* What a rejected string parses to.
InvalidUuid == <<>>

\* The wire byte behind each pair of digits; its own inverse.
FieldOrder == <<4, 3, 2, 1, 6, 5, 8, 7>> \o [i \in 1..8 |-> 8 + i]

put_hex(byte) == <<byte \div 16, byte % 16>>

\* The string of a uuid, with its bytes in the given order: dashes at 9, 14 and 19, and
\* digits everywhere else.
Ordered(u, order) ==
    LET digit(k) == put_hex(u[order[(k + 1) \div 2]])[2 - (k % 2)]
    IN  [j \in 1..35 |-> IF j \in {9, 14, 19} THEN Dash
                         ELSE digit(j - (IF j < 9 THEN 0 ELSE IF j < 14 THEN 1
                                         ELSE IF j < 19 THEN 2 ELSE 3))]

\* Mutant: data2 is written as it is on the wire.
format_data2_unswapped(u) == Ordered(u, [FieldOrder EXCEPT ![5] = 5, ![6] = 6])

format_loxone_bytes(u) == Ordered(u, FieldOrder)

\* Dashes are skipped wherever they stand; anything but 32 digits is refused.
parse(s) ==
    LET digits == SelectSeq(s, LAMBDA c : c # Dash)
        v(i) == digits[i] % 16
        raw == [i \in 1..16 |-> 16 * v(2 * i - 1) + v(2 * i)]
    IN  IF (\E i \in DOMAIN digits : digits[i] = Foreign) \/ Len(digits) # 32 THEN InvalidUuid
        ELSE [i \in 1..16 |-> raw[FieldOrder[i]]]

-----------------------------------------------------------------------------
(* Reference: a uuid as LoxAPP3.json or an RFC 4122 tool spells it.        *)

Digits(u) ==
    LET fields == <<u[4], u[3], u[2], u[1]>> \o <<u[6], u[5]>> \o <<u[8], u[7]>> \o SubSeq(u, 9, 16)
    IN  [i \in 1..32 |-> LET b == fields[(i + 1) \div 2]
                         IN  IF i % 2 = 1 THEN b \div 16 ELSE b % 16]

\* The digits with a dash after each of the positions in cuts.
Dashed(digits, cuts) ==
    LET dashes == {c + Cardinality({d \in cuts : d <= c}) : c \in cuts}
    IN  [j \in 1..(Len(digits) + Cardinality(cuts)) |->
           IF j \in dashes THEN Dash ELSE digits[j - Cardinality({d \in dashes : d < j})]]

Spellings(u) ==
    LET d == Digits(u)
        up == [i \in 1..32 |-> Upper(d[i])]
    IN  {Dashed(x, cuts) : x \in {d, up}, cuts \in {{}, {8, 12, 16}, {8, 12, 16, 20}}}

\* One digit short, one too many, and a character that is none.
Misspellings(u) ==
    LET s == format_loxone_bytes(u)
    IN  {Tail(s), Append(s, 0), [s EXCEPT ![1] = Foreign], Append(s, Foreign)}

=============================================================================
