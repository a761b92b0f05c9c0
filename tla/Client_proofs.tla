--------------------------- MODULE Client_proofs ----------------------------
(***************************************************************************)
(* Proofs about two parts of the client.  Of Echo: an answer passes for    *)
(* the waiter's exactly if it is of the waiter's kind, for every set of    *)
(* commands and every spelling of an echo.  Of Supervisor: its promises    *)
(* hold for every reconnect budget.                                        *)
(***************************************************************************)
EXTENDS Echo, Supervisor, SequenceTheorems, TLAPS

-----------------------------------------------------------------------------
(* Paths                                                                    *)

\* The segments of paths.  The literals are strings, which the provers do not know.
Literals == {Root, "dev", "jdev", "sys", "enc", "salt", "nextSalt", "s1", "s2"}
Words == STRING \cup Literals

\* What the comparison needs of a path.
Spelled(p) ==
    /\ p \in Seq(Words) /\ p # <<>> /\ Head(p) \notin {Root, "dev"}
    /\ Head(p) = "jdev" => Len(p) >= 3

ENC == <<"jdev", "sys", "enc">>

\* A path without the j.
Bare(p) == IF Head(p) = "jdev" THEN <<"dev">> \o Tail(p) ELSE p

\* The empty segment is none of the others.
LEMMA RootDistinct == Root # "dev" /\ Root # "jdev"
  BY Zenon DEF Root

-----------------------------------------------------------------------------
(* Segments                                                                 *)

\* The head is the first of at least one.
LEMMA FirstSegment ==
    ASSUME NEW S, NEW s \in Seq(S), s # <<>>
    PROVE  Head(s) = s[1] /\ Len(s) \in Nat \ {0}
<1>1. Len(s) \in Nat \ {0}
  BY EmptySeq
<1> QED BY <1>1

\* t is x, then s.
Fronted(t, x, s) ==
    /\ t \in Seq(Words) /\ t # <<>> /\ Len(t) = Len(s) + 1 /\ Head(t) = x /\ Tail(t) = s
    /\ t[1] = x /\ \A i \in 1 .. Len(s) : t[i + 1] = s[i]

\* A segment put in front of others.
LEMMA InFront ==
    ASSUME NEW x \in Words, NEW s \in Seq(Words), NEW t, t = <<x>> \o s
    PROVE  Fronted(t, x, s)
<1>0. Len(s) \in Nat
  BY LenProperties
<1>1. <<x>> \in Seq(Words) /\ Len(<<x>>) = 1 /\ <<x>>[1] = x
  OBVIOUS
<1>2. /\ t \in Seq(Words) /\ Len(t) = 1 + Len(s)
      /\ \A i \in 1 .. 1 + Len(s) : t[i] = IF i <= 1 THEN <<x>>[i] ELSE s[i - 1]
  BY <1>1, ConcatProperties
<1>3. t[1] = x /\ \A i \in 1 .. Len(s) : t[i + 1] = s[i]
  BY <1>0, <1>1, <1>2
<1>4. t # <<>>
  BY <1>0, <1>2
<1>5. Head(t) = x
  BY <1>2, <1>3, <1>4, FirstSegment
<1>6. Tail(t) \in Seq(Words) /\ Len(Tail(t)) = Len(s) /\ \A i \in 1 .. Len(s) : Tail(t)[i] = t[i + 1]
  BY <1>0, <1>2, <1>4, HeadTailProperties
<1>7. Tail(t) = s
  BY <1>3, <1>6, SeqEqual
<1> QED BY <1>0, <1>2, <1>3, <1>4, <1>5, <1>7 DEF Fronted

\* The first one and the first three.
LEMMA FirstOnes ==
    ASSUME NEW S, NEW s \in Seq(S)
    PROVE  /\ Len(s) >= 1 => SubSeq(s, 1, 1) = <<s[1]>>
           /\ Len(s) >= 3 => SubSeq(s, 1, 3) = <<s[1], s[2], s[3]>>
<1>0. Len(s) \in Nat /\ \A i \in 1 .. Len(s) : s[i] \in S
  BY LenProperties
<1>1. ASSUME Len(s) >= 1 PROVE SubSeq(s, 1, 1) = <<s[1]>>
  <2>1. /\ SubSeq(s, 1, 1) \in Seq(S) /\ Len(SubSeq(s, 1, 1)) = 1 /\ SubSeq(s, 1, 1)[1] = s[1]
    BY <1>0, <1>1, SubSeqProperties
  <2>2. <<s[1]>> \in Seq(S) /\ Len(<<s[1]>>) = 1 /\ <<s[1]>>[1] = s[1]
    BY <1>0, <1>1
  <2>3. \A i \in 1 .. 1 : SubSeq(s, 1, 1)[i] = <<s[1]>>[i]
    BY <2>1, <2>2
  <2> QED BY <2>1, <2>2, <2>3, SeqEqual, Zenon
<1>2. ASSUME Len(s) >= 3 PROVE SubSeq(s, 1, 3) = <<s[1], s[2], s[3]>>
  <2>1. /\ SubSeq(s, 1, 3) \in Seq(S) /\ Len(SubSeq(s, 1, 3)) = 3
        /\ SubSeq(s, 1, 3)[1] = s[1] /\ SubSeq(s, 1, 3)[2] = s[2] /\ SubSeq(s, 1, 3)[3] = s[3]
    BY <1>0, <1>2, SubSeqProperties
  <2> DEFINE u == <<s[1], s[2], s[3]>>
  <2>2. u \in Seq(S) /\ Len(u) = 3 /\ u[1] = s[1] /\ u[2] = s[2] /\ u[3] = s[3]
    BY <1>0, <1>2
  <2> HIDE DEF u
  <2>3. \A i \in 1 .. 3 : SubSeq(s, 1, 3)[i] = u[i]
    <3>1. \A i \in 1 .. 3 : i = 1 \/ i = 2 \/ i = 3
      OBVIOUS
    <3> QED BY <2>1, <2>2, <3>1
  <2>4. SubSeq(s, 1, 3) = u
    BY <2>1, <2>2, <2>3, SeqEqual
  <2> QED BY <2>4 DEF u
<1> QED BY <1>1, <1>2

\* A sequence is what its segments say.
LEMMA FourSegments ==
    ASSUME NEW S, NEW t \in Seq(S), Len(t) = 4
    PROVE  t = <<t[1], t[2], t[3], t[4]>>
<1> DEFINE u == <<t[1], t[2], t[3], t[4]>>
<1>0. t[1] \in S /\ t[2] \in S /\ t[3] \in S /\ t[4] \in S
  <2>1. \A i \in 1 .. 4 : t[i] \in S
    BY LenProperties
  <2> QED BY <2>1
<1>1. u \in Seq(S) /\ Len(u) = 4 /\ u[1] = t[1] /\ u[2] = t[2] /\ u[3] = t[3] /\ u[4] = t[4]
  BY <1>0
<1> HIDE DEF u
<1>2. \A i \in 1 .. Len(t) : t[i] = u[i]
  <2>1. \A i \in 1 .. 4 : i = 1 \/ i = 2 \/ i = 3 \/ i = 4
    OBVIOUS
  <2> QED BY <1>1, <2>1
<1>3. t = u
  BY <1>1, <1>2, SeqEqual
<1> QED BY <1>3 DEF u

-----------------------------------------------------------------------------
(* Spellings                                                                *)

\* Dropping the j changes the first segment only.
LEMMA BareSegments ==
    ASSUME NEW p, Spelled(p)
    PROVE  /\ Bare(p) \in Seq(Words) /\ Len(Bare(p)) = Len(p) /\ Len(p) \in Nat \ {0}
           /\ Bare(p)[1] = IF p[1] = "jdev" THEN "dev" ELSE p[1]
           /\ \A i \in 2 .. Len(p) : Bare(p)[i] = p[i]
           /\ Head(p) = p[1] /\ Bare(p) # <<>>
<1>1. p \in Seq(Words) /\ p # <<>> /\ Head(p) = p[1] /\ Len(p) \in Nat \ {0}
  BY FirstSegment DEF Spelled
<1>2. CASE Head(p) = "jdev"
  <2>1. Bare(p) = <<"dev">> \o Tail(p)
    BY <1>2 DEF Bare
  <2>2. /\ Tail(p) \in Seq(Words) /\ Len(Tail(p)) = Len(p) - 1
        /\ \A i \in 1 .. Len(Tail(p)) : Tail(p)[i] = p[i + 1]
    BY <1>1, HeadTailProperties
  <2>3. /\ Bare(p) \in Seq(Words) /\ Len(Bare(p)) = Len(Tail(p)) + 1 /\ Bare(p)[1] = "dev"
        /\ Bare(p) # <<>>
        /\ \A i \in 1 .. Len(Tail(p)) : Bare(p)[i + 1] = Tail(p)[i]
    <3>1. "dev" \in Words
      BY DEF Words, Literals
    <3> DEFINE s == Tail(p)
               t == Bare(p)
    <3>2. s \in Seq(Words) /\ t = <<"dev">> \o s
      BY <2>1, <2>2, Zenon
    <3> HIDE DEF s, t
    <3>3. Fronted(t, "dev", s)
      BY <3>1, <3>2, InFront, Zenon
    <3> QED BY <3>3, Zenon DEF Fronted, s, t
  <2>4. ASSUME NEW i \in 2 .. Len(p) PROVE Bare(p)[i] = p[i]
    <3>1. i - 1 \in 1 .. Len(Tail(p)) /\ (i - 1) + 1 = i
      BY <1>1, <2>2
    <3>2. Bare(p)[(i - 1) + 1] = Tail(p)[i - 1] /\ Tail(p)[i - 1] = p[(i - 1) + 1]
      BY <2>2, <2>3, <3>1
    <3> QED BY <3>1, <3>2
  <2> QED BY <1>1, <1>2, <2>3, <2>4
<1>3. CASE Head(p) # "jdev"
  BY <1>1, <1>3 DEF Bare
<1> QED BY <1>2, <1>3

\* canonical undoes every quirk.
LEMMA CanonicalQuirk ==
    ASSUME NEW p, Spelled(p), NEW slash \in BOOLEAN, NEW j \in BOOLEAN
    PROVE  canonical(Quirk(p, slash, j)) = Bare(p) /\ Quirk(p, slash, j) # <<>>
<1> DEFINE q == IF ~j /\ Head(p) = "jdev" THEN <<"dev">> \o Tail(p) ELSE p
<1>1. q = p \/ q = Bare(p)
  BY DEF Bare
<1>2. /\ p \in Seq(Words) /\ p # <<>> /\ Head(p) \notin {Root, "dev"}
      /\ Head(p) = "jdev" => Len(p) > 1
  BY BareSegments DEF Spelled
<1>3. /\ Bare(p) \in Seq(Words) /\ Bare(p) # <<>>
      /\ Head(Bare(p)) = IF Head(p) = "jdev" THEN "dev" ELSE Head(p)
  <2>1. /\ Bare(p) \in Seq(Words) /\ Bare(p) # <<>> /\ Head(p) = p[1]
        /\ Bare(p)[1] = IF p[1] = "jdev" THEN "dev" ELSE p[1]
    BY BareSegments
  <2>2. Head(Bare(p)) = Bare(p)[1]
    BY <2>1, FirstSegment
  <2> QED BY <2>1, <2>2
<1>4. q \in Seq(Words) /\ q # <<>> /\ Head(q) # Root
  BY <1>1, <1>2, <1>3, RootDistinct
<1>5. (IF Len(q) > 1 /\ Head(q) = "jdev" THEN <<"dev">> \o Tail(q) ELSE q) = Bare(p)
  <2>1. CASE q = p
    BY <1>2, <2>1 DEF Bare
  <2>2. CASE q = Bare(p)
    BY <1>2, <1>3, <2>2
  <2> QED BY <1>1, <2>1, <2>2
<1>6. Quirk(p, slash, j) = IF slash THEN <<Root>> \o q ELSE q
  BY DEF Quirk
<1> HIDE DEF q
<1>7. CASE slash
  <2> DEFINE t == Quirk(p, slash, j)
  <2>0. t = <<Root>> \o q
    BY <1>6, <1>7
  <2> HIDE DEF t
  <2>1. t # <<>> /\ Len(t) = Len(q) + 1 /\ Head(t) = Root /\ Tail(t) = q
    <3>1. Root \in Words
      BY DEF Words, Literals
    <3>2. Fronted(t, Root, q)
      BY <1>4, <2>0, <3>1, InFront, Zenon
    <3> QED BY <3>2, Zenon DEF Fronted
  <2>2. Len(t) > 1
    <3>1. Len(q) \in Nat \ {0}
      BY <1>4, FirstSegment
    <3> QED BY <2>1, <3>1
  <2>3. canonical(t) = Bare(p)
    BY <1>5, <2>1, <2>2 DEF canonical
  <2> QED BY <2>1, <2>3 DEF t
<1>8. CASE ~slash
  BY <1>4, <1>5, <1>6, <1>8 DEF canonical
<1> QED BY <1>7, <1>8

\* A path is a spelling of itself.
LEMMA CanonicalBare ==
    ASSUME NEW p, Spelled(p)
    PROVE  canonical(p) = Bare(p)
<1>1. Quirk(p, FALSE, TRUE) = p
  BY DEF Quirk
<1> QED BY <1>1, CanonicalQuirk, Zenon

\* The verb of any spelling tells what the kind of the command tells.
LEMMA VerbIsKind ==
    ASSUME NEW p, NEW q, Spelled(p), Spelled(q), NEW s, canonical(s) = Bare(p)
    PROVE  control_matches(s, q) <=> Kind(p) = Kind(q)
<1> DEFINE Three(r) == <<"dev", r[2], r[3]>>
           One(r) == <<r[1]>>
<1>1. ASSUME NEW r, Spelled(r), NEW t, canonical(t) = Bare(r)
      PROVE  /\ verb(t) = IF r[1] = "jdev" THEN Three(r) ELSE One(r)
             /\ Kind(r) = IF r[1] = "jdev" THEN <<"jdev", r[2], r[3]>> ELSE One(r)
  <2>0. /\ r \in Seq(Words) /\ Len(r) \in Nat \ {0} /\ Head(r) = r[1] /\ r[1] # "dev"
        /\ r[1] = "jdev" => Len(r) >= 3
    BY <1>1, BareSegments DEF Spelled
  <2>1. /\ Bare(r) \in Seq(Words) /\ Len(Bare(r)) = Len(r) /\ Head(Bare(r)) = Bare(r)[1]
        /\ Bare(r)[1] = IF r[1] = "jdev" THEN "dev" ELSE r[1]
        /\ \A i \in 2 .. Len(r) : Bare(r)[i] = r[i]
    BY <1>1, BareSegments, FirstSegment
  <2>2. CASE r[1] = "jdev"
    <3>1. verb(t) = SubSeq(Bare(r), 1, 3)
      BY <1>1, <2>0, <2>1, <2>2 DEF verb, take_segments
    <3>2. SubSeq(Bare(r), 1, 3) = <<Bare(r)[1], Bare(r)[2], Bare(r)[3]>>
      BY <2>0, <2>1, <2>2, FirstOnes
    <3>3. Bare(r)[1] = "dev" /\ Bare(r)[2] = r[2] /\ Bare(r)[3] = r[3]
      BY <2>0, <2>1, <2>2
    <3>4. SubSeq(r, 1, 3) = <<r[1], r[2], r[3]>>
      BY <2>0, <2>2, FirstOnes
    <3> QED BY <2>0, <2>2, <3>1, <3>2, <3>3, <3>4 DEF Kind
  <2>3. CASE r[1] # "jdev"
    <3>1. verb(t) = SubSeq(Bare(r), 1, 1)
      BY <1>1, <2>0, <2>1, <2>3 DEF verb, take_segments
    <3>2. SubSeq(Bare(r), 1, 1) = <<Bare(r)[1]>>
      BY <2>0, <2>1, FirstOnes
    <3> QED BY <2>0, <2>1, <2>3, <3>1, <3>2 DEF Kind
  <2> QED BY <2>2, <2>3
<1>2. canonical(q) = Bare(q)
  BY CanonicalBare
<1>3. verb(s) = IF p[1] = "jdev" THEN Three(p) ELSE One(p)
  BY <1>1
<1>4. verb(q) = IF q[1] = "jdev" THEN Three(q) ELSE One(q)
  BY <1>1, <1>2
<1>5. /\ Kind(p) = IF p[1] = "jdev" THEN <<"jdev", p[2], p[3]>> ELSE One(p)
      /\ Kind(q) = IF q[1] = "jdev" THEN <<"jdev", q[2], q[3]>> ELSE One(q)
  BY <1>1, <1>2
<1> QED BY <1>3, <1>4, <1>5 DEF control_matches

\* Missing arguments do not change the kind.
LEMMA ElidedKind ==
    ASSUME NEW p, Spelled(p)
    PROVE  Spelled(take_segments(p, 3)) /\ Kind(take_segments(p, 3)) = Kind(p)
<1>1. p \in Seq(Words) /\ Len(p) \in Nat \ {0} /\ Head(p) = p[1]
  BY BareSegments DEF Spelled
<1>2. PICK n \in 1 .. Len(p) : /\ take_segments(p, 3) = SubSeq(p, 1, n)
                               /\ Len(p) >= 3 => n = 3
  BY <1>1 DEF take_segments
<1> DEFINE e == SubSeq(p, 1, n)
<1>3. /\ e \in Seq(Words) /\ Len(e) = n /\ e # <<>> /\ Head(e) = p[1]
      /\ \A i \in 1 .. n : e[i] = p[i]
  BY <1>1
<1> HIDE DEF e
<1>4. Spelled(e)
  <2>1. Head(e) \notin {Root, "dev"} /\ (Head(e) = "jdev" => Len(p) >= 3)
    BY <1>1, <1>3 DEF Spelled
  <2> QED BY <1>2, <1>3, <2>1 DEF Spelled
<1>5. Kind(e) = Kind(p)
  <2>1. CASE p[1] = "jdev"
    <3>1. n = 3 /\ Len(p) >= 3
      BY <1>1, <1>2, <2>1 DEF Spelled
    <3>2. SubSeq(e, 1, 3) = e /\ e = SubSeq(p, 1, 3)
      BY <1>3, <3>1 DEF e
    <3> QED BY <1>1, <1>3, <2>1, <3>2 DEF Kind
  <2>2. CASE p[1] # "jdev"
    BY <1>1, <1>3, <2>2 DEF Kind
  <2> QED BY <2>1, <2>2
<1> QED BY <1>2, <1>4, <1>5 DEF e

-----------------------------------------------------------------------------
(* Encrypted commands                                                       *)

\* The salt prefix comes off again.
LEMMA PrefixStripped ==
    ASSUME NEW pre \in Seq(Words), pre # <<>>, NEW p \in Seq(Words), p # <<>>, NEW t, t = pre \o p
    PROVE  /\ t \in Seq(Words) /\ t # <<>> /\ Len(t) > Len(pre) /\ Head(t) = pre[1]
           /\ SubSeq(t, Len(pre) + 1, Len(t)) = p
<1>1. Len(p) \in Nat \ {0} /\ Len(pre) \in Nat \ {0}
  BY FirstSegment
<1>2. /\ t \in Seq(Words) /\ Len(t) = Len(pre) + Len(p)
      /\ \A i \in 1 .. Len(pre) + Len(p) : t[i] = IF i <= Len(pre) THEN pre[i] ELSE p[i - Len(pre)]
  BY ConcatProperties
<1>3. t[1] = pre[1] /\ \A i \in 1 .. Len(p) : t[i + Len(pre)] = p[i]
  BY <1>1, <1>2
<1>4. t # <<>> /\ Len(t) > Len(pre)
  BY <1>1, <1>2
<1>5. Head(t) = pre[1]
  BY <1>2, <1>3, <1>4, FirstSegment
<1> DEFINE u == SubSeq(t, Len(pre) + 1, Len(t))
<1>6. u \in Seq(Words) /\ Len(u) = Len(p) /\ \A i \in 1 .. Len(p) : u[i] = t[i + Len(pre)]
  BY <1>1, <1>2
<1> HIDE DEF u
<1>7. u = p
  BY <1>3, <1>6, SeqEqual
<1> QED BY <1>2, <1>4, <1>5, <1>7 DEF u

SaltPrefix(rotates) == IF rotates THEN <<"nextSalt", "s1", "s2">> ELSE <<"salt", "s1">>

\* So the Miniserver's echo of an encrypted command shows that command, and two salted
\* plaintexts are the same only if their commands are.
LEMMA SaltStripped ==
    ASSUME NEW p, Spelled(p), NEW rotates \in BOOLEAN, NEW t, t = SaltPrefix(rotates) \o p
    PROVE  strip_salt_prefix(t) = p
<1>0. p \in Seq(Words) /\ p # <<>>
  BY DEF Spelled
<1>1. CASE rotates
  <2> DEFINE pre == <<"nextSalt", "s1", "s2">>
  <2>1. pre \in Seq(Words) /\ pre # <<>> /\ Len(pre) = 3 /\ pre[1] = "nextSalt"
    BY DEF Words, Literals
  <2>2. t = pre \o p
    BY <1>1 DEF SaltPrefix
  <2> HIDE DEF pre
  <2>3. Len(t) > Len(pre) /\ Head(t) = pre[1] /\ SubSeq(t, Len(pre) + 1, Len(t)) = p
    BY <1>0, <2>1, <2>2, PrefixStripped, Zenon
  <2>4. Len(t) > 3 /\ Head(t) = "nextSalt" /\ SubSeq(t, 4, Len(t)) = p
    BY <2>1, <2>3
  <2> QED BY <2>4 DEF strip_salt_prefix
<1>2. CASE ~rotates
  <2> DEFINE pre == <<"salt", "s1">>
  <2>1. pre \in Seq(Words) /\ pre # <<>> /\ Len(pre) = 2 /\ pre[1] = "salt"
    BY DEF Words, Literals
  <2>2. t = pre \o p
    BY <1>2 DEF SaltPrefix
  <2> HIDE DEF pre
  <2>3. Len(t) > Len(pre) /\ Head(t) = pre[1] /\ SubSeq(t, Len(pre) + 1, Len(t)) = p
    BY <1>0, <2>1, <2>2, PrefixStripped, Zenon
  <2>4. Len(t) > 2 /\ Head(t) = "salt" /\ SubSeq(t, 3, Len(t)) = p
    BY <2>1, <2>3
  <2> QED BY <2>4 DEF strip_salt_prefix
<1> QED BY <1>1, <1>2

\* What the session's key makes of a plaintext.
Blob(t) == <<"ours", t>>

\* It is the key and the plaintext.
LEMMA BlobParts == \A t : Blob(t) # <<>> /\ Blob(t)[1] = "ours" /\ Blob(t)[2] = t
BY DEF Blob

\* The echo of what it sealed.
OwnEcho(t, slash, j) == [path |-> Quirk(ENC, slash, j), blob |-> Blob(t)]

\* It has the quirks in its path and the plaintext in its blob.
LEMMA OwnEchoParts ==
    \A t, slash, j : /\ OwnEcho(t, slash, j).path = Quirk(ENC, slash, j)
                     /\ OwnEcho(t, slash, j).blob = Blob(t)
BY DEF OwnEcho

\* The echo of an encrypted command is read if the session's key sealed it and the path
\* still says jdev; then it shows the command.
LEMMA SealedDecoded ==
    ASSUME NEW t, NEW slash \in BOOLEAN, NEW j \in BOOLEAN
    PROVE  decode_control(OwnEcho(t, slash, j))
               = IF j THEN strip_salt_prefix(t) ELSE Quirk(ENC, slash, j)
<1> DEFINE ctrl == OwnEcho(t, slash, j)
<1>0. ctrl.path = Quirk(ENC, slash, j) /\ ctrl.blob = Blob(t)
  BY OwnEchoParts
<1> HIDE DEF ctrl
<1>1. ctrl.blob # <<>> /\ ctrl.blob[1] = "ours" /\ ctrl.blob[2] = t
  BY <1>0, BlobParts
<1>2. Head(ENC) = "jdev" /\ Tail(ENC) = <<"sys", "enc">>
  BY DEF ENC
<1>3. CASE j
  <2>1. Quirk(ENC, slash, j) \in {<<"jdev", "sys", "enc">>, <<Root, "jdev", "sys", "enc">>}
    <3>1. Quirk(ENC, slash, j) = IF slash THEN <<Root>> \o ENC ELSE ENC
      BY <1>3 DEF Quirk
    <3>2. <<Root>> \o ENC = <<Root, "jdev", "sys", "enc">>
      <4> DEFINE t4 == <<Root>> \o ENC
      <4>1. Root \in Words /\ ENC \in Seq(Words)
        BY DEF ENC, Words, Literals
      <4>2. Len(ENC) = 3 /\ ENC[1] = "jdev" /\ ENC[2] = "sys" /\ ENC[3] = "enc"
        BY DEF ENC
      <4>3. /\ t4 \in Seq(Words) /\ Len(t4) = 4
            /\ t4[1] = Root /\ t4[2] = "jdev" /\ t4[3] = "sys" /\ t4[4] = "enc"
        <5>1. t4 = <<Root>> \o ENC
          BY Zenon
        <5> HIDE DEF t4
        <5>2. t4 \in Seq(Words) /\ Len(t4) = Len(ENC) + 1 /\ t4[1] = Root
              /\ \A i \in 1 .. Len(ENC) : t4[i + 1] = ENC[i]
          <6>1. Fronted(t4, Root, ENC)
            BY <4>1, <5>1, InFront, Zenon
          <6> QED BY <6>1, Zenon DEF Fronted
        <5>3. t4[1 + 1] = ENC[1] /\ t4[2 + 1] = ENC[2] /\ t4[3 + 1] = ENC[3]
          BY <4>2, <5>2
        <5> QED BY <4>2, <5>2, <5>3
      <4> HIDE DEF t4
      <4>4. t4 = <<t4[1], t4[2], t4[3], t4[4]>>
        BY <4>3, FourSegments
      <4>5. t4 = <<Root, "jdev", "sys", "enc">>
        BY <4>3, <4>4
      <4> QED BY <4>5 DEF t4
    <3> QED BY <3>1, <3>2 DEF ENC
  <2> QED BY <1>0, <1>1, <1>3, <2>1 DEF decode_control, ctrl
<1>4. CASE ~j
  <2>1. Quirk(ENC, slash, j) \notin {<<"jdev", "sys", "enc">>, <<Root, "jdev", "sys", "enc">>}
    <3> DEFINE d == <<"dev">> \o <<"sys", "enc">>
    <3>1. Quirk(ENC, slash, j) = IF slash THEN <<Root>> \o d ELSE d
      BY <1>2, <1>4 DEF Quirk
    <3>2. d \in Seq(Words) /\ Len(d) = 3 /\ d[1] = "dev" /\ Root \in Words
      BY DEF Words, Literals
    <3> HIDE DEF d
    <3> DEFINE e == <<Root>> \o d
    <3>3. Len(e) = 4 /\ e[2] = "dev"
      <4>1. e = <<Root>> \o d
        BY Zenon
      <4> HIDE DEF e
      <4>2. Len(e) = Len(d) + 1 /\ \A i \in 1 .. Len(d) : e[i + 1] = d[i]
        <5>1. d \in Seq(Words) /\ Root \in Words
          BY <3>2
        <5>2. Fronted(e, Root, d)
          BY <4>1, <5>1, InFront, Zenon
        <5> QED BY <5>2, Zenon DEF Fronted
      <4>3. e[1 + 1] = d[1]
        BY <3>2, <4>2
      <4> QED BY <3>2, <4>2, <4>3
    <3>4. d \notin {<<"jdev", "sys", "enc">>, <<Root, "jdev", "sys", "enc">>}
      BY <3>2
    <3>5. e \notin {<<"jdev", "sys", "enc">>, <<Root, "jdev", "sys", "enc">>}
      <4> HIDE DEF e
      <4> QED BY <3>3
    <3> QED BY <3>1, <3>4, <3>5
  <2> QED BY <1>0, <1>1, <1>4, <2>1 DEF decode_control, ctrl
<1> QED BY <1>3, <1>4

-----------------------------------------------------------------------------
(* The comparison                                                           *)

\* The waiter as push registers it, and what the two answers to prove are about.
Waiter(cmd, wire) == [plain |-> cmd, wire |-> wire]
Wire(cmd, sealed, rotates) == IF sealed THEN encrypt(cmd, rotates) ELSE Open(cmd)
Readable(ctrl, wire, j) ==
    \/ ctrl.blob \in {<<>>, wire.blob}
    \/ ctrl.blob[1] = "ours" /\ j

\* A command that can be sent is a path, and not the one of encrypted ones.
LEMMA CommandSpelled ==
    ASSUME NEW c \in Commands
    PROVE  Spelled(c) /\ Spelled(ENC) /\ Kind(ENC) # Kind(c)
<1>1. /\ c \in Seq(STRING) /\ c # <<>> /\ Head(c) \notin {Root, "dev"}
      /\ Head(c) = "jdev" => Len(c) >= 3 /\ ~(c[2] = "sys" /\ c[3] = "enc")
  BY CommandsAssumption
<1>2. c \in Seq(Words)
  BY <1>1, SeqMonotonic DEF Words
<1>3. Spelled(c)
  BY <1>1, <1>2 DEF Spelled
<1>4. Spelled(ENC)
  <2>1. ENC \in Seq(Words) /\ ENC # <<>> /\ Head(ENC) = "jdev" /\ Len(ENC) = 3
    BY DEF ENC, Words, Literals
  <2> QED BY <2>1, RootDistinct DEF Spelled
<1>5. Kind(ENC) = <<"jdev", "sys", "enc">>
  <2>1. /\ ENC \in Seq(Words) /\ Len(ENC) = 3 /\ Head(ENC) = "jdev"
        /\ ENC[1] = "jdev" /\ ENC[2] = "sys" /\ ENC[3] = "enc"
    BY DEF ENC, Words, Literals
  <2>2. Len(ENC) >= 3
    BY <2>1
  <2>3. SubSeq(ENC, 1, 3) = <<ENC[1], ENC[2], ENC[3]>>
    BY <2>1, <2>2, FirstOnes, Zenon
  <2> QED BY <2>1, <2>3 DEF Kind
<1>6. Kind(ENC) # Kind(c)
  <2>1. CASE Head(c) = "jdev"
    <3>1. Kind(c) = <<c[1], c[2], c[3]>>
      BY <1>1, <1>2, <2>1, FirstOnes DEF Kind
    <3> QED BY <1>1, <1>5, <2>1, <3>1
  <2>2. CASE Head(c) # "jdev"
    BY <1>5, <2>2 DEF Kind
  <2> QED BY <2>1, <2>2
<1> QED BY <1>3, <1>4, <1>6

\* An echo in the clear.
LEMMA OpenEcho ==
    ASSUME NEW c \in Commands, NEW x, Spelled(x), NEW sealed \in BOOLEAN, NEW rotates \in BOOLEAN,
           NEW slash \in BOOLEAN, NEW j \in BOOLEAN
    PROVE  Resolves(Waiter(c, Wire(c, sealed, rotates)), Open(Quirk(x, slash, j)))
               <=> Kind(x) = Kind(c)
<1> DEFINE q == Quirk(x, slash, j)
           w == Wire(c, sealed, rotates)
<1>1. Spelled(c) /\ canonical(q) = Bare(x) /\ q # <<>>
  BY CommandSpelled, CanonicalQuirk
<1> HIDE DEF q
<1>2. control_matches(q, c) <=> Kind(x) = Kind(c)
  BY <1>1, VerbIsKind
<1>3. Open(q).path = q /\ Open(q).blob = <<>> /\ decode_control(Open(q)) = q
  BY DEF Open, decode_control
<1>4. canonical(q) = canonical(w.path) /\ <<>> = w.blob => control_matches(q, c)
  <2>1. CASE sealed
    <3>1. w.blob # <<>>
      BY <2>1 DEF Wire, encrypt, Sealed
    <3> QED BY <3>1
  <2>2. CASE ~sealed
    <3>1. w.path = c
      BY <2>2 DEF Wire, Open
    <3>2. ASSUME canonical(q) = canonical(c) PROVE control_matches(q, c)
      BY <3>2 DEF control_matches, verb
    <3> QED BY <3>1, <3>2
  <2> QED BY <2>1, <2>2
<1> HIDE DEF w
<1>5. Waiter(c, w).wire = w /\ Waiter(c, w).plain = c
  BY DEF Waiter
<1>6. Resolves(Waiter(c, w), Open(q)) <=> control_matches(q, c)
  BY <1>1, <1>3, <1>4, <1>5 DEF Resolves
<1> QED BY <1>2, <1>6 DEF q, w

\* An echo of the session's own encryption: the one that was sent, or another.
LEMMA SealedEcho ==
    ASSUME NEW c \in Commands, NEW o \in Commands, NEW sealed \in BOOLEAN, NEW rotates \in BOOLEAN,
           NEW slash \in BOOLEAN, NEW j \in BOOLEAN, NEW t, strip_salt_prefix(t) = o
    PROVE  Resolves(Waiter(c, Wire(c, sealed, rotates)), OwnEcho(t, slash, j))
               <=> /\ Kind(o) = Kind(c)
                   /\ Readable(OwnEcho(t, slash, j), Wire(c, sealed, rotates), j)
<1> DEFINE ctrl == OwnEcho(t, slash, j)
           q == Quirk(ENC, slash, j)
           w == Wire(c, sealed, rotates)
<1>0. Spelled(c) /\ Spelled(o) /\ Spelled(ENC) /\ Kind(ENC) # Kind(c)
  BY CommandSpelled
<1>1. canonical(q) = Bare(ENC) /\ q # <<>> /\ canonical(o) = Bare(o) /\ o # <<>>
  BY <1>0, CanonicalQuirk, CanonicalBare DEF Spelled
<1>2. decode_control(ctrl) = IF j THEN o ELSE q
  BY SealedDecoded, Zenon
<1>3. w.blob = IF sealed THEN Blob(SaltPrefix(rotates) \o c) ELSE <<>>
  BY DEF Wire, encrypt, Sealed, Open, SaltPrefix, Blob
<1>4. sealed => w.path = ENC
  BY DEF Wire, encrypt, Sealed, ENC
<1>5. strip_salt_prefix(SaltPrefix(rotates) \o c) = c
  BY <1>0, SaltStripped, Zenon
<1>6. (IF j THEN o ELSE q) # <<>>
  BY <1>1
<1>7. control_matches(o, c) <=> Kind(o) = Kind(c)
  BY <1>0, <1>1, VerbIsKind
<1>8. ~control_matches(q, c)
  BY <1>0, <1>1, VerbIsKind
<1> HIDE DEF ctrl, q, w
<1>9. ctrl.path = q /\ ctrl.blob = Blob(t) /\ ctrl.blob # <<>> /\ ctrl.blob[1] = "ours"
  BY OwnEchoParts, BlobParts DEF ctrl, q
<1>10. Waiter(c, w).wire = w /\ Waiter(c, w).plain = c
  BY DEF Waiter
<1>11. CASE ctrl.blob = w.blob
  <2>1. sealed /\ t = SaltPrefix(rotates) \o c
    <3> DEFINE u == SaltPrefix(rotates) \o c
    <3> HIDE DEF u
    <3>1. w.blob = IF sealed THEN Blob(u) ELSE <<>>
      BY <1>3 DEF u
    <3>2. sealed
      BY <1>9, <1>11, <3>1
    <3>3. Blob(t) = Blob(u)
      BY <1>9, <1>11, <3>1, <3>2
    <3>4. t = u
      BY <3>3, BlobParts
    <3> QED BY <3>2, <3>4 DEF u
  <2>2. o = c
    BY <1>5, <2>1
  <2>3. canonical(ctrl.path) = canonical(w.path)
    BY <1>0, <1>1, <1>4, <1>9, <2>1, CanonicalBare
  <2>4. Resolves(Waiter(c, w), ctrl)
    BY <1>10, <1>11, <2>3 DEF Resolves
  <2>5. Readable(ctrl, w, j)
    BY <1>11 DEF Readable
  <2> QED BY <2>2, <2>4, <2>5, Zenon DEF w, ctrl
<1>12. CASE ctrl.blob # w.blob
  <2>1. Readable(ctrl, w, j) <=> j
    BY <1>9, <1>12 DEF Readable
  <2>2. Resolves(Waiter(c, w), ctrl) <=> control_matches(IF j THEN o ELSE q, c)
    BY <1>2, <1>6, <1>10, <1>12 DEF Resolves
  <2>3. CASE j
    BY <1>7, <2>1, <2>2, <2>3, Zenon DEF w, ctrl
  <2>4. CASE ~j
    BY <1>8, <2>1, <2>2, <2>4, Zenon DEF w, ctrl
  <2> QED BY <2>3, <2>4
<1> QED BY <1>11, <1>12

\* An echo that another key encrypted.
LEMMA ForeignEcho ==
    ASSUME NEW c \in Commands, NEW o, NEW sealed \in BOOLEAN, NEW rotates \in BOOLEAN,
           NEW j \in BOOLEAN, NEW ctrl, ctrl = Sealed(ENC, "other", o)
    PROVE  /\ ~Resolves(Waiter(c, Wire(c, sealed, rotates)), ctrl)
           /\ ~Readable(ctrl, Wire(c, sealed, rotates), j)
<1> DEFINE w == Wire(c, sealed, rotates)
           u == SaltPrefix(rotates) \o c
<1>1. ctrl.path = ENC /\ ctrl.blob = <<"other", o>> /\ ctrl.blob[1] = "other" /\ ctrl.blob # <<>>
  BY DEF Sealed
<1>2. w.blob = IF sealed THEN Blob(u) ELSE <<>>
  BY DEF Wire, encrypt, Sealed, Open, SaltPrefix, Blob
<1> HIDE DEF u
<1>3. ctrl.blob # w.blob
  BY <1>1, <1>2, BlobParts
<1>4. decode_control(ctrl) = <<>>
  BY <1>1 DEF decode_control, ENC
<1> HIDE DEF w
<1>5. Waiter(c, w).wire = w
  BY DEF Waiter
<1>6. ~Resolves(Waiter(c, w), ctrl)
  BY <1>3, <1>4, <1>5 DEF Resolves
<1>7. ~Readable(ctrl, w, j)
  BY <1>1, <1>3 DEF Readable
<1> QED BY <1>6, <1>7 DEF w

\* A quirk changes the path and leaves the blob.
LEMMA QuirkedPath ==
    ASSUME NEW path, NEW blob, NEW slash, NEW j, NEW v, v = [path |-> path, blob |-> blob]
    PROVE  [v EXCEPT !.path = Quirk(@, slash, j)] = [path |-> Quirk(path, slash, j), blob |-> blob]
OBVIOUS

\* Every spelling of an echo.
LEMMA EchoCompared ==
    ASSUME NEW c \in Commands, NEW o \in Commands, NEW sealed \in BOOLEAN, NEW rotates \in BOOLEAN,
           NEW a \in Echoes(o, Wire(o, sealed, rotates))
    PROVE  /\ a.cmd = o
           /\ Resolves(Waiter(c, Wire(c, sealed, rotates)), a.ctrl)
                <=> Kind(o) = Kind(c) /\ Readable(a.ctrl, Wire(c, sealed, rotates), a.j)
<1> DEFINE w == Wire(c, sealed, rotates)
           v == Wire(o, sealed, rotates)
<1>0. Spelled(o) /\ Spelled(take_segments(o, 3)) /\ Kind(take_segments(o, 3)) = Kind(o)
  BY CommandSpelled, ElidedKind
<1>1. PICK how \in {"wire", "again", "plain", "elided", "foreign"}, slash \in BOOLEAN, j \in BOOLEAN :
        a = [cmd |-> o, how |-> how, j |-> j, ctrl |-> Spelling(o, v, how, slash, j)]
  <2> DEFINE E(how, slash, j) ==
               [cmd |-> o, how |-> how, j |-> j, ctrl |-> Spelling(o, v, how, slash, j)]
  <2>1. a \in {E(how, slash, j) : how \in {"wire", "again", "plain", "elided", "foreign"},
                                 slash \in BOOLEAN, j \in BOOLEAN}
    BY DEF Echoes
  <2> HIDE DEF E, v
  <2>2. \E how \in {"wire", "again", "plain", "elided", "foreign"}, slash \in BOOLEAN, j \in BOOLEAN :
          a = E(how, slash, j)
    BY <2>1
  <2> QED BY <2>2, Zenon DEF E
<1>2. a.cmd = o /\ a.j = j /\ a.ctrl = Spelling(o, v, how, slash, j)
  BY <1>1
<1>3. ASSUME NEW x, Spelled(x), Kind(x) = Kind(o), a.ctrl = Open(Quirk(x, slash, j))
      PROVE  Resolves(Waiter(c, w), a.ctrl) <=> Kind(o) = Kind(c) /\ Readable(a.ctrl, w, a.j)
  <2>1. Resolves(Waiter(c, w), a.ctrl) <=> Kind(x) = Kind(c)
    BY <1>3, OpenEcho
  <2> HIDE DEF w
  <2>2. Readable(a.ctrl, w, a.j)
    <3>1. Open(Quirk(x, slash, j)).blob = <<>>
      BY DEF Open
    <3> QED BY <1>3, <3>1, Zenon DEF Readable
  <2> QED BY <1>3, <2>1, <2>2
<1>4. ASSUME NEW again \in BOOLEAN, a.ctrl = OwnEcho(SaltPrefix(again) \o o, slash, j)
      PROVE  Resolves(Waiter(c, w), a.ctrl) <=> Kind(o) = Kind(c) /\ Readable(a.ctrl, w, a.j)
  <2> DEFINE t == SaltPrefix(again) \o o
  <2>1. strip_salt_prefix(t) = o
    BY <1>0, SaltStripped, Zenon
  <2> HIDE DEF t
  <2>2. Resolves(Waiter(c, w), OwnEcho(t, slash, j))
          <=> Kind(o) = Kind(c) /\ Readable(OwnEcho(t, slash, j), w, j)
    BY <2>1, SealedEcho
  <2> HIDE DEF w
  <2> QED BY <1>2, <1>4, <2>2, Zenon DEF t
<1>5. CASE how = "plain"
  <2>1. a.ctrl = Open(Quirk(o, slash, j))
    BY <1>2, <1>5 DEF Spelling
  <2> QED BY <1>0, <1>2, <1>3, <2>1
<1>6. CASE how = "elided"
  <2>1. a.ctrl = Open(Quirk(take_segments(o, 3), slash, j))
    BY <1>2, <1>6 DEF Spelling
  <2> QED BY <1>0, <1>2, <1>3, <2>1
<1>7. CASE how = "foreign"
  <2>1. a.ctrl = Sealed(ENC, "other", o)
    BY <1>2, <1>7 DEF Spelling, ENC
  <2> QED BY <1>2, <2>1, ForeignEcho
<1>8. CASE how = "again"
  <2> DEFINE e == encrypt(o, TRUE)
  <2>1. a.ctrl = [e EXCEPT !.path = Quirk(@, slash, j)]
    BY <1>2, <1>8 DEF Spelling
  <2> DEFINE b == Blob(SaltPrefix(TRUE) \o o)
  <2>2. e = [path |-> ENC, blob |-> b]
    BY Zenon DEF encrypt, Sealed, ENC, SaltPrefix, Blob
  <2> HIDE DEF b, e
  <2>3. a.ctrl = [path |-> Quirk(ENC, slash, j), blob |-> b]
    BY <2>1, <2>2, QuirkedPath
  <2>4. a.ctrl = OwnEcho(SaltPrefix(TRUE) \o o, slash, j)
    BY <2>3, Zenon DEF OwnEcho, b
  <2> QED BY <1>2, <1>4, <2>4, Zenon
<1>9. CASE how = "wire"
  <2>1. a.ctrl = [v EXCEPT !.path = Quirk(@, slash, j)]
    BY <1>2, <1>9 DEF Spelling
  <2>2. CASE sealed
    <3> DEFINE b == Blob(SaltPrefix(rotates) \o o)
    <3>1. v = [path |-> ENC, blob |-> b]
      BY <2>2, Zenon DEF Wire, encrypt, Sealed, ENC, SaltPrefix, Blob
    <3> HIDE DEF b, v
    <3>2. a.ctrl = [path |-> Quirk(ENC, slash, j), blob |-> b]
      BY <2>1, <3>1, QuirkedPath
    <3>3. a.ctrl = OwnEcho(SaltPrefix(rotates) \o o, slash, j)
      BY <3>2, Zenon DEF OwnEcho, b
    <3> QED BY <1>2, <1>4, <3>3, Zenon
  <2>3. CASE ~sealed
    <3>1. v = [path |-> o, blob |-> <<>>]
      BY <2>3 DEF Wire, Open
    <3>2. a.ctrl = Open(Quirk(o, slash, j))
      BY <2>1, <3>1 DEF Open
    <3> QED BY <1>0, <1>2, <1>3, <3>2
  <2> QED BY <2>2, <2>3
<1> QED BY <1>1, <1>5, <1>6, <1>7, <1>8, <1>9

\* For every set of commands: resolve says that an answer matches exactly if it is of
\* the waiter's kind and its echo can be read, however the Miniserver spells it.
THEOREM EchoMatchesHolds == EchoSpec => []EchoMatches
<1>1. EchoInit => EchoMatches
  <2>1. EchoInit => waiter = Waiter(<<>>, Open(<<>>))
    BY Zenon DEF EchoInit, Waiter
  <2>2. Waiter(<<>>, Open(<<>>)).plain = <<>>
    BY DEF Waiter
  <2> QED BY <2>1, <2>2, Zenon DEF EchoMatches
<1>2. ASSUME EchoMatches, [ResolveHead]_echoVars PROVE EchoMatches'
  <2>1. CASE UNCHANGED echoVars
    BY <1>2, <2>1 DEF EchoMatches, echoVars
  <2>2. CASE ResolveHead
    <3>1. PICK c \in Commands, o \in Commands, sealed \in BOOLEAN, rotates \in BOOLEAN :
            /\ waiter' = Waiter(c, Wire(c, sealed, rotates))
            /\ answer' \in Echoes(o, Wire(o, sealed, rotates))
      BY <2>2, Zenon DEF ResolveHead, Waiter, Wire
    <3> DEFINE w == Wire(c, sealed, rotates)
    <3>2. /\ answer'.cmd = o
          /\ Resolves(waiter', answer'.ctrl)
               <=> Kind(o) = Kind(c) /\ Readable(answer'.ctrl, w, answer'.j)
      BY <3>1, EchoCompared
    <3> HIDE DEF w
    <3>3. waiter'.plain = c /\ waiter'.wire = w
      BY <3>1 DEF Waiter, w
    <3>4. matched' = Resolves(waiter', answer'.ctrl)
      BY <2>2 DEF ResolveHead
    <3>5. matched' <=> Kind(answer'.cmd) = Kind(waiter'.plain) /\ Readable(answer'.ctrl, waiter'.wire, answer'.j)
      BY <3>2, <3>3, <3>4
    <3> QED BY <3>5 DEF EchoMatches, Readable
  <2> QED BY <1>2, <2>1, <2>2
<1> QED BY <1>1, <1>2, PTL DEF EchoSpec

-----------------------------------------------------------------------------
(* The supervisor                                                           *)

\* connect() is unanswered only before the first session is up, answered with Ok
\* only once one is, and with an error only by a supervisor that has ended.
ReadyInv ==
    /\ ready = "pending" =>
        ~ever /\ pc \in {"setup", "top", "handshake", "finish"}
    /\ ready = "ok" => ever \/ pc \in {"read", "join", "aborted"}
    /\ ready = "err" => pc = "ended" /\ ~ever

\* Closed is delivered by the step that ends the supervisor, with the state.
EndInv == pc = "ended" => state = "Closed" /\ event = "Closed"
LastInv == event = "Closed" => pc = "ended"

\* Every session since the last productive one was paid for by an attempt, and
\* the next one is paid for before the wait that precedes it.
BudgetInv ==
    /\ ~ever => streak = 0
    /\ budget # 0 =>
        /\ attempt <= budget /\ streak <= attempt
        /\ ever /\ pc \in {"sleep", "top"} => streak < attempt
    /\ pc = "setup" => ~ever

SupervisorInv ==
    TypeOK /\ ReadyInv /\ EndInv /\ LastInv /\ StateHonest /\ BudgetInv

\* A client that has not been asked to connect yet satisfies the invariant.
LEMMA SupervisorInit == Init => SupervisorInv
<1> SUFFICES ASSUME Init PROVE SupervisorInv
  OBVIOUS
<1>1. attempt \in 0..AttemptCap /\ streak \in 0..AttemptCap /\ budget \in Nat
  BY BudgetsAssumption DEF Init
<1>2. TypeOK
  BY <1>1 DEF Init, TypeOK, Errors, CloseCodes, Events
<1>3. ReadyInv /\ EndInv /\ LastInv /\ StateHonest
  BY DEF Init, ReadyInv, EndInv, LastInv, StateHonest
<1>4. BudgetInv
  BY <1>1 DEF Init, BudgetInv
<1> QED
  BY <1>2, <1>3, <1>4 DEF SupervisorInv

\* Every step keeps the types.
LEMMA SupervisorTypes == TypeOK /\ [Next]_vars => TypeOK'
<1> SUFFICES ASSUME TypeOK, [Next]_vars PROVE TypeOK'
  OBVIOUS
<1> USE BudgetsAssumption DEF TypeOK, Errors, CloseCodes, Events
<1>1. CASE Setup BY <1>1 DEF Setup
<1>2. CASE Top BY <1>2 DEF Top
<1>3. CASE HandshakeFails
  <2>1. pc' \in {"finish", "wait"}
    BY <1>3 DEF HandshakeFails, Settle
  <2>2. panicked' \in BOOLEAN
    BY <1>3, Zenon DEF HandshakeFails
  <2> QED BY <1>3, <2>1, <2>2 DEF HandshakeFails
<1>4. CASE HandshakeSucceeds BY <1>4 DEF HandshakeSucceeds, Lifecycle
<1>5. CASE JoinWriter BY <1>5 DEF JoinWriter, BudgetAfter, Settle
<1>6. CASE Disconnected
  <2>1. pc' \in {"finish", "wait"}
    BY <1>6 DEF Disconnected
  <2>2. panicked' \in BOOLEAN
    BY <1>6, Zenon DEF Disconnected, Lifecycle
  <2> QED BY <1>6, <2>1, <2>2 DEF Disconnected, Lifecycle
<1>7. CASE Finish BY <1>7 DEF Finish, Lifecycle
<1>8. CASE WaitReconnect
  <2>1. CASE ShouldContinue
    <3>1. attempt' \in 0..AttemptCap
      BY <1>8, <2>1 DEF WaitReconnect
    <3> QED BY <1>8, <2>1, <3>1 DEF WaitReconnect
  <2>2. CASE ~ShouldContinue BY <1>8, <2>2 DEF WaitReconnect, Lifecycle
  <2> QED BY <2>1, <2>2
<1>9. CASE SleepUnlessStopped
  <2>1. CASE stopped
    <3>1. panicked' \in BOOLEAN
      BY <1>9, <2>1, Zenon DEF SleepUnlessStopped, Lifecycle
    <3> QED BY <1>9, <2>1, <3>1 DEF SleepUnlessStopped, Lifecycle
  <2>2. CASE ~stopped BY <1>9, <2>2 DEF SleepUnlessStopped
  <2> QED BY <2>1, <2>2
<1>10. CASE ReaderReturns BY <1>10 DEF ReaderReturns
<1>11. CASE Stop BY <1>11 DEF Stop
<1>12. CASE Abort BY <1>12 DEF Abort
<1>13. CASE Terminated BY <1>13 DEF Terminated, vars
<1>14. CASE UNCHANGED vars BY <1>14 DEF vars
<1>15. CASE CancelConnect BY <1>15 DEF CancelConnect
<1> QED
  BY <1>1, <1>2, <1>3, <1>4, <1>5, <1>6, <1>7, <1>8, <1>9, <1>10, <1>11, <1>12, <1>13, <1>14,
     <1>15
     DEF Next, Steps

\* Every step keeps what the state, the events and connect()'s answer promise.
LEMMA SupervisorPromises ==
    SupervisorInv /\ [Next]_vars => ReadyInv' /\ EndInv' /\ LastInv' /\ StateHonest'
<1> SUFFICES ASSUME SupervisorInv, [Next]_vars
             PROVE  ReadyInv' /\ EndInv' /\ LastInv' /\ StateHonest'
  OBVIOUS
<1> USE DEF SupervisorInv, TypeOK, ReadyInv, EndInv, LastInv, StateHonest, CloseCodes
<1>1. CASE Setup BY <1>1 DEF Setup
<1>2. CASE Top BY <1>2 DEF Top
<1>3. CASE HandshakeFails BY <1>3 DEF HandshakeFails, Settle
<1>4. CASE HandshakeSucceeds BY <1>4 DEF HandshakeSucceeds, Lifecycle
<1>5. CASE JoinWriter BY <1>5 DEF JoinWriter, BudgetAfter, Settle
<1>6. CASE Disconnected BY <1>6 DEF Disconnected, Lifecycle
<1>7. CASE Finish BY <1>7 DEF Finish, Lifecycle
<1>8. CASE WaitReconnect BY <1>8 DEF WaitReconnect, ShouldContinue, Lifecycle
<1>9. CASE SleepUnlessStopped
  <2>1. CASE stopped
    <3>1. panicked' \in BOOLEAN
      BY <1>9, <2>1, Zenon DEF SleepUnlessStopped, Lifecycle
    <3> QED BY <1>9, <2>1, <3>1 DEF SleepUnlessStopped, Lifecycle
  <2>2. CASE ~stopped BY <1>9, <2>2 DEF SleepUnlessStopped
  <2> QED BY <2>1, <2>2
<1>10. CASE ReaderReturns BY <1>10 DEF ReaderReturns
<1>11. CASE Stop BY <1>11 DEF Stop
<1>12. CASE Abort BY <1>12 DEF Abort
<1>13. CASE Terminated BY <1>13 DEF Terminated, vars
<1>14. CASE UNCHANGED vars BY <1>14 DEF vars
<1>15. CASE CancelConnect BY <1>15 DEF CancelConnect
<1> QED
  BY <1>1, <1>2, <1>3, <1>4, <1>5, <1>6, <1>7, <1>8, <1>9, <1>10, <1>11, <1>12, <1>13, <1>14,
     <1>15
     DEF Next, Steps

\* Every step keeps the account of the reconnect budget.
LEMMA SupervisorBudget == SupervisorInv /\ [Next]_vars => BudgetInv'
<1> SUFFICES ASSUME SupervisorInv, [Next]_vars PROVE BudgetInv'
  OBVIOUS
<1> USE BudgetsAssumption DEF SupervisorInv, TypeOK, BudgetInv
<1>1. CASE Setup BY <1>1 DEF Setup
<1>2. CASE Top BY <1>2 DEF Top
<1>3. CASE HandshakeFails BY <1>3 DEF HandshakeFails, Settle
<1>4. CASE HandshakeSucceeds BY <1>4 DEF HandshakeSucceeds, Lifecycle
<1>5. CASE JoinWriter BY <1>5 DEF JoinWriter, BudgetAfter, Settle
<1>6. CASE Disconnected BY <1>6 DEF Disconnected, Lifecycle
<1>7. CASE Finish BY <1>7 DEF Finish, Lifecycle
<1>8. CASE WaitReconnect
  <2>1. CASE ShouldContinue BY <1>8, <2>1 DEF WaitReconnect, ShouldContinue
  <2>2. CASE ~ShouldContinue BY <1>8, <2>2 DEF WaitReconnect, Lifecycle
  <2> QED BY <2>1, <2>2
<1>9. CASE SleepUnlessStopped
  <2>1. CASE stopped
    <3>1. panicked' \in BOOLEAN
      BY <1>9, <2>1, Zenon DEF SleepUnlessStopped, Lifecycle
    <3> QED BY <1>9, <2>1, <3>1 DEF SleepUnlessStopped, Lifecycle
  <2>2. CASE ~stopped BY <1>9, <2>2 DEF SleepUnlessStopped
  <2> QED BY <2>1, <2>2
<1>10. CASE ReaderReturns BY <1>10 DEF ReaderReturns
<1>11. CASE Stop BY <1>11 DEF Stop
<1>12. CASE Abort BY <1>12 DEF Abort
<1>13. CASE Terminated BY <1>13 DEF Terminated, vars
<1>14. CASE UNCHANGED vars BY <1>14 DEF vars
<1>15. CASE CancelConnect BY <1>15 DEF CancelConnect
<1> QED
  BY <1>1, <1>2, <1>3, <1>4, <1>5, <1>6, <1>7, <1>8, <1>9, <1>10, <1>11, <1>12, <1>13, <1>14,
     <1>15
     DEF Next, Steps

\* The inductive invariant behind the supervisor's promises.
THEOREM SupervisorCorrect == Spec => []SupervisorInv
<1>1. Init => SupervisorInv
  BY SupervisorInit
<1>2. SupervisorInv /\ [Next]_vars => SupervisorInv'
  BY SupervisorTypes, SupervisorPromises, SupervisorBudget DEF SupervisorInv
<1> QED
  BY <1>1, <1>2, PTL DEF Spec

\* Whichever way the supervisor ends, the state is Closed, the Closed event has
\* been delivered and connect() has been answered.
THEOREM EndsClosedHolds == Spec => []EndsClosed
<1>1. SupervisorInv => EndsClosed
  BY DEF SupervisorInv, ReadyInv, EndInv, EndsClosed
<1> QED
  BY <1>1, SupervisorCorrect, PTL

\* The state says Connected only while a session is read or a stop is under way.
THEOREM StateHonestHolds == Spec => []StateHonest
<1>1. SupervisorInv => StateHonest
  BY DEF SupervisorInv
<1> QED
  BY <1>1, SupervisorCorrect, PTL

\* Every variable of the supervisor keeps its type.
THEOREM SupervisorTypeCorrect == Spec => []TypeOK
<1>1. SupervisorInv => TypeOK
  BY DEF SupervisorInv
<1> QED
  BY <1>1, SupervisorCorrect, PTL

\* connect() returns Ok only once a handshake has succeeded, and an error only from
\* a supervisor that has ended without one.
THEOREM ReadyHonestHolds == Spec => []ReadyHonest
<1>1. SupervisorInv => ReadyHonest
  BY DEF SupervisorInv, ReadyInv, ReadyHonest
<1> QED
  BY <1>1, SupervisorCorrect, PTL

\* No more sessions follow one another without a productive one than
\* max_reconnect_attempts allows, for every value of it.
THEOREM BudgetHoldsAlways == Spec => []BudgetHolds
<1>1. SupervisorInv => BudgetHolds
  BY BudgetsAssumption DEF SupervisorInv, TypeOK, BudgetInv, BudgetHolds
<1> QED
  BY <1>1, SupervisorCorrect, PTL

\* After the Closed event nothing is delivered and the state no longer changes.
THEOREM ClosedIsLastHolds == Spec => ClosedIsLast
<1>1. SupervisorInv /\ [Next]_vars => [event = "Closed" => UNCHANGED <<event, state, pc>>]_vars
  <2> SUFFICES ASSUME LastInv, [Next]_vars, event = "Closed"
               PROVE  UNCHANGED <<event, state, pc>>
    BY DEF SupervisorInv
  <2>1. pc = "ended"
    BY DEF LastInv
  <2> QED
    BY <2>1 DEF Next, Steps, Setup, Top, HandshakeFails, HandshakeSucceeds, JoinWriter,
                Disconnected, Finish, WaitReconnect, SleepUnlessStopped, ReaderReturns,
                CancelConnect, Stop, Abort, Terminated, vars
<1> QED
  BY <1>1, SupervisorCorrect, PTL DEF Spec, ClosedIsLast

\* An unwound handler never gets another session.
THEOREM NoSessionAfterPanicHolds == Spec => NoSessionAfterPanic
<1>1. [Next]_vars => [panicked /\ pc # "handshake" => pc' # "handshake"]_vars
  <2> SUFFICES ASSUME [Next]_vars, panicked, pc # "handshake" PROVE pc' # "handshake"
    OBVIOUS
  <2>1. CASE Steps
    BY <2>1 DEF Steps, Setup, Top, HandshakeFails, HandshakeSucceeds, JoinWriter, Disconnected,
                Finish, WaitReconnect, SleepUnlessStopped, Settle
  <2>2. CASE ReaderReturns \/ CancelConnect \/ Stop \/ Abort \/ Terminated \/ UNCHANGED vars
    BY <2>2 DEF ReaderReturns, CancelConnect, Stop, Abort, Terminated, vars
  <2> QED BY <2>1, <2>2 DEF Next
<1> QED
  BY <1>1, PTL DEF Spec, NoSessionAfterPanic

=============================================================================
