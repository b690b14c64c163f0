------------------------------ MODULE WireProofs ------------------------------
(***************************************************************************)
(* For every catalogue, all addresses, any stock and streams of any        *)
(* capacity: what one session sends arrives as it was sent.                *)
(*                                                                         *)
(* The first half is about data alone: productUnserialize and              *)
(* orderUnserialize make of the bytes of a product, and of an order, that  *)
(* product and that order.  A number, a text or an entry is found where it *)
(* was put because the bytes before it take the room that their lengths    *)
(* say (Starts, InPlace).  A query is the text of its four pieces exactly  *)
(* if its second piece, the only one that may be counted short, is not     *)
(* (FourPieces), and countDigits counts short exactly where a total, which *)
(* float arithmetic has made (FloatType), is rounded over a power of ten   *)
(* or loses its sign (TotalCounted).                                       *)
(*                                                                         *)
(* The second half says, with the queues of FramingProofs, what is on each *)
(* link while the products come (ListInv, ClientInv), and where the order  *)
(* is after that: on one link, or in the tables, and nowhere else          *)
(* (WhereInv).                                                             *)
(***************************************************************************)
EXTENDS Wire, FramingProofs

-----------------------------------------------------------------------------
(* What is where in a sequence of bytes.                                   *)

\* What a sequence of bytes starts with.
Starts(s, data) ==
  s \in Seq(Byte) /\ \E rest \in Seq(Byte) : data = s \o rest

LEMMA StartsItself ==
  ASSUME NEW s \in Seq(Byte)
  PROVE  Starts(s, s)
<1>1. s = s \o <<>> /\ <<>> \in Seq(Byte)
  OBVIOUS
<1> QED BY <1>1 DEF Starts

LEMMA StartsLess ==
  ASSUME NEW s \in Seq(Byte), NEW t \in Seq(Byte), NEW data, Starts(s \o t, data)
  PROVE  Starts(s, data) /\ data \in Seq(Byte)
<1>1. PICK rest \in Seq(Byte) : data = (s \o t) \o rest
  BY DEF Starts
<1>2. Associative(s, t, rest)
  BY BytesAssociative
<1>3. t \o rest \in Seq(Byte) /\ (s \o t) \o rest \in Seq(Byte)
  BY ConcatProperties
<1> QED BY <1>1, <1>2, <1>3 DEF Starts, Associative

LEMMA StartsMore ==
  ASSUME NEW s \in Seq(Byte), NEW t \in Seq(Byte), Starts(s, t), NEW u \in Seq(Byte)
  PROVE  Starts(u \o s, u \o t)
<1>1. PICK rest \in Seq(Byte) : t = s \o rest
  BY DEF Starts
<1>2. Associative(u, s, rest)
  BY BytesAssociative
<1>3. u \o s \in Seq(Byte)
  BY ConcatProperties
<1> QED BY <1>1, <1>2, <1>3 DEF Starts, Associative

\* memcpy finds a number that has been written, and strncpy the bytes of a text.
LEMMA ValueThere ==
  ASSUME NEW s \in Seq(Byte), NEW v \in Int, NEW size \in Nat \ {0}, NEW data,
         Starts(s \o Bytes(v, size), data)
  PROVE  Value(data, Len(s), size) = v
<1> DEFINE b == s \o Bytes(v, size)
<1>1. Bytes(v, size) \in Seq(Byte) /\ Len(Bytes(v, size)) = size
  BY BytesType
<1>2. b \in Seq(Byte) /\ Len(b) = Len(s) + size
  BY <1>1
<1>3. PICK rest \in Seq(Byte) : data = b \o rest
  BY DEF Starts
<1>4. Value(b, Len(s), size) = v
  BY ValueOfBytes
<1> HIDE DEF b
<1>5. Len(s) \in Nat /\ Len(s) + size <= Len(b)
  BY <1>2
<1>6. Value(b \o rest, Len(s), size) = Value(b, Len(s), size)
  BY <1>2, <1>5, ValueOfPrefix
<1> QED BY <1>3, <1>4, <1>6

LEMMA SliceThere ==
  ASSUME NEW s \in Seq(Byte), NEW t \in Seq(Byte), NEW data, Starts(s \o t, data)
  PROVE  SubSeq(data, Len(s) + 1, Len(s) + Len(t)) = t
<1>1. PICK rest \in Seq(Byte) : data = (s \o t) \o rest
  BY DEF Starts
<1> QED BY <1>1, SubSeqInConcat

-----------------------------------------------------------------------------
(* Pieces of the same size put together.                                   *)

\* seqs[i] is in bytes where it belongs.
InPlace(bytes, seqs, i, size) ==
  \E before \in Seq(Byte) : Len(before) = (i - 1) * size /\ Starts(before \o seqs[i], bytes)

Equal(seqs, n, size) == \A i \in 1 .. n : seqs[i] \in Seq(Byte) /\ Len(seqs[i]) = size

AllInPlace(f, seqs, k, size) ==
  /\ f[k] \in Seq(Byte) /\ Len(f[k]) = k * size
  /\ \A i \in 1 .. k : InPlace(f[k], seqs, i, size)

LEMMA FlatteningPlaces ==
  ASSUME NEW f, NEW seqs, NEW n \in Nat, NEW size \in Nat, Flattening(f, seqs, n), Equal(seqs, n, size),
         NEW m \in 1 .. n
  PROVE  AllInPlace(f, seqs, m, size)
<1> DEFINE Bad == {k \in 1 .. n : ~AllInPlace(f, seqs, k, size)}
<1>1. SUFFICES ASSUME m \in Bad PROVE FALSE
  OBVIOUS
<1>2. PICK k \in Bad : \A j \in Bad : k <= j
  <2>1. Bad \subseteq Nat
    OBVIOUS
  <2> HIDE DEF Bad
  <2> QED BY <1>1, <2>1, LeastNumber
<1>3. k \in 1 .. n /\ ~AllInPlace(f, seqs, k, size)
  BY <1>2
<1> HIDE DEF Bad
<1>4. seqs[k] \in Seq(Byte) /\ Len(seqs[k]) = size
  BY <1>3 DEF Equal
<1>5. CASE k = 1
  <2>1. f[k] = seqs[k]
    BY <1>5, <1>3, FlatteningFirst
  <2>2. Len(f[k]) = k * size
    BY <1>4, <1>5, <2>1
  <2>3. PICK e \in Seq(Byte) : e = <<>>
    <3>1. <<>> \in Seq(Byte)
      OBVIOUS
    <3> QED BY <3>1
  <2>4. Len(e) = (k - 1) * size
    BY <1>5, <2>3
  <2>5. e \o seqs[k] = seqs[k]
    BY <1>4, <2>3
  <2>6. InPlace(f[k], seqs, k, size)
    BY <1>4, <2>1, <2>4, <2>5, StartsItself DEF InPlace
  <2>7. \A i \in 1 .. k : i = k
    BY <1>5
  <2> QED BY <1>3, <1>4, <2>1, <2>2, <2>6, <2>7 DEF AllInPlace
<1>6. CASE k # 1
  <2>1. PICK j \in 1 .. n : k = j + 1
    <3>1. k - 1 \in 1 .. n /\ k = (k - 1) + 1
      BY <1>3, <1>6
    <3> QED BY <3>1
  <2>2. f[k] = Join(f[j], seqs[k])
    <3>1. j \in Nat /\ j # 0
      BY <2>1
    <3> QED BY <1>3, <2>1, <3>1, FlatteningNext
  <2>3. AllInPlace(f, seqs, j, size)
    <3>1. ~(k <= j)
      BY <2>1
    <3> QED BY <1>2, <2>1, <3>1 DEF Bad
  <2>4. f[j] \in Seq(Byte) /\ Len(f[j]) = j * size
    BY <2>3 DEF AllInPlace
  <2>5. f[k] \in Seq(Byte) /\ Len(f[k]) = Len(f[j]) + size
    BY <1>4, <2>2, <2>4, ConcatProperties DEF Join
  <2>6. j * size + size = k * size /\ (k - 1) * size = j * size
    BY <2>1
  <2>7. ASSUME NEW i \in 1 .. k
        PROVE  InPlace(f[k], seqs, i, size)
    <3>1. CASE i = k
      <4>1. Starts(f[j] \o seqs[k], f[k])
        BY <2>2, <2>5, StartsItself DEF Join
      <4> QED BY <2>4, <2>6, <3>1, <4>1 DEF InPlace
    <3>2. CASE i # k
      <4>1. i \in 1 .. j
        BY <2>1, <3>2
      <4>2. PICK before \in Seq(Byte) : Len(before) = (i - 1) * size /\ Starts(before \o seqs[i], f[j])
        BY <2>3, <4>1 DEF AllInPlace, InPlace
      <4>3. Starts(f[j], f[k])
        BY <1>4, <2>2, <2>4 DEF Starts, Join
      <4>4. Starts(before \o seqs[i], f[k])
        <5> DEFINE s == before \o seqs[i]
        <5>1. s \in Seq(Byte)
          BY <4>2 DEF Starts
        <5> HIDE DEF s
        <5>2. PICK r1 \in Seq(Byte) : f[j] = s \o r1
          BY <4>2 DEF Starts, s
        <5>3. PICK r2 \in Seq(Byte) : f[k] = f[j] \o r2
          BY <4>3 DEF Starts
        <5>4. Associative(s, r1, r2)
          BY <5>1, BytesAssociative
        <5>5. r1 \o r2 \in Seq(Byte)
          BY ConcatProperties
        <5> QED BY <5>1, <5>2, <5>3, <5>4, <5>5 DEF Starts, Associative, s
      <4> QED BY <4>2, <4>4 DEF InPlace
    <3> QED BY <3>1, <3>2
  <2> QED BY <1>3, <2>4, <2>5, <2>6, <2>7 DEF AllInPlace
<1> QED BY <1>5, <1>6

LEMMA FlattenEqual ==
  ASSUME NEW seqs, NEW size \in Nat, Len(seqs) \in Nat, seqs = <<>> \/ Len(seqs) # 0,
         Equal(seqs, Len(seqs), size)
  PROVE  /\ FlattenSeq(seqs) \in Seq(Byte)
         /\ Len(FlattenSeq(seqs)) = Len(seqs) * size
         /\ \A i \in 1 .. Len(seqs) : InPlace(FlattenSeq(seqs), seqs, i, size)
<1>1. CASE Len(seqs) = 0
  <2>1. FlattenSeq(seqs) = <<>> /\ Len(<<>>) = 0 /\ 0 * size = 0
    BY <1>1, FlattenSmall
  <2>2. <<>> \in Seq(Byte)
    OBVIOUS
  <2>3. \A i \in 1 .. Len(seqs) : FALSE
    BY <1>1
  <2> QED BY <1>1, <2>1, <2>2, <2>3
<1>2. CASE Len(seqs) # 0
  <2>1. PICK f : Flattening(f, seqs, Len(seqs)) /\ FlattenSeq(seqs) = f[Len(seqs)]
    BY <1>2, FlattenSeqIs
  <2>2. Len(seqs) \in 1 .. Len(seqs)
    BY <1>2
  <2>3. AllInPlace(f, seqs, Len(seqs), size)
    BY <2>1, <2>2, FlatteningPlaces
  <2> QED BY <2>1, <2>3 DEF AllInPlace
<1> QED BY <1>1, <1>2

-----------------------------------------------------------------------------
(* Texts.                                                                  *)

LEMMA OneMoreByte ==
  ASSUME NEW s \in Seq(Byte), NEW e \in Seq(Byte), Len(e) = 1, NEW u, u = s \o e
  PROVE  /\ u \in Seq(Byte) /\ Len(u) = Len(s) + 1
         /\ \A i \in 1 .. Len(s) : u[i] = s[i]
         /\ u[Len(s) + 1] = e[1]
<1>1. u \in Seq(Byte) /\ Len(u) = Len(s) + Len(e)
  BY ConcatProperties
<1>2. \A i \in 1 .. Len(s) + Len(e) : u[i] = IF i <= Len(s) THEN s[i] ELSE e[i - Len(s)]
  BY ConcatProperties
<1>3. Len(s) \in Nat /\ Len(s) + 1 \in 1 .. Len(s) + Len(e) /\ ~(Len(s) + 1 <= Len(s)) /\ Len(s) + 1 - Len(s) = 1
  OBVIOUS
<1>4. ASSUME NEW k \in 1 .. Len(s) + Len(e), k = Len(s) + 1
      PROVE  u[k] = e[1]
  <2>1. ~(k <= Len(s)) /\ k - Len(s) = 1
    BY <1>4
  <2>2. u[k] = e[k - Len(s)]
    BY <1>2, <2>1
  <2> QED BY <2>1, <2>2
<1> QED BY <1>1, <1>2, <1>3, <1>4

\* A text in memory: its characters, and a NUL.
LEMMA TextIs ==
  ASSUME NEW c \in Seq(Character)
  PROVE  /\ Text(c) \in Seq(Byte) /\ Len(Text(c)) = Len(c) + 1
         /\ \A i \in 1 .. Len(c) : Text(c)[i] = <<1, 1, c[i]>>
         /\ Text(c)[Len(c) + 1] = <<1, 1, NUL>>
<1> DEFINE seqs == [i \in 1 .. Len(c) |-> Bytes(c[i], 1)]
           t == FlattenSeq(seqs)
           e == Bytes(NUL, 1)
<1>1. Len(c) \in Nat /\ \A i \in 1 .. Len(c) : c[i] \in Int
  BY DEF Character
<1>2. Len(seqs) = Len(c) /\ (seqs = <<>> \/ Len(seqs) # 0)
  BY <1>1
<1>3. ASSUME NEW i \in 1 .. Len(c)
      PROVE  seqs[i] \in Seq(Byte) /\ Len(seqs[i]) = 1 /\ seqs[i][1] = <<1, 1, c[i]>>
  <2>1. seqs[i] = Bytes(c[i], 1)
    OBVIOUS
  <2>2. c[i] \in Int /\ 1 \in Nat \ {0} /\ 1 \in 1 .. 1
    BY <1>1
  <2> QED BY <2>1, <2>2, BytesType
<1> HIDE DEF seqs
<1>4. Equal(seqs, Len(seqs), 1) /\ 1 \in Nat /\ Len(seqs) \in Nat
  BY <1>1, <1>2, <1>3 DEF Equal
<1>5. /\ t \in Seq(Byte) /\ Len(t) = Len(seqs) * 1
      /\ \A i \in 1 .. Len(seqs) : InPlace(t, seqs, i, 1)
  BY <1>2, <1>4, FlattenEqual
<1>6. e \in Seq(Byte) /\ Len(e) = 1 /\ e[1] = <<1, 1, NUL>>
  <2>1. NUL \in Int /\ 1 \in Nat \ {0} /\ 1 \in 1 .. 1
    BY DEF NUL
  <2> QED BY <2>1, BytesType
<1>7. Text(c) = t \o e
  BY DEF Text, seqs
<1> HIDE DEF t, e
<1>8. Len(t) = Len(c) /\ t \in Seq(Byte)
  BY <1>1, <1>2, <1>5
<1> DEFINE x == Text(c)
<1> HIDE DEF x
<1>9. /\ x \in Seq(Byte) /\ Len(x) = Len(t) + 1
      /\ \A i \in 1 .. Len(t) : x[i] = t[i]
      /\ x[Len(t) + 1] = e[1]
  <2>1. x = t \o e
    BY <1>7 DEF x
  <2> QED BY <1>6, <1>8, <2>1, OneMoreByte
<1>10. ASSUME NEW i \in 1 .. Len(c)
       PROVE  t[i] = <<1, 1, c[i]>>
  <2>1. PICK before \in Seq(Byte) : Len(before) = (i - 1) * 1 /\ Starts(before \o seqs[i], t)
    BY <1>2, <1>5 DEF InPlace
  <2>2. PICK rest \in Seq(Byte) : t = (before \o seqs[i]) \o rest
    BY <2>1 DEF Starts
  <2> DEFINE u == seqs[i]
  <2>3. u \in Seq(Byte) /\ Len(u) = 1 /\ u[1] = <<1, 1, c[i]>>
    BY <1>3
  <2> HIDE DEF u
  <2>4. Len(before) = i - 1
    BY <2>1
  <2> DEFINE v == before \o u
  <2>5. v \in Seq(Byte) /\ Len(v) = Len(before) + 1 /\ v[Len(before) + 1] = u[1]
    BY <2>3, OneMoreByte
  <2> HIDE DEF v
  <2>6. Len(v) = i /\ v[i] = u[1] /\ i \in 1 .. Len(v)
    BY <2>4, <2>5
  <2>7. (v \o rest)[i] = v[i]
    BY <2>5, <2>6
  <2> QED BY <2>2, <2>3, <2>6, <2>7 DEF u, v
<1> QED BY <1>6, <1>8, <1>9, <1>10 DEF x

\* The least of the numbers that Min chooses from.
LEMMA MinIs ==
  ASSUME NEW I, NEW n \in I, \A m \in I : n <= m, I \subseteq Nat
  PROVE  Min(I) = n
<1>1. \A x \in I : (\A y \in I : x <= y) => x = n
  <2>1. n \in Nat
    OBVIOUS
  <2> QED BY <2>1
<1> QED BY <1>1 DEF Min

\* strncpy finds the characters of a text that has been written.
LEMMA CharactersThere ==
  ASSUME NEW s \in Seq(Byte), NEW c \in Seq(Character), NEW data,
         Starts(s \o Text(c), data)
  PROVE  Characters(data, Len(s), Len(Text(c))) = c
<1> DEFINE t == Text(c)
           I == {i \in 1 .. Len(t) : t[i][3] = NUL}
           end == SelectInSeq(t, LAMBDA byte : byte[3] = NUL)
<1>1. /\ t \in Seq(Byte) /\ Len(t) = Len(c) + 1
      /\ \A i \in 1 .. Len(c) : t[i] = <<1, 1, c[i]>>
      /\ t[Len(c) + 1] = <<1, 1, NUL>>
  BY TextIs
<1>2. Len(c) \in Nat /\ \A i \in 1 .. Len(c) : c[i] # NUL
  BY DEF Character
<1>3. SubSeq(data, Len(s) + 1, Len(s) + Len(t)) = t
  BY <1>1, SliceThere
<1> HIDE DEF t
<1>4. end = IF I # {} THEN Min(I) ELSE 0
  BY DEF SelectInSeq
<1>5. Len(c) + 1 \in I /\ I \subseteq Nat
  BY <1>1, <1>2
<1>6. \A i \in I : Len(c) + 1 <= i
  <2> SUFFICES ASSUME NEW i \in I, ~(Len(c) + 1 <= i) PROVE FALSE
    OBVIOUS
  <2>1. i \in 1 .. Len(c) /\ t[i][3] = NUL
    BY <1>1, <1>2
  <2>2. t[i][3] = c[i]
    BY <1>1, <2>1
  <2> QED BY <1>2, <2>1, <2>2
<1>7. end = Len(c) + 1
  <2>1. Min(I) = Len(c) + 1
    <3> HIDE DEF I
    <3> QED BY <1>5, <1>6, MinIs
  <2> QED BY <1>4, <1>5, <2>1
<1> HIDE DEF end, I
<1>8. Characters(data, Len(s), Len(t)) = [i \in 1 .. (IF end = 0 THEN Len(t) ELSE end - 1) |-> t[i][3]]
  BY <1>3 DEF Characters, end
<1>9. (IF end = 0 THEN Len(t) ELSE end - 1) = Len(c)
  BY <1>2, <1>7
<1>10. Characters(data, Len(s), Len(t)) = [i \in 1 .. Len(c) |-> t[i][3]]
  BY <1>8, <1>9
<1>11. \A i \in 1 .. Len(c) : t[i][3] = c[i]
  BY <1>1
<1>12. Characters(data, Len(s), Len(t)) = [i \in 1 .. Len(c) |-> c[i]]
  BY <1>10, <1>11
<1>13. c = [i \in 1 .. Len(c) |-> c[i]]
  OBVIOUS
<1> QED BY <1>12, <1>13 DEF t

-----------------------------------------------------------------------------
(* Products.                                                               *)

LEMMA ValueAtStart ==
  ASSUME NEW v \in Int, NEW size \in Nat \ {0}, NEW data, Starts(Bytes(v, size), data)
  PROVE  Value(data, 0, size) = v
<1> DEFINE b == Bytes(v, size)
<1>1. b \in Seq(Byte)
  BY BytesType
<1>2. PICK e \in Seq(Byte) : e = <<>>
  <2>1. <<>> \in Seq(Byte)
    OBVIOUS
  <2> QED BY <2>1
<1>3. e \o b = b /\ Len(e) = 0
  BY <1>1, <1>2
<1>4. Value(data, Len(e), size) = v
  <2>1. Starts(e \o b, data)
    BY <1>3
  <2> QED BY <2>1, ValueThere
<1> QED BY <1>3, <1>4

LEMMA BytesConcat ==
  ASSUME NEW s \in Seq(Byte), NEW t \in Seq(Byte), NEW n \in Nat, NEW m \in Nat, Len(s) = n, Len(t) = m
  PROVE  s \o t \in Seq(Byte) /\ Len(s \o t) = n + m
  BY ConcatProperties

\* What productUnserialize (product.c) makes of the bytes of a product is the product.
THEOREM ProductSurvives ==
  ASSUME NEW p \in Product
  PROVE  /\ productSerialize(p) \in Seq(Byte) /\ productSerialize(p) # <<>>
         /\ productUnserialize(productSerialize(p)) = p
<1> DEFINE M == Text(p.name)
           D == Text(p.description)
           B1 == Bytes(p.id, IntSize)
           B2 == Bytes(Len(M), IntSize)
           B3 == Bytes(Len(D), IntSize)
           B4 == Bytes(p.price, IntSize)
           B5 == Bytes(p.stock, IntSize)
           s2 == B1 \o B2
           s3 == s2 \o M
           s4 == s3 \o B3
           s5 == s4 \o D
           s6 == s5 \o B4
           data == s6 \o B5
<1>1. /\ p.id \in Int /\ p.price \in Int /\ p.stock \in Int /\ IntSize \in Nat \ {0}
      /\ p.name \in Seq(Character) /\ p.description \in Seq(Character)
  BY OrderDataAssumption DEF Product
<1>2. M \in Seq(Byte) /\ D \in Seq(Byte) /\ Len(M) \in Int /\ Len(D) \in Int
  BY <1>1, TextIs
<1>3. productSerialize(p) = data
  BY DEF productSerialize
<1> HIDE DEF M, D
<1>4. /\ B1 \in Seq(Byte) /\ Len(B1) = IntSize
      /\ B2 \in Seq(Byte) /\ Len(B2) = IntSize
      /\ B3 \in Seq(Byte) /\ Len(B3) = IntSize
      /\ B4 \in Seq(Byte) /\ Len(B4) = IntSize
      /\ B5 \in Seq(Byte) /\ Len(B5) = IntSize
  BY <1>1, <1>2, BytesType
<1> HIDE DEF B1, B2, B3, B4, B5
<1>5. s2 \in Seq(Byte) /\ Len(s2) = 2 * IntSize
  <2>1. IntSize \in Nat /\ IntSize + IntSize = 2 * IntSize
    BY <1>1
  <2>2. s2 \in Seq(Byte) /\ Len(s2) = IntSize + IntSize
    BY <1>4, <2>1, BytesConcat
  <2> QED BY <2>1, <2>2
<1> HIDE DEF s2
<1>6. s3 \in Seq(Byte) /\ Len(s3) = 2 * IntSize + Len(M)
  BY <1>1, <1>2, <1>5, ConcatProperties
<1> HIDE DEF s3
<1>7. s4 \in Seq(Byte) /\ Len(s4) = 2 * IntSize + Len(M) + IntSize
  <2>1. IntSize \in Nat /\ 2 * IntSize + Len(M) \in Nat
    BY <1>1, <1>2
  <2> QED BY <1>4, <1>6, <2>1, BytesConcat
<1> HIDE DEF s4
<1>8. s5 \in Seq(Byte) /\ Len(s5) = 2 * IntSize + Len(M) + IntSize + Len(D)
  BY <1>1, <1>2, <1>7, ConcatProperties
<1> HIDE DEF s5
<1>9. s6 \in Seq(Byte) /\ Len(s6) = 2 * IntSize + Len(M) + IntSize + Len(D) + IntSize
  <2>1. IntSize \in Nat /\ 2 * IntSize + Len(M) + IntSize + Len(D) \in Nat
    BY <1>1, <1>2
  <2> QED BY <1>4, <1>8, <2>1, BytesConcat
<1> HIDE DEF s6
<1>10. data \in Seq(Byte) /\ data # <<>>
  <2>1. data \in Seq(Byte) /\ Len(data) = Len(s6) + Len(B5)
    BY <1>4, <1>9, ConcatProperties
  <2>2. Len(data) # 0
    BY <1>1, <1>4, <1>9, <2>1
  <2> QED BY <2>1, <2>2
<1>11. Starts(s6 \o B5, data)
  BY <1>10, StartsItself
<1> HIDE DEF data
<1>12. Starts(s5 \o B4, data)
  BY <1>4, <1>9, <1>11, StartsLess DEF s6
<1>13. Starts(s4 \o D, data)
  BY <1>4, <1>8, <1>12, StartsLess DEF s5
<1>14. Starts(s3 \o B3, data)
  BY <1>2, <1>7, <1>13, StartsLess DEF s4
<1>15. Starts(s2 \o M, data)
  BY <1>4, <1>6, <1>14, StartsLess DEF s3
<1>16. Starts(B1 \o B2, data)
  BY <1>2, <1>5, <1>15, StartsLess DEF s2
<1>17. Starts(B1, data)
  BY <1>4, <1>16, StartsLess
<1>18. Value(data, 0, IntSize) = p.id
  BY <1>1, <1>17, ValueAtStart DEF B1
<1>19. Value(data, IntSize, IntSize) = Len(M)
  BY <1>1, <1>2, <1>4, <1>16, ValueThere DEF B2
<1>20. Characters(data, 2 * IntSize, Len(M)) = p.name
  BY <1>1, <1>5, <1>15, CharactersThere DEF M
<1>21. Value(data, 2 * IntSize + Len(M), IntSize) = Len(D)
  <2>1. Value(data, Len(s3), IntSize) = Len(D)
    BY <1>1, <1>2, <1>6, <1>14, ValueThere DEF B3
  <2> QED BY <1>6, <2>1
<1>22. Characters(data, 2 * IntSize + Len(M) + IntSize, Len(D)) = p.description
  BY <1>1, <1>7, <1>13, CharactersThere DEF D
<1>23. Value(data, 2 * IntSize + Len(M) + IntSize + Len(D), IntSize) = p.price
  BY <1>1, <1>8, <1>12, ValueThere DEF B4
<1>24. Value(data, 2 * IntSize + Len(M) + IntSize + Len(D) + IntSize, IntSize) = p.stock
  BY <1>1, <1>9, <1>11, ValueThere DEF B5
<1>25. productUnserialize(data) =
         [id |-> p.id, name |-> p.name, description |-> p.description,
          price |-> p.price, stock |-> p.stock]
  BY <1>18, <1>19, <1>20, <1>21, <1>22, <1>23, <1>24 DEF productUnserialize
<1>26. productUnserialize(data) = p
  BY <1>25 DEF Product
<1> QED BY <1>3, <1>10, <1>26

-----------------------------------------------------------------------------
(* Orders.                                                                 *)

Entry == [product_id : Int, quantity : Int, price : Int]

LEMMA EntryBytesType ==
  ASSUME NEW e \in Entry
  PROVE  EntryBytes(e) \in Seq(Byte) /\ Len(EntryBytes(e)) = 3 * IntSize
<1> DEFINE P == Bytes(e.product_id, IntSize)
           Q == Bytes(e.quantity, IntSize)
           R == Bytes(e.price, IntSize)
<1>1. IntSize \in Nat \ {0} /\ e.product_id \in Int /\ e.quantity \in Int /\ e.price \in Int
  BY OrderDataAssumption DEF Entry
<1>2. /\ P \in Seq(Byte) /\ Len(P) = IntSize /\ Q \in Seq(Byte) /\ Len(Q) = IntSize
      /\ R \in Seq(Byte) /\ Len(R) = IntSize
  BY <1>1, BytesType
<1>3. EntryBytes(e) = (P \o Q) \o R
  BY DEF EntryBytes
<1> HIDE DEF P, Q, R
<1>4. IntSize \in Nat /\ IntSize + IntSize \in Nat /\ IntSize + IntSize + IntSize = 3 * IntSize
  BY <1>1
<1>5. P \o Q \in Seq(Byte) /\ Len(P \o Q) = IntSize + IntSize
  BY <1>2, <1>4, BytesConcat
<1>6. (P \o Q) \o R \in Seq(Byte) /\ Len((P \o Q) \o R) = IntSize + IntSize + IntSize
  BY <1>2, <1>4, <1>5, BytesConcat
<1> QED BY <1>3, <1>4, <1>6

\* The three numbers of an entry, where orderUnserialize looks for them.
EntryThere(data, offset, e) ==
  /\ Value(data, offset, IntSize) = e.product_id
  /\ Value(data, offset + IntSize, IntSize) = e.quantity
  /\ Value(data, offset + 2 * IntSize, IntSize) = e.price

LEMMA EntryFound ==
  ASSUME NEW v \in Seq(Byte), NEW e \in Entry, NEW data, Starts(v \o EntryBytes(e), data)
  PROVE  EntryThere(data, Len(v), e)
<1> DEFINE P == Bytes(e.product_id, IntSize)
           Q == Bytes(e.quantity, IntSize)
           R == Bytes(e.price, IntSize)
           v1 == v \o P
           v2 == v1 \o Q
<1>1. IntSize \in Nat \ {0} /\ e.product_id \in Int /\ e.quantity \in Int /\ e.price \in Int
  BY OrderDataAssumption DEF Entry
<1>2. /\ P \in Seq(Byte) /\ Len(P) = IntSize /\ Q \in Seq(Byte) /\ Len(Q) = IntSize
      /\ R \in Seq(Byte) /\ Len(R) = IntSize
  BY <1>1, BytesType
<1>3. EntryBytes(e) = (P \o Q) \o R
  BY DEF EntryBytes
<1> HIDE DEF P, Q, R
<1>4. IntSize \in Nat /\ Len(v) \in Nat /\ Len(v) + IntSize \in Nat /\ Len(v) + IntSize + IntSize = Len(v) + 2 * IntSize
  BY <1>1
<1>5. v1 \in Seq(Byte) /\ Len(v1) = Len(v) + IntSize
  BY <1>2, <1>4, BytesConcat
<1>6. v2 \in Seq(Byte) /\ Len(v2) = Len(v) + 2 * IntSize
  <2> HIDE DEF v1
  <2>1. v2 \in Seq(Byte) /\ Len(v2) = Len(v) + IntSize + IntSize
    BY <1>2, <1>4, <1>5, BytesConcat
  <2> QED BY <1>4, <2>1
<1>7. v \o ((P \o Q) \o R) = v2 \o R
  <2>1. P \o Q \in Seq(Byte)
    BY <1>2, ConcatProperties
  <2>2. Associative(v, P \o Q, R) /\ Associative(v, P, Q)
    BY <1>2, <2>1, BytesAssociative
  <2> QED BY <2>2 DEF Associative
<1>8. Starts(v2 \o R, data)
  BY <1>3, <1>7
<1> HIDE DEF v1, v2
<1>9. Starts(v1 \o Q, data)
  BY <1>2, <1>6, <1>8, StartsLess DEF v2
<1>10. Starts(v \o P, data)
  BY <1>2, <1>5, <1>9, StartsLess DEF v1
<1>11. Value(data, Len(v), IntSize) = e.product_id
  BY <1>1, <1>10, ValueThere DEF P
<1>12. Value(data, Len(v) + IntSize, IntSize) = e.quantity
  <2>1. Value(data, Len(v1), IntSize) = e.quantity
    BY <1>1, <1>5, <1>9, ValueThere DEF Q
  <2> QED BY <1>5, <2>1
<1>13. Value(data, Len(v) + 2 * IntSize, IntSize) = e.price
  <2>1. Value(data, Len(v2), IntSize) = e.price
    BY <1>1, <1>6, <1>8, ValueThere DEF R
  <2> QED BY <1>6, <2>1
<1> QED BY <1>11, <1>12, <1>13 DEF EntryThere

\* Addresses are NULL until there is one.
OrderType(o) ==
  /\ o = [address |-> o.address, items |-> o.items]
  /\ o.address # NULL => o.address \in Seq(Character)
  /\ o.items \in Seq(Entry)

\* What orderUnserialize (order.c) makes of the bytes of an order is the order.
THEOREM OrderSurvives ==
  ASSUME NEW o, OrderType(o)
  PROVE  /\ orderSerialize(o) \in Seq(Byte) /\ orderSerialize(o) # <<>>
         /\ orderUnserialize(orderSerialize(o)) = o
<1> DEFINE T == IF o.address = NULL THEN <<>> ELSE Text(o.address)
           n == Len(o.items)
           A == Bytes(Len(T), SizeT)
           C == Bytes(n, IntSize)
           seqs == [i \in 1 .. n |-> EntryBytes(o.items[i])]
           F == FlattenSeq(seqs)
           s2 == A \o T
           s3 == s2 \o C
           data == s3 \o F
<1>1. IntSize \in Nat \ {0} /\ SizeT \in Nat \ {0} /\ n \in Nat /\ n \in Int
  BY OrderDataAssumption DEF OrderType
<1>2. T \in Seq(Byte) /\ Len(T) \in Int /\ Len(T) \in Nat /\ (Len(T) = 0 <=> o.address = NULL)
  <2>1. CASE o.address = NULL
    <3>1. T = <<>> /\ Len(<<>>) = 0
      BY <2>1
    <3>2. <<>> \in Seq(Byte)
      OBVIOUS
    <3> QED BY <2>1, <3>1, <3>2
  <2>2. CASE o.address # NULL
    <3>1. T = Text(o.address) /\ o.address \in Seq(Character)
      BY <2>2 DEF OrderType
    <3>2. Text(o.address) \in Seq(Byte) /\ Len(Text(o.address)) = Len(o.address) + 1 /\ Len(o.address) \in Nat
      BY <3>1, TextIs
    <3> HIDE DEF T
    <3> QED BY <2>2, <3>1, <3>2
  <2> QED BY <2>1, <2>2
<1>3. orderSerialize(o) = data
  BY DEF orderSerialize
<1> HIDE DEF T
<1>4. A \in Seq(Byte) /\ Len(A) = SizeT /\ C \in Seq(Byte) /\ Len(C) = IntSize
  BY <1>1, <1>2, BytesType
<1>5. F \in Seq(Byte) /\ \A i \in 1 .. n : InPlace(F, seqs, i, 3 * IntSize)
  <2>1. ASSUME NEW i \in 1 .. n
        PROVE  seqs[i] \in Seq(Byte) /\ Len(seqs[i]) = 3 * IntSize
    <3>1. o.items[i] \in Entry
      BY DEF OrderType
    <3> QED BY <3>1, EntryBytesType
  <2>2. Len(seqs) = n /\ (seqs = <<>> \/ Len(seqs) # 0)
    BY <1>1
  <2> HIDE DEF seqs
  <2>3. Equal(seqs, Len(seqs), 3 * IntSize) /\ 3 * IntSize \in Nat
    BY <1>1, <2>1, <2>2 DEF Equal
  <2> HIDE DEF n
  <2>4. Len(seqs) \in Nat
    BY <1>1, <2>2
  <2> QED BY <2>2, <2>3, <2>4, FlattenEqual
<1> HIDE DEF A, C, F
<1>6. s2 \in Seq(Byte) /\ Len(s2) = SizeT + Len(T)
  BY <1>1, <1>2, <1>4, BytesConcat
<1> HIDE DEF s2
<1>7. s3 \in Seq(Byte) /\ Len(s3) = SizeT + Len(T) + IntSize
  <2>1. SizeT + Len(T) \in Nat /\ IntSize \in Nat
    BY <1>1, <1>2
  <2> QED BY <1>4, <1>6, <2>1, BytesConcat
<1> HIDE DEF s3
<1>8. data \in Seq(Byte) /\ data # <<>>
  <2>1. data \in Seq(Byte) /\ Len(data) = Len(s3) + Len(F)
    BY <1>5, <1>7, ConcatProperties
  <2>2. Len(F) \in Nat /\ Len(s3) > 0 /\ Len(s3) \in Nat
    BY <1>1, <1>2, <1>5, <1>7
  <2>3. Len(data) # 0
    BY <2>1, <2>2
  <2> QED BY <2>1, <2>3
<1>9. Starts(s3, data)
  BY <1>5, <1>7 DEF Starts
<1>10. data = s3 \o F
  OBVIOUS
<1> HIDE DEF data
<1>11. Starts(A \o T, data)
  BY <1>4, <1>6, <1>9, StartsLess DEF s3, s2
<1>12. Starts(A, data)
  BY <1>2, <1>4, <1>11, StartsLess
<1>13. Value(data, 0, SizeT) = Len(T)
  BY <1>1, <1>2, <1>12, ValueAtStart DEF A
<1>14. Value(data, SizeT + Len(T), IntSize) = n
  <2>1. Starts(s2 \o C, data)
    BY <1>9 DEF s3
  <2>2. Value(data, Len(s2), IntSize) = n
    BY <1>1, <1>6, <2>1, ValueThere DEF C
  <2> QED BY <1>6, <2>2
<1>15. (IF Len(T) = 0 THEN NULL ELSE Characters(data, SizeT, Len(T))) = o.address
  <2>1. CASE o.address = NULL
    BY <1>2, <2>1
  <2>2. CASE o.address # NULL
    <3>1. T = Text(o.address) /\ o.address \in Seq(Character)
      BY <2>2 DEF OrderType, T
    <3>2. Characters(data, Len(A), Len(Text(o.address))) = o.address
      BY <1>4, <1>11, <3>1, CharactersThere
    <3> QED BY <1>2, <1>4, <2>2, <3>1, <3>2
  <2> QED BY <2>1, <2>2
<1>16. ASSUME NEW i \in 1 .. n
       PROVE  EntryThere(data, SizeT + Len(T) + IntSize + (i - 1) * 3 * IntSize, o.items[i])
  <2>1. PICK before \in Seq(Byte) : Len(before) = (i - 1) * (3 * IntSize) /\ Starts(before \o seqs[i], F)
    BY <1>5 DEF InPlace
  <2>2. seqs[i] = EntryBytes(o.items[i]) /\ o.items[i] \in Entry
    BY DEF OrderType
  <2> DEFINE e == o.items[i]
             b == EntryBytes(e)
             v == s3 \o before
  <2>3. e \in Entry /\ Starts(before \o b, F)
    BY <2>1, <2>2
  <2>4. b \in Seq(Byte)
    BY <2>3, EntryBytesType
  <2> HIDE DEF e
  <2> HIDE DEF b
  <2>5. before \o b \in Seq(Byte)
    BY <2>4, ConcatProperties
  <2>6. Starts(s3 \o (before \o b), data)
    BY <1>5, <1>7, <1>10, <2>3, <2>5, StartsMore
  <2>7. Starts(v \o b, data)
    <3>1. Associative(s3, before, b)
      BY <1>7, <2>4, BytesAssociative
    <3> QED BY <2>6, <3>1 DEF Associative
  <2>8. v \in Seq(Byte) /\ Len(v) = Len(s3) + Len(before)
    BY <1>7, ConcatProperties
  <2> HIDE DEF v
  <2>9. EntryThere(data, Len(v), e)
    BY <2>3, <2>7, <2>8, EntryFound DEF b
  <2>10. Len(v) = SizeT + Len(T) + IntSize + (i - 1) * 3 * IntSize
    <3>1. (i - 1) * (3 * IntSize) = (i - 1) * 3 * IntSize
      BY <1>1
    <3> QED BY <1>7, <2>1, <2>8, <3>1
  <2> QED BY <2>9, <2>10 DEF e
<1> HIDE DEF n, seqs
<1> DEFINE offset(i) == SizeT + Len(T) + IntSize + (i - 1) * 3 * IntSize
           read == [i \in 1 .. n |->
                      [product_id |-> Value(data, offset(i), IntSize),
                       quantity   |-> Value(data, offset(i) + IntSize, IntSize),
                       price      |-> Value(data, offset(i) + 2 * IntSize, IntSize)]]
<1>17. orderUnserialize(data) =
         [address |-> IF Len(T) = 0 THEN NULL ELSE Characters(data, SizeT, Len(T)),
          items   |-> read]
  BY <1>13, <1>14 DEF orderUnserialize
<1>18. ASSUME NEW i \in 1 .. n
       PROVE  read[i] = o.items[i]
  <2>1. EntryThere(data, offset(i), o.items[i])
    BY <1>16
  <2>2. o.items[i] \in Entry
    BY DEF n, OrderType
  <2> HIDE DEF offset
  <2>3. read[i] = [product_id |-> o.items[i].product_id, quantity |-> o.items[i].quantity,
                   price |-> o.items[i].price]
    BY <2>1 DEF EntryThere
  <2> QED BY <2>2, <2>3 DEF Entry
<1>19. o.items = [i \in 1 .. n |-> o.items[i]]
  BY DEF n, OrderType
<1>20. read = [i \in 1 .. n |-> o.items[i]]
  <2>1. read = [i \in 1 .. n |-> read[i]]
    OBVIOUS
  <2> HIDE DEF read
  <2> QED BY <1>18, <2>1
<1> HIDE DEF read
<1>21. orderUnserialize(data) = [address |-> o.address, items |-> o.items]
  BY <1>15, <1>17, <1>19, <1>20
<1>22. orderUnserialize(data) = o
  BY <1>21 DEF OrderType
<1> QED BY <1>3, <1>8, <1>22

-----------------------------------------------------------------------------
(* Recursive functions.                                                    *)

\* A recursion goes from d to pred[d], of a lower rank, until it is in basis.
Recursive(D, V, rank, basis, base, pred, op) ==
  /\ rank \in [D -> Nat] /\ pred \in [D -> D] /\ base \in V /\ op \in [D -> [V -> V]]
  /\ \A d \in D \ basis : rank[pred[d]] < rank[d]
Round(f, d, basis, base, pred, op) == IF d \in basis THEN base ELSE op[d][f[pred[d]]]
Below(D, rank, n) == {d \in D : rank[d] < n}
Partial(f, n, D, V, rank, basis, base, pred, op) ==
  /\ f \in [Below(D, rank, n) -> V]
  /\ \A d \in Below(D, rank, n) : f[d] = Round(f, d, basis, base, pred, op)

\* Two functions agree if wherever they do not there is such a place of a lower rank.
Descending(D, rank, f, g) ==
  /\ \A d \in D : rank[d] \in Nat
  /\ \A d \in D : f[d] # g[d] => \E e \in D : rank[e] < rank[d] /\ f[e] # g[e]

LEMMA Descent ==
  ASSUME NEW D, NEW rank, NEW f, NEW g, Descending(D, rank, f, g)
  PROVE  \A d \in D : f[d] = g[d]
<1> DEFINE Bad == {k \in Nat : \E d \in D : rank[d] = k /\ f[d] # g[d]}
<1>1. SUFFICES ASSUME NEW d \in D, f[d] # g[d] PROVE FALSE
  OBVIOUS
<1>2. rank[d] \in Bad
  BY <1>1 DEF Descending
<1>3. PICK k \in Bad : \A j \in Bad : k <= j
  <2>1. Bad \subseteq Nat
    OBVIOUS
  <2> HIDE DEF Bad
  <2> QED BY <1>2, <2>1, LeastNumber
<1>4. PICK c \in D : rank[c] = k /\ f[c] # g[c]
  BY <1>3
<1>5. PICK e \in D : rank[e] < k /\ f[e] # g[e]
  BY <1>4 DEF Descending
<1>6. rank[e] \in Bad /\ k \in Nat /\ rank[e] \in Nat
  BY <1>5, <1>3 DEF Descending
<1> HIDE DEF Bad
<1> QED BY <1>3, <1>5, <1>6

LEMMA PartialsAgree ==
  ASSUME NEW D, NEW V, NEW rank, NEW basis, NEW base, NEW pred, NEW op,
         Recursive(D, V, rank, basis, base, pred, op),
         NEW f, NEW g, NEW n \in Nat, NEW m \in Nat,
         Partial(f, n, D, V, rank, basis, base, pred, op),
         Partial(g, m, D, V, rank, basis, base, pred, op),
         NEW d \in Below(D, rank, n) \cap Below(D, rank, m)
  PROVE  f[d] = g[d]
<1> DEFINE Both == Below(D, rank, n) \cap Below(D, rank, m)
<1>1. \A e \in Both : rank[e] \in Nat
  BY DEF Below, Recursive
<1>2. ASSUME NEW e \in Both, f[e] # g[e]
      PROVE  \E c \in Both : rank[c] < rank[e] /\ f[c] # g[c]
  <2>1. /\ f[e] = Round(f, e, basis, base, pred, op)
        /\ g[e] = Round(g, e, basis, base, pred, op)
    BY DEF Partial
  <2>2. e \in D \ basis /\ f[pred[e]] # g[pred[e]]
    BY <1>2, <2>1 DEF Round, Below
  <2>3. pred[e] \in Both /\ rank[pred[e]] < rank[e]
    BY <2>2 DEF Below, Recursive
  <2> QED BY <2>2, <2>3
<1>3. d \in Both
  OBVIOUS
<1> HIDE DEF Both
<1>4. Descending(Both, rank, f, g)
  BY <1>1, <1>2 DEF Descending
<1>5. \A e \in Both : f[e] = g[e]
  BY <1>4, Descent
<1> QED BY <1>3, <1>5

LEMMA PartialExists ==
  ASSUME NEW D, NEW V, NEW rank, NEW basis, NEW base, NEW pred, NEW op,
         Recursive(D, V, rank, basis, base, pred, op),
         NEW n \in Nat
  PROVE  \E f : Partial(f, n, D, V, rank, basis, base, pred, op)
<1> DEFINE P(f, k) == Partial(f, k, D, V, rank, basis, base, pred, op)
           Bad == {k \in Nat : ~\E f : P(f, k)}
<1>1. SUFFICES ASSUME n \in Bad PROVE FALSE
  OBVIOUS
<1>2. PICK k \in Bad : \A j \in Bad : k <= j
  <2>1. Bad \subseteq Nat
    OBVIOUS
  <2> HIDE DEF Bad
  <2> QED BY <1>1, <2>1, LeastNumber
<1>3. k \in Nat /\ ~\E f : P(f, k)
  BY <1>2
<1>4. CASE k = 0
  <2>1. Below(D, rank, 0) = {}
    BY DEF Below, Recursive
  <2>2. P([d \in Below(D, rank, 0) |-> base], 0)
    BY <2>1 DEF Partial
  <2> QED BY <1>3, <1>4, <2>2
<1>5. CASE k # 0
  <2>1. k - 1 \in Nat /\ ~(k <= k - 1)
    BY <1>3, <1>5
  <2>2. PICK f : P(f, k - 1)
    BY <1>2, <2>1
  <2> DEFINE g == [d \in Below(D, rank, k) |-> Round(f, d, basis, base, pred, op)]
  <2>3. ASSUME NEW d \in Below(D, rank, k), d \notin basis
        PROVE  /\ pred[d] \in Below(D, rank, k - 1) /\ pred[d] \in Below(D, rank, k)
               /\ f[pred[d]] \in V /\ op[d][f[pred[d]]] \in V
    <3>1. /\ d \in D /\ rank[d] \in Nat /\ rank[d] < k /\ pred[d] \in D /\ rank[pred[d]] \in Nat
          /\ rank[pred[d]] < rank[d]
      BY <2>3 DEF Below, Recursive
    <3>2. pred[d] \in Below(D, rank, k - 1) /\ pred[d] \in Below(D, rank, k)
      BY <1>3, <3>1 DEF Below
    <3>3. f[pred[d]] \in V
      BY <2>2, <3>2 DEF Partial
    <3>4. op[d] \in [V -> V]
      BY <3>1 DEF Recursive
    <3> QED BY <3>2, <3>3, <3>4
  <2>4. ASSUME NEW d \in Below(D, rank, k)
        PROVE  Round(f, d, basis, base, pred, op) \in V
    BY <2>3 DEF Round, Recursive
  <2>5. g \in [Below(D, rank, k) -> V]
    BY <2>4
  <2>6. ASSUME NEW d \in Below(D, rank, k)
        PROVE  g[d] = Round(g, d, basis, base, pred, op)
    <3>1. CASE d \in basis
      BY <3>1 DEF Round
    <3>2. CASE d \notin basis
      <4>1. pred[d] \in Below(D, rank, k - 1) /\ pred[d] \in Below(D, rank, k)
        BY <3>2, <2>3
      <4>2. f[pred[d]] = Round(f, pred[d], basis, base, pred, op)
        BY <2>2, <4>1 DEF Partial
      <4>3. g[pred[d]] = f[pred[d]]
        BY <4>1, <4>2
      <4>4. g[d] = Round(f, d, basis, base, pred, op)
        OBVIOUS
      <4> HIDE DEF g
      <4> QED BY <4>3, <4>4 DEF Round
    <3> QED BY <3>1, <3>2
  <2> HIDE DEF g
  <2>7. P(g, k)
    BY <2>5, <2>6 DEF Partial
  <2> QED BY <1>3, <2>7
<1> QED BY <1>4, <1>5

\* There is a function that satisfies the recursion everywhere.
LEMMA Recursion ==
  ASSUME NEW D, NEW V, NEW rank, NEW basis, NEW base, NEW pred, NEW op,
         Recursive(D, V, rank, basis, base, pred, op)
  PROVE  \E f \in [D -> V] : \A d \in D : f[d] = Round(f, d, basis, base, pred, op)
<1> DEFINE P(f, k) == Partial(f, k, D, V, rank, basis, base, pred, op)
           F(k) == CHOOSE f : P(f, k)
           h == [d \in D |-> F(rank[d] + 1)[d]]
<1>1. ASSUME NEW k \in Nat
      PROVE  P(F(k), k)
  BY PartialExists
<1>2. ASSUME NEW d \in D
      PROVE  /\ rank[d] \in Nat /\ rank[d] + 1 \in Nat
             /\ d \in Below(D, rank, rank[d] + 1) /\ pred[d] \in D
             /\ P(F(rank[d] + 1), rank[d] + 1)
  BY <1>1 DEF Below, Recursive
<1> HIDE DEF F
<1>3. ASSUME NEW d \in D
      PROVE  h[d] \in V /\ h[d] = Round(F(rank[d] + 1), d, basis, base, pred, op)
  BY <1>2 DEF Partial
<1>4. ASSUME NEW d \in D \ basis
      PROVE  F(rank[d] + 1)[pred[d]] = h[pred[d]]
  <2>1. rank[pred[d]] < rank[d]
    BY DEF Recursive
  <2>2. rank[d] \in Nat /\ rank[pred[d]] \in Nat /\ pred[d] \in D
    BY <1>2
  <2>3. /\ pred[d] \in Below(D, rank, rank[d] + 1)
        /\ pred[d] \in Below(D, rank, rank[pred[d]] + 1)
    BY <2>1, <2>2 DEF Below
  <2>4. /\ P(F(rank[d] + 1), rank[d] + 1) 
        /\ P(F(rank[pred[d]] + 1), rank[pred[d]] + 1)
    BY <1>2, <2>2
  <2>5. h[pred[d]] = F(rank[pred[d]] + 1)[pred[d]]
    BY <2>2
  <2>6. rank[d] + 1 \in Nat /\ rank[pred[d]] + 1 \in Nat
    BY <2>2
  <2> HIDE DEF h
  <2>7. F(rank[d] + 1)[pred[d]] = F(rank[pred[d]] + 1)[pred[d]]
    BY <2>3, <2>4, <2>6, PartialsAgree
  <2> QED BY <2>5, <2>7
<1>5. h \in [D -> V]
  BY <1>3
<1> HIDE DEF h
<1>6. ASSUME NEW d \in D
      PROVE  h[d] = Round(h, d, basis, base, pred, op)
  BY <1>3, <1>4 DEF Round
<1> QED BY <1>5, <1>6

-----------------------------------------------------------------------------
(* Numbers of digits, and powers of ten.                                   *)

LEMMA DigitsRec ==
  /\ DigitsFrom \in [Nat -> Nat]
  /\ \A n \in Nat : DigitsFrom[n] = IF n = 0 THEN 0 ELSE 1 + DigitsFrom[n \div 10]
<1> DEFINE rank == [n \in Nat |-> n]
           pred == [n \in Nat |-> n \div 10]
           op == [n \in Nat |-> [v \in Nat |-> 1 + v]]
           Is(f) == f = [n \in Nat |-> IF n = 0 THEN 0 ELSE 1 + f[n \div 10]]
<1>1. ASSUME NEW n \in Nat
      PROVE  n \div 10 \in Nat /\ (n # 0 => n \div 10 < n)
  OBVIOUS
<1>2. PICK g \in [Nat -> Nat] : \A n \in Nat : g[n] = Round(g, n, {0}, 0, pred, op)
  <2>1. Recursive(Nat, Nat, rank, {0}, 0, pred, op)
    BY <1>1 DEF Recursive
  <2> HIDE DEF rank, pred, op
  <2> QED BY <2>1, Recursion
<1>3. \A n \in Nat : g[n] = IF n = 0 THEN 0 ELSE 1 + g[n \div 10]
  BY <1>1, <1>2 DEF Round
<1>4. Is(g)
  BY <1>3
<1>5. Is(DigitsFrom)
  <2>1. DigitsFrom = CHOOSE f : Is(f)
    BY DEF DigitsFrom
  <2> HIDE DEF Is
  <2> QED BY <1>4, <2>1
<1>6. \A n \in Nat : DigitsFrom[n] = IF n = 0 THEN 0 ELSE 1 + DigitsFrom[n \div 10]
  BY <1>5
<1>7. \A n \in Nat : DigitsFrom[n] = g[n]
  <2>1. ASSUME NEW n \in Nat, DigitsFrom[n] # g[n]
        PROVE  \E m \in Nat : rank[m] < rank[n] /\ DigitsFrom[m] # g[m]
    <3>1. n # 0 /\ DigitsFrom[n \div 10] # g[n \div 10]
      BY <2>1, <1>3, <1>6
    <3>2. n \div 10 \in Nat /\ rank[n \div 10] < rank[n]
      BY <1>1, <3>1
    <3> QED BY <3>1, <3>2
  <2>2. \A n \in Nat : rank[n] \in Nat
    OBVIOUS
  <2> HIDE DEF rank
  <2>3. Descending(Nat, rank, DigitsFrom, g)
    BY <2>1, <2>2 DEF Descending
  <2> QED BY <2>3, Descent
<1>8. DigitsFrom \in [Nat -> Nat]
  BY <1>2, <1>5, <1>7
<1> QED BY <1>6, <1>8

LEMMA PowerRec ==
  /\ Power \in [Nat -> Nat]
  /\ \A n \in Nat : Power[n] = IF n = 0 THEN 1 ELSE 10 * Power[n - 1]
<1> DEFINE rank == [n \in Nat |-> n]
           pred == [n \in Nat |-> IF n = 0 THEN 0 ELSE n - 1]
           op == [n \in Nat |-> [v \in Nat |-> 10 * v]]
           Is(f) == f = [n \in Nat |-> IF n = 0 THEN 1 ELSE 10 * f[n - 1]]
<1>1. PICK g \in [Nat -> Nat] : \A n \in Nat : g[n] = Round(g, n, {0}, 1, pred, op)
  <2>1. Recursive(Nat, Nat, rank, {0}, 1, pred, op)
    BY DEF Recursive
  <2> HIDE DEF rank, pred, op
  <2> QED BY <2>1, Recursion
<1>2. \A n \in Nat : g[n] = IF n = 0 THEN 1 ELSE 10 * g[n - 1]
  <2>1. ASSUME NEW n \in Nat, n # 0 PROVE g[n] = 10 * g[n - 1]
    <3>1. g[n] = op[n][g[pred[n]]]
      BY <1>1, <2>1 DEF Round
    <3>2. pred[n] = n - 1 /\ n - 1 \in Nat /\ g[n - 1] \in Nat
      BY <2>1
    <3> QED BY <3>1, <3>2
  <2>2. g[0] = 1
    BY <1>1 DEF Round
  <2> QED BY <2>1, <2>2
<1>3. Is(g)
  BY <1>2
<1>4. Is(Power)
  <2>1. Power = CHOOSE f : Is(f)
    BY DEF Power
  <2> HIDE DEF Is
  <2> QED BY <1>3, <2>1
<1>5. \A n \in Nat : Power[n] = IF n = 0 THEN 1 ELSE 10 * Power[n - 1]
  BY <1>4
<1>6. \A n \in Nat : Power[n] = g[n]
  <2>1. ASSUME NEW n \in Nat, Power[n] # g[n]
        PROVE  \E m \in Nat : rank[m] < rank[n] /\ Power[m] # g[m]
    <3>1. n # 0 /\ Power[n - 1] # g[n - 1]
      BY <2>1, <1>2, <1>5
    <3>2. n - 1 \in Nat /\ rank[n - 1] < rank[n]
      BY <3>1
    <3> QED BY <3>1, <3>2
  <2>2. \A n \in Nat : rank[n] \in Nat
    OBVIOUS
  <2> HIDE DEF rank
  <2>3. Descending(Nat, rank, Power, g)
    BY <2>1, <2>2 DEF Descending
  <2> QED BY <2>3, Descent
<1>7. Power \in [Nat -> Nat]
  BY <1>1, <1>4, <1>6
<1> QED BY <1>5, <1>7

LEMMA UlpRec ==
  /\ Ulp \in [Nat -> Nat \ {0}]
  /\ \A n \in Nat : Ulp[n] = IF n < MantissaLimit THEN 1 ELSE 2 * Ulp[n \div 2]
<1> DEFINE V == Nat \ {0}
           low == {n \in Nat : n < MantissaLimit}
           rank == [n \in Nat |-> n]
           pred == [n \in Nat |-> n \div 2]
           op == [n \in Nat |-> [v \in V |-> 2 * v]]
           Is(f) == f = [n \in Nat |-> IF n < MantissaLimit THEN 1 ELSE 2 * f[n \div 2]]
<1>1. MantissaLimit \in Nat \ {0}
  BY OrderDataAssumption
<1>2. ASSUME NEW n \in Nat
      PROVE  n \div 2 \in Nat /\ (n \notin low => n \div 2 < n /\ n # 0)
  BY <1>1
<1>3. PICK g \in [Nat -> V] : \A n \in Nat : g[n] = Round(g, n, low, 1, pred, op)
  <2>1. rank \in [Nat -> Nat] /\ pred \in [Nat -> Nat] /\ 1 \in V /\ op \in [Nat -> [V -> V]]
    BY <1>2
  <2>2. \A n \in Nat \ low : rank[pred[n]] < rank[n]
    BY <1>2
  <2> HIDE DEF rank, pred, op, V, low
  <2>3. Recursive(Nat, V, rank, low, 1, pred, op)
    BY <2>1, <2>2 DEF Recursive
  <2> QED BY <2>3, Recursion
<1>4. \A n \in Nat : g[n] = IF n < MantissaLimit THEN 1 ELSE 2 * g[n \div 2]
  BY <1>2, <1>3 DEF Round
<1>5. Is(g)
  BY <1>4
<1>6. Is(Ulp)
  <2>1. Ulp = CHOOSE f : Is(f)
    BY DEF Ulp
  <2> HIDE DEF Is
  <2> QED BY <1>5, <2>1
<1>7. \A n \in Nat : Ulp[n] = IF n < MantissaLimit THEN 1 ELSE 2 * Ulp[n \div 2]
  BY <1>6
<1>8. \A n \in Nat : Ulp[n] = g[n]
  <2>1. ASSUME NEW n \in Nat, Ulp[n] # g[n]
        PROVE  \E m \in Nat : rank[m] < rank[n] /\ Ulp[m] # g[m]
    <3>1. n \notin low /\ Ulp[n \div 2] # g[n \div 2]
      BY <2>1, <1>4, <1>7
    <3>2. n \div 2 \in Nat /\ rank[n \div 2] < rank[n]
      BY <1>2, <3>1
    <3> QED BY <3>1, <3>2
  <2>2. \A n \in Nat : rank[n] \in Nat
    OBVIOUS
  <2> HIDE DEF rank
  <2>3. Descending(Nat, rank, Ulp, g)
    BY <2>1, <2>2 DEF Descending
  <2> QED BY <2>3, Descent
<1>9. Ulp \in [Nat -> V]
  BY <1>3, <1>6, <1>8
<1> QED BY <1>7, <1>9

-----------------------------------------------------------------------------
(* Rounding.                                                               *)

LEMMA Dividing ==
  ASSUME NEW n \in Nat, NEW d \in Nat \ {0}
  PROVE  /\ n \div d \in Nat /\ n % d \in Nat
         /\ n = d * (n \div d) + (n % d) /\ n % d < d
  OBVIOUS

LEMMA NearestType ==
  ASSUME NEW n \in Nat, NEW d \in Nat \ {0}
  PROVE  Nearest(n, d) \in Nat
  BY Dividing DEF Nearest

\* A nearest number is at least an even one exactly if n / d is no more than a half below.
LEMMA NearestAtLeast ==
  ASSUME NEW n \in Nat, NEW d \in Nat \ {0}, NEW k \in Nat
  PROVE  Nearest(n, d) >= 2 * k <=> 2 * n + d >= 2 * ((2 * k) * d)
<1>1. PICK q \in Nat, r \in Nat : q = n \div d /\ r = n % d /\ n = d * q + r /\ r < d
  BY Dividing
<1>2. Nearest(n, d) = IF 2 * r > d \/ (2 * r = d /\ q % 2 = 1) THEN q + 1 ELSE q
  BY <1>1 DEF Nearest
<1>3. PICK m \in Nat : m = 2 * k
  OBVIOUS
<1>4. PICK a \in Nat : a = d * q
  OBVIOUS
<1>5. PICK b \in Nat : b = (2 * k) * d /\ b = d * m
  BY <1>3
<1>6. CASE q >= m
  <2>1. PICK e \in Nat : q = m + e
    <3>1. q - m \in Nat /\ q = m + (q - m)
      BY <1>6
    <3> QED BY <3>1
  <2>2. a = b + d * e /\ d * e \in Nat
    BY <2>1, <1>4, <1>5
  <2>3. a >= b
    BY <2>2
  <2> QED BY <1>1, <1>2, <1>3, <1>4, <1>5, <1>6, <2>3
<1>7. CASE q = m - 1
  <2>1. b = a + d
    <3>1. m = q + 1
      BY <1>7
    <3>2. d * (q + 1) = d * q + d
      OBVIOUS
    <3> QED BY <3>1, <3>2, <1>4, <1>5
  <2>2. q % 2 = 1
    BY <1>3, <1>7
  <2> QED BY <1>1, <1>2, <1>3, <1>4, <1>5, <1>7, <2>1, <2>2
<1>8. CASE q < m - 1
  <2>1. PICK e \in Nat : m = (q + e) + 2
    <3>1. (m - q) - 2 \in Nat /\ m = (q + ((m - q) - 2)) + 2
      BY <1>8
    <3> QED BY <3>1
  <2>2. b = a + d * e + 2 * d /\ d * e \in Nat
    BY <2>1, <1>4, <1>5
  <2>3. b >= a + 2 * d
    BY <2>2
  <2> QED BY <1>1, <1>2, <1>3, <1>4, <1>5, <1>8, <2>3
<1> QED BY <1>3, <1>6, <1>7, <1>8

LEMMA FloatType ==
  ASSUME NEW n \in Int
  PROVE  ToFloat(n) \in Int
<1>1. PICK a \in Nat : a = Abs(n)
  BY DEF Abs
<1>2. PICK u \in Nat \ {0} : u = Ulp[a]
  BY UlpRec
<1>3. PICK q \in Nat : q = Nearest(a, u)
  BY NearestType
<1>4. u * q \in Nat
  OBVIOUS
<1> QED BY <1>1, <1>2, <1>3, <1>4 DEF ToFloat

\* Between which powers of ten a number is.
Between(n, k) == k \in Nat \ {0} /\ n < Power[k] /\ (n > 0 => Power[k - 1] <= n)

LEMMA DigitsBetween ==
  ASSUME NEW n \in Nat
  PROVE  Between(n, Digits(n))
<1> DEFINE Bad == {k \in Nat : ~Between(k, Digits(k))}
<1>1. SUFFICES ASSUME n \in Bad PROVE FALSE
  OBVIOUS
<1>2. PICK k \in Bad : \A j \in Bad : k <= j
  <2>1. Bad \subseteq Nat
    OBVIOUS
  <2> HIDE DEF Bad
  <2> QED BY <1>1, <2>1, LeastNumber
<1>3. k \in Nat /\ ~Between(k, Digits(k))
  BY <1>2
<1>4. Power[0] = 1 /\ Power[1] = 10
  <2>1. 0 \in Nat /\ 1 \in Nat /\ 1 # 0 /\ 1 - 1 = 0
    OBVIOUS
  <2> QED BY <2>1, PowerRec
<1>5. CASE k < 10
  <2>1. Digits(k) = 1
    <3>1. CASE k = 0
      BY <3>1 DEF Digits
    <3>2. CASE k # 0
      <4>1. k \div 10 = 0 /\ 0 \in Nat
        BY <1>3, <1>5
      <4>2. DigitsFrom[k] = 1 + DigitsFrom[0] /\ DigitsFrom[0] = 0
        BY <1>3, <3>2, <4>1, DigitsRec
      <4> QED BY <3>2, <4>2 DEF Digits
    <3> QED BY <3>1, <3>2
  <2> QED BY <1>3, <1>4, <1>5, <2>1 DEF Between
<1>6. CASE k >= 10
  <2>1. PICK m \in Nat : m = k \div 10
    BY <1>3
  <2>2. m > 0 /\ m < k /\ 10 * m <= k /\ k < 10 * m + 10 /\ k # 0
    BY <1>3, <1>6, <2>1
  <2>3. Between(m, Digits(m))
    <3>1. m \notin Bad
      <4>1. ~(k <= m)
        BY <1>3, <2>2
      <4> HIDE DEF Bad
      <4> QED BY <1>2, <4>1
    <3> QED BY <3>1
  <2>4. PICK d \in Nat \ {0} : d = Digits(m)
    BY <2>3 DEF Between
  <2>5. Digits(k) = d + 1
    <3>1. DigitsFrom[k] = 1 + DigitsFrom[m]
      BY <1>3, <2>1, <2>2, DigitsRec
    <3>2. Digits(k) = DigitsFrom[k] /\ d = DigitsFrom[m]
      BY <2>2, <2>4 DEF Digits
    <3> QED BY <3>1, <3>2
  <2>6. Power[d + 1] = 10 * Power[d] /\ Power[d] = 10 * Power[d - 1]
    <3>1. d + 1 \in Nat /\ d + 1 # 0 /\ (d + 1) - 1 = d /\ d \in Nat /\ d # 0
      OBVIOUS
    <3> QED BY <3>1, PowerRec
  <2>7. Power[d] \in Nat /\ Power[d - 1] \in Nat /\ (d + 1) - 1 = d
    BY PowerRec
  <2>8. m < Power[d] /\ Power[d - 1] <= m
    BY <2>2, <2>3, <2>4 DEF Between
  <2>9. k < Power[d + 1] /\ Power[d] <= k
    BY <1>3, <2>2, <2>6, <2>7, <2>8
  <2> QED BY <1>3, <2>5, <2>7, <2>9 DEF Between
<1> QED BY <1>3, <1>5, <1>6

LEMMA PowersGrow ==
  ASSUME NEW k \in Nat, NEW j \in Nat, k <= j
  PROVE  Power[k] \in Nat /\ Power[j] \in Nat /\ Power[k] <= Power[j]
<1> DEFINE Bad == {i \in Nat : k <= i /\ ~(Power[k] <= Power[i])}
<1>1. \A i \in Nat : Power[i] \in Nat
  BY PowerRec
<1>2. SUFFICES ASSUME j \in Bad PROVE FALSE
  BY <1>1
<1>3. PICK i \in Bad : \A l \in Bad : i <= l
  <2>1. Bad \subseteq Nat
    OBVIOUS
  <2> HIDE DEF Bad
  <2> QED BY <1>2, <2>1, LeastNumber
<1>4. i \in Nat /\ k <= i /\ ~(Power[k] <= Power[i])
  BY <1>3
<1>5. i # k
  BY <1>1, <1>4
<1>6. i - 1 \in Nat /\ k <= i - 1 /\ ~(i <= i - 1) /\ i # 0
  BY <1>4, <1>5
<1>7. Power[k] <= Power[i - 1]
  <2>1. i - 1 \notin Bad
    <3> HIDE DEF Bad
    <3> QED BY <1>3, <1>6
  <2> QED BY <1>6, <2>1
<1>8. Power[i] = 10 * Power[i - 1]
  BY <1>4, <1>6, PowerRec
<1>9. Power[i - 1] \in Nat /\ Power[k] \in Nat
  BY <1>1, <1>6
<1> QED BY <1>4, <1>7, <1>8, <1>9

\* A number of k digits at most is less than the k-th power of ten.
LEMMA DigitsUpTo ==
  ASSUME NEW n \in Nat, NEW k \in Nat \ {0}
  PROVE  Digits(n) \in Nat \ {0} /\ (n < Power[k] <=> Digits(n) <= k)
<1>1. Between(n, Digits(n))
  BY DigitsBetween
<1>2. PICK d \in Nat \ {0} : d = Digits(n)
  BY <1>1 DEF Between
<1>3. n < Power[d] /\ (n > 0 => Power[d - 1] <= n)
  BY <1>1, <1>2 DEF Between
<1>4. ASSUME d <= k PROVE n < Power[k]
  <2>1. Power[d] \in Nat /\ Power[k] \in Nat /\ Power[d] <= Power[k]
    BY <1>4, PowersGrow
  <2> QED BY <1>3, <2>1
<1>5. ASSUME ~(d <= k) PROVE ~(n < Power[k])
  <2>1. k \in Nat /\ d - 1 \in Nat /\ k <= d - 1
    BY <1>5
  <2>2. Power[k] \in Nat /\ Power[d - 1] \in Nat /\ Power[k] <= Power[d - 1]
    BY <2>1, PowersGrow
  <2>3. n > 0
    <3>1. CASE n = 0
      <4>1. d = 1
        BY <3>1, <1>2 DEF Digits
      <4> QED BY <4>1, <1>5
    <3> QED BY <3>1
  <2> QED BY <1>3, <2>2, <2>3
<1> QED BY <1>2, <1>4, <1>5

\* What is printed before the point of a float.
Rounded(t) == Nearest(100 * t, Scale) \div 100
Whole(t) == t \div Scale

LEMMA WholeIs ==
  ASSUME NEW t \in Nat
  PROVE  /\ Whole(t) \in Nat /\ Rounded(t) \in Nat
         /\ Whole(t) = 0 <=> t < Scale
<1>1. Scale \in Nat \ {0}
  BY OrderDataAssumption
<1>2. PICK q \in Nat, r \in Nat : q = t \div Scale /\ t = Scale * q + r /\ r < Scale
  BY <1>1, Dividing
<1>3. Whole(t) \in Nat
  BY <1>2 DEF Whole
<1>4. Rounded(t) \in Nat
  <2>1. Nearest(100 * t, Scale) \in Nat
    BY <1>1, NearestType
  <2> QED BY <2>1 DEF Rounded
<1>5. CASE q = 0
  BY <1>1, <1>2, <1>3, <1>4, <1>5 DEF Whole
<1>6. CASE q # 0
  <2>1. PICK e \in Nat : q = e + 1
    <3>1. q - 1 \in Nat /\ q = (q - 1) + 1
      BY <1>6
    <3> QED BY <3>1
  <2>2. Scale * q = Scale * e + Scale /\ Scale * e \in Nat
    BY <1>1, <2>1
  <2>3. t >= Scale
    BY <1>1, <1>2, <2>2
  <2> QED BY <1>1, <1>2, <1>3, <1>4, <1>6, <2>3 DEF Whole
<1> QED BY <1>5, <1>6

\* On which side of a number both are.
LEMMA Against ==
  ASSUME NEW t \in Nat, NEW p \in Nat
  PROVE  /\ t < p * Scale <=> Whole(t) < p
         /\ 200 * t + Scale >= 200 * (p * Scale) <=> ~(Rounded(t) < p)
<1>1. Scale \in Nat \ {0}
  BY OrderDataAssumption
<1>2. PICK q \in Nat, r \in Nat : q = t \div Scale /\ t = Scale * q + r /\ r < Scale
  BY <1>1, Dividing
<1>3. t < p * Scale <=> q < p
  <2>1. CASE q < p
    <3>1. PICK e \in Nat : p = q + e + 1
      <4>1. (p - q) - 1 \in Nat /\ p = q + ((p - q) - 1) + 1
        BY <2>1
      <4> QED BY <4>1
    <3>2. p * Scale = Scale * q + Scale * e + Scale /\ Scale * e \in Nat /\ Scale * q \in Nat
      BY <1>1, <3>1
    <3> QED BY <1>1, <1>2, <2>1, <3>2
  <2>2. CASE q >= p
    <3>1. PICK e \in Nat : q = p + e
      <4>1. q - p \in Nat /\ q = p + (q - p)
        BY <2>2
      <4> QED BY <4>1
    <3>2. Scale * q = p * Scale + Scale * e /\ Scale * e \in Nat /\ p * Scale \in Nat
      BY <1>1, <3>1
    <3> QED BY <1>1, <1>2, <2>2, <3>2
  <2> QED BY <2>1, <2>2
<1>4. PICK h \in Nat : h = Nearest(100 * t, Scale)
  <2>1. 100 * t \in Nat
    OBVIOUS
  <2> QED BY <1>1, <2>1, NearestType
<1>5. h >= 2 * (50 * p) <=> 2 * (100 * t) + Scale >= 2 * ((2 * (50 * p)) * Scale)
  <2>1. 100 * t \in Nat /\ 50 * p \in Nat
    OBVIOUS
  <2> QED BY <1>1, <1>4, <2>1, NearestAtLeast
<1>6. (2 * (50 * p)) * Scale = 100 * (p * Scale)
  BY <1>1
<1>7. h >= 100 * p <=> 200 * t + Scale >= 200 * (p * Scale)
  BY <1>1, <1>5, <1>6
<1>8. h \div 100 < p <=> ~(h >= 100 * p)
  OBVIOUS
<1> QED BY <1>2, <1>3, <1>4, <1>7, <1>8 DEF Whole, Rounded

\* Rounding adds a digit exactly if it crosses a power of ten.
LEMMA RoundedDigits ==
  ASSUME NEW t \in Nat, NEW n \in Nat, n = Whole(t), NEW r \in Nat, r = Rounded(t)
  PROVE  /\ Digits(n) \in Nat \ {0} /\ Digits(r) \in Nat \ {0} /\ Digits(n) <= Digits(r)
         /\ OneMoreDigit(t) <=> Digits(n) # Digits(r)
<1> DEFINE Under(k) == t < Power[k] * Scale
           Over(k) == 200 * t + Scale >= 200 * (Power[k] * Scale)
<1>1. Scale \in Nat \ {0}
  BY OrderDataAssumption
<1>2. \A k \in Nat : Power[k] \in Nat
  BY PowerRec
<1>3. PICK d \in Nat \ {0} : d = Digits(n)
  BY DigitsUpTo
<1>4. PICK e \in Nat \ {0} : e = Digits(r)
  BY DigitsUpTo
<1>5. ASSUME NEW k \in Nat \ {0}
      PROVE  (Under(k) <=> d <= k) /\ (Over(k) <=> ~(e <= k))
  <2>1. (Under(k) <=> n < Power[k]) /\ (Over(k) <=> ~(r < Power[k]))
    BY <1>2, Against
  <2>2. (n < Power[k] <=> d <= k) /\ (r < Power[k] <=> e <= k)
    BY <1>3, <1>4, DigitsUpTo
  <2> QED BY <2>1, <2>2
<1>6. d <= e
  <2>1. ~ Over(e)
    BY <1>5
  <2>2. PICK p \in Nat : p = Power[e] * Scale
    BY <1>1, <1>2
  <2>3. Under(e)
    BY <1>1, <2>1, <2>2
  <2> QED BY <2>3, <1>5
<1>7. OneMoreDigit(t) <=> \E k \in 1 .. d : Under(k) /\ Over(k)
  BY <1>3 DEF OneMoreDigit, Whole
<1> HIDE DEF Under, Over
<1>8. (\E k \in 1 .. d : Under(k) /\ Over(k)) <=> \E k \in 1 .. d : d <= k /\ ~(e <= k)
  BY <1>5
<1>9. (\E k \in 1 .. d : d <= k /\ ~(e <= k)) <=> d # e
  <2>1. d \in 1 .. d
    OBVIOUS
  <2> QED BY <2>1, <1>6
<1> QED BY <1>3, <1>4, <1>6, <1>7, <1>8, <1>9

-----------------------------------------------------------------------------
(* Folds of a sequence go through the sets of its indices.                 *)

LEMMA MaxIs ==
  ASSUME NEW n \in Nat, NEW s \in SUBSET (1 .. n), s # {}
  PROVE  Max(s) \in s /\ \A i \in s : Max(s) >= i
<1> DEFINE T == {n - i : i \in s}
<1>1. T \subseteq Nat /\ T # {}
  <2>1. \A i \in s : n - i \in Nat
    OBVIOUS
  <2> QED BY <2>1
<1>2. PICK k \in T : \A j \in T : k <= j
  <2> HIDE DEF T
  <2> QED BY <1>1, LeastNumber
<1>3. PICK m \in s : k = n - m
  BY <1>2
<1>4. \A i \in s : m >= i
  <2> SUFFICES ASSUME NEW i \in s PROVE m >= i
    OBVIOUS
  <2>1. n - m <= n - i /\ m \in Nat /\ i \in Nat
    BY <1>2, <1>3
  <2> QED BY <2>1
<1> QED BY <1>4 DEF Max

\* FoldLeft goes through the sets of indices by taking the largest away.
Largest(s) == IF s = {} THEN 0 ELSE Max(s)
Others(s) == s \ {Largest(s)}

LEMMA LargestIs ==
  ASSUME NEW n \in Nat, NEW s \in SUBSET (1 .. n)
  PROVE  /\ Largest(s) \in Nat /\ Others(s) \in SUBSET (1 .. n)
         /\ s # {} => /\ Largest(s) = Max(s) /\ Max(s) \in 1 .. n
                      /\ Largest(Others(s)) \in Nat /\ Largest(Others(s)) < Largest(s)
<1>1. s # {} => Max(s) \in s /\ \A i \in s : Max(s) >= i
  BY MaxIs
<1>2. Largest(s) \in Nat /\ Others(s) \in SUBSET (1 .. n)
  <2>1. Largest(s) \in Nat
    <3>1. \A i \in s : i \in Nat
      OBVIOUS
    <3> QED BY <1>1, <3>1 DEF Largest
  <2>2. \A x : s \ {x} \in SUBSET (1 .. n)
    OBVIOUS
  <2> QED BY <2>1, <2>2 DEF Others
<1>3. ASSUME s # {}
      PROVE  Largest(Others(s)) \in Nat /\ Largest(Others(s)) < Largest(s)
  <2>1. PICK r \in SUBSET (1 .. n) : r = Others(s)
    BY <1>2
  <2>0. \A i \in s : i \in Nat /\ i > 0
    OBVIOUS
  <2>2. CASE r = {}
    BY <1>1, <1>3, <2>0, <2>1, <2>2 DEF Largest
  <2>3. CASE r # {}
    <3>1. Max(r) \in r
      BY <2>3, MaxIs
    <3>2. Max(r) \in s /\ Max(r) # Max(s)
      BY <1>3, <2>1, <3>1 DEF Others, Largest
    <3>3. Max(r) \in Nat /\ Max(s) \in Nat /\ Max(r) <= Max(s)
      BY <1>1, <1>3, <2>0, <3>2
    <3> QED BY <1>3, <2>1, <2>3, <3>2, <3>3 DEF Largest
  <2> QED BY <2>2, <2>3
<1> QED BY <1>1, <1>2, <1>3 DEF Largest

LEMMA LargestOf ==
  ASSUME NEW n \in Nat \ {0}
  PROVE  Max(1 .. n) = n /\ (1 .. n) \ {n} = 1 .. (n - 1) /\ 1 .. n # {}
<1>1. 1 .. n \in SUBSET (1 .. n) /\ 1 .. n # {} /\ n \in 1 .. n
  OBVIOUS
<1>2. Max(1 .. n) \in 1 .. n /\ Max(1 .. n) >= n
  BY <1>1, MaxIs
<1> QED BY <1>1, <1>2

\* A function of the sets of indices that says what a fold makes of them.
Folding(f, n, base, op) ==
  /\ f[{}] = base
  /\ \A s \in SUBSET (1 .. n) : s # {} => f[s] = op[Max(s)][f[s \ {Max(s)}]]

LEMMA FoldingExists ==
  ASSUME NEW n \in Nat, NEW V, NEW base \in V, NEW op \in [1 .. n -> [V -> V]]
  PROVE  \E f \in [SUBSET (1 .. n) -> V] : Folding(f, n, base, op)
<1> DEFINE D == SUBSET (1 .. n)
           rank == [s \in D |-> Largest(s)]
           pred == [s \in D |-> Others(s)]
           step == [s \in D |-> IF s = {} THEN [v \in V |-> v] ELSE op[Max(s)]]
<1>1. Recursive(D, V, rank, {{}}, base, pred, step)
  <2>1. rank \in [D -> Nat] /\ pred \in [D -> D]
    BY LargestIs
  <2>2. step \in [D -> [V -> V]]
    BY LargestIs
  <2>3. ASSUME NEW s \in D \ {{}} PROVE rank[pred[s]] < rank[s]
    <3>1. Others(s) \in D /\ Largest(Others(s)) < Largest(s)
      BY LargestIs
    <3> QED BY <3>1
  <2> HIDE DEF D, rank, pred, step
  <2> QED BY <2>1, <2>2, <2>3 DEF Recursive
<1>2. PICK f \in [D -> V] : \A s \in D : f[s] = Round(f, s, {{}}, base, pred, step)
  <2> HIDE DEF D, rank, pred, step
  <2> QED BY <1>1, Recursion
<1>3. f[{}] = base
  BY <1>2 DEF Round
<1>4. ASSUME NEW s \in SUBSET (1 .. n), s # {}
      PROVE  f[s] = op[Max(s)][f[s \ {Max(s)}]]
  <2>1. f[s] = step[s][f[pred[s]]]
    BY <1>2, <1>4 DEF Round
  <2>2. step[s] = op[Max(s)] /\ pred[s] = s \ {Max(s)}
    BY <1>4 DEF Others, Largest
  <2> QED BY <2>1, <2>2
<1> QED BY <1>3, <1>4 DEF Folding

\* What a fold computes in V is the same.
FoldsIn(h, n, V, base, op) ==
  /\ h[{}] = base
  /\ \A s \in SUBSET (1 .. n) :
       s # {} /\ h[s \ {Max(s)}] \in V => h[s] = op[Max(s)][h[s \ {Max(s)}]]

LEMMA FoldingIs ==
  ASSUME NEW n \in Nat, NEW V, NEW base, NEW op, NEW g \in [SUBSET (1 .. n) -> V],
         Folding(g, n, base, op), NEW h, FoldsIn(h, n, V, base, op)
  PROVE  h[1 .. n] = g[1 .. n] /\ g[1 .. n] \in V
<1> DEFINE D == SUBSET (1 .. n)
           rank == [s \in D |-> Largest(s)]
<1>1. ASSUME NEW s \in D
      PROVE  rank[s] \in Nat
  BY LargestIs
<1>2. ASSUME NEW s \in D, h[s] # g[s]
      PROVE  \E r \in D : rank[r] < rank[s] /\ h[r] # g[r]
  <2>1. s # {}
    BY <1>2 DEF Folding, FoldsIn
  <2>2. s \ {Max(s)} \in D /\ Others(s) = s \ {Max(s)}
    BY <2>1 DEF Others, Largest
  <2>3. g[s] = op[Max(s)][g[s \ {Max(s)}]] /\ g[s \ {Max(s)}] \in V
    BY <2>1, <2>2 DEF Folding
  <2>4. h[s \ {Max(s)}] # g[s \ {Max(s)}]
    BY <1>2, <2>1, <2>3 DEF FoldsIn
  <2>5. rank[s \ {Max(s)}] < rank[s]
    BY <2>1, <2>2, LargestIs
  <2> QED BY <2>2, <2>4, <2>5
<1> HIDE DEF rank, D
<1>3. Descending(D, rank, h, g)
  BY <1>1, <1>2 DEF Descending
<1>4. \A s \in D : h[s] = g[s]
  BY <1>3, Descent
<1>5. 1 .. n \in D
  BY DEF D
<1> QED BY <1>4, <1>5 DEF D

\* What orderGetTotal makes of the items is a number.
LEMMA TotalIsInt ==
  ASSUME NEW o, o.items \in Seq(Entry)
  PROVE  orderGetTotal(o) \in Int
<1> DEFINE n == Len(o.items)
           Worth(i) == ToFloat(o.items[i].price * ToFloat(o.items[i].quantity))
           op == [i \in 1 .. n |-> [v \in Int |-> ToFloat(v + Worth(i))]]
           Is(f) == f = [s \in SUBSET DOMAIN o.items |->
                           IF s = {} THEN 0 ELSE LET x == Max(s) IN  ToFloat(f[s \ {x}] + Worth(x))]
           h == CHOOSE f : Is(f)
<1>1. orderGetTotal(o) = h[DOMAIN o.items]
  BY DEF orderGetTotal, FoldLeft, MapThenFoldSet
<1>2. n \in Nat /\ DOMAIN o.items = 1 .. n
  OBVIOUS
<1>3. ASSUME NEW i \in 1 .. n
      PROVE  Worth(i) \in Int
  <2>1. o.items[i] \in Entry
    BY <1>3
  <2>2. PICK price \in Int, quantity \in Int : price = o.items[i].price /\ quantity = o.items[i].quantity
    BY <2>1 DEF Entry
  <2>3. PICK q \in Int : q = ToFloat(quantity)
    BY FloatType
  <2>4. price * q \in Int
    OBVIOUS
  <2>5. ToFloat(price * q) \in Int
    BY <2>4, FloatType
  <2> QED BY <2>2, <2>3, <2>5
<1> HIDE DEF Worth, n
<1>4. op \in [1 .. n -> [Int -> Int]]
  <2>1. ASSUME NEW i \in 1 .. n, NEW v \in Int
        PROVE  ToFloat(v + Worth(i)) \in Int
    <3>1. v + Worth(i) \in Int
      BY <1>3
    <3> QED BY <3>1, FloatType
  <2> QED BY <2>1
<1>5. PICK g \in [SUBSET (1 .. n) -> Int] : Folding(g, n, 0, op)
  <2>1. 0 \in Int
    OBVIOUS
  <2> HIDE DEF op
  <2> QED BY <2>1, <1>2, <1>4, FoldingExists
<1>6. ASSUME NEW s \in SUBSET (1 .. n), s # {}
      PROVE  /\ Max(s) \in 1 .. n /\ s \ {Max(s)} \in SUBSET (1 .. n)
             /\ \A v \in Int : op[Max(s)][v] = ToFloat(v + Worth(Max(s)))
  BY <1>2, <1>6, LargestIs
<1>7. Is(g)
  <2>1. g[{}] = 0
    BY <1>5 DEF Folding
  <2>2. ASSUME NEW s \in SUBSET (1 .. n), s # {}
        PROVE  g[s] = ToFloat(g[s \ {Max(s)}] + Worth(Max(s)))
    BY <2>2, <1>5, <1>6 DEF Folding
  <2> HIDE DEF op
  <2> QED BY <2>1, <2>2, <1>2
<1>8. Is(h)
  <2> HIDE DEF Is
  <2> QED BY <1>7
<1>9. h[{}] = 0 /\ \A s \in SUBSET (1 .. n) : s # {} => h[s] = ToFloat(h[s \ {Max(s)}] + Worth(Max(s)))
  <2> HIDE DEF h
  <2> QED BY <1>2, <1>8
<1>10. \A s \in SUBSET (1 .. n) : s # {} /\ h[s \ {Max(s)}] \in Int => h[s] = op[Max(s)][h[s \ {Max(s)}]]
  <2> HIDE DEF h, op
  <2> QED BY <1>6, <1>9
<1> HIDE DEF h, op, Is
<1>11. FoldsIn(h, n, Int, 0, op)
  BY <1>9, <1>10 DEF FoldsIn
<1>12. h[1 .. n] \in Int
  BY <1>2, <1>5, <1>11, FoldingIs
<1> QED BY <1>1, <1>2, <1>12

-----------------------------------------------------------------------------
(* store_verified_order writes one piece of a query after the other.       *)

Name == {"base", "total", "address", "time", "order", "product", "quantity"}
Letter == Name \X Nat
Pieces == Seq([text : Seq(Letter), counted : Nat])
Written == [query : Seq(Letter), index : Nat]
Begun == [query |-> <<>>, index |-> 0]
Advanced(w, p) == [query |-> sprintf(w.query, w.index, p.text), index |-> w.index + p.counted]

LEMMA SprintfType ==
  ASSUME NEW query \in Seq(Letter), NEW index \in Nat, NEW text \in Seq(Letter)
  PROVE  sprintf(query, index, text) \in Seq(Letter)
  BY DEF sprintf

LEMMA QueryIs ==
  ASSUME NEW pieces \in Pieces
  PROVE  \E f : /\ f[0] = Begun
                /\ \A i \in 1 .. Len(pieces) : f[i] = Advanced(f[i - 1], pieces[i])
                /\ QueryOf(pieces) = sprintf(f[Len(pieces)].query, f[Len(pieces)].index, <<>>)
<1> DEFINE n == Len(pieces)
           op == [i \in 1 .. n |-> [v \in Written |-> Advanced(v, pieces[i])]]
           Is(f) == f = [s \in SUBSET DOMAIN pieces |->
                           IF s = {} THEN Begun ELSE LET x == Max(s) IN Advanced(f[s \ {x}], pieces[x])]
           h == CHOOSE f : Is(f)
<1>1. QueryOf(pieces) = sprintf(h[DOMAIN pieces].query, h[DOMAIN pieces].index, <<>>)
  BY DEF QueryOf, FoldLeft, MapThenFoldSet, Advanced, Begun
<1>2. n \in Nat /\ DOMAIN pieces = 1 .. n
  BY DEF Pieces
<1>3. Begun \in Written
  <2>1. <<>> \in Seq(Letter) /\ 0 \in Nat
    OBVIOUS
  <2> QED BY <2>1 DEF Begun, Written
<1>4. ASSUME NEW v \in Written, NEW i \in 1 .. n
      PROVE  Advanced(v, pieces[i]) \in Written
  <2>1. pieces[i].text \in Seq(Letter) /\ pieces[i].counted \in Nat
    <3>1. pieces[i] \in [text : Seq(Letter), counted : Nat]
      BY <1>2, ElementOfSeq DEF Pieces
    <3> QED BY <3>1
  <2>2. v.query \in Seq(Letter) /\ v.index \in Nat
    BY DEF Written
  <2>3. sprintf(v.query, v.index, pieces[i].text) \in Seq(Letter)
    BY <2>1, <2>2, SprintfType
  <2> QED BY <2>1, <2>2, <2>3 DEF Advanced, Written
<1> HIDE DEF n
<1>5. op \in [1 .. n -> [Written -> Written]]
  BY <1>4
<1>6. PICK g \in [SUBSET (1 .. n) -> Written] : Folding(g, n, Begun, op)
  <2> HIDE DEF op
  <2> QED BY <1>2, <1>3, <1>5, FoldingExists
<1>7. ASSUME NEW s \in SUBSET (1 .. n), s # {}
      PROVE  /\ Max(s) \in 1 .. n /\ s \ {Max(s)} \in SUBSET (1 .. n)
             /\ \A v \in Written : op[Max(s)][v] = Advanced(v, pieces[Max(s)])
  BY <1>2, <1>7, LargestIs
<1>8. Is(g)
  <2>1. g[{}] = Begun
    BY <1>6 DEF Folding
  <2>2. ASSUME NEW s \in SUBSET (1 .. n), s # {}
        PROVE  g[s] = Advanced(g[s \ {Max(s)}], pieces[Max(s)])
    BY <2>2, <1>6, <1>7 DEF Folding
  <2> HIDE DEF op
  <2> QED BY <2>1, <2>2, <1>2
<1>9. Is(h)
  <2> HIDE DEF Is
  <2> QED BY <1>8
<1>10. h[{}] = Begun /\ \A s \in SUBSET (1 .. n) : s # {} => h[s] = Advanced(h[s \ {Max(s)}], pieces[Max(s)])
  <2> HIDE DEF h
  <2> QED BY <1>2, <1>9
<1> DEFINE f == [i \in 0 .. n |-> h[1 .. i]]
<1>11. f[0] = Begun
  <2>1. 1 .. 0 = {} /\ 0 \in 0 .. n
    BY <1>2
  <2> QED BY <2>1, <1>10
<1>12. ASSUME NEW i \in 1 .. n
       PROVE  f[i] = Advanced(f[i - 1], pieces[i])
  <2>1. Max(1 .. i) = i /\ (1 .. i) \ {i} = 1 .. (i - 1) /\ 1 .. i # {}
    BY LargestOf
  <2>2. 1 .. i \in SUBSET (1 .. n) /\ i \in 0 .. n /\ i - 1 \in 0 .. n
    BY <1>2
  <2> HIDE DEF h
  <2> QED BY <2>1, <2>2, <1>10
<1>13. f[n] = h[DOMAIN pieces]
  BY <1>2
<1> HIDE DEF f, h
<1> QED BY <1>1, <1>11, <1>12, <1>13 DEF n

LEMMA FlattenFour ==
  ASSUME NEW seqs, Len(seqs) = 4
  PROVE  FlattenSeq(seqs) = ((seqs[1] \o seqs[2]) \o seqs[3]) \o seqs[4]
<1>1. 4 \in Nat \ {0}
  OBVIOUS
<1>2. PICK f : Flattening(f, seqs, 4) /\ FlattenSeq(seqs) = f[4]
  BY <1>1, FlattenSeqIs
<1>3. f[1] = seqs[1]
  BY <1>2, FlatteningFirst
<1>4. f[2] = Join(f[1], seqs[2])
  <2>1. 2 \in 1 .. 4 /\ 1 \in Nat /\ 2 = 1 + 1 /\ 1 # 0
    OBVIOUS
  <2> QED BY <1>2, <2>1, FlatteningNext
<1>5. f[3] = Join(f[2], seqs[3])
  <2>1. 3 \in 1 .. 4 /\ 2 \in Nat /\ 3 = 2 + 1 /\ 2 # 0
    OBVIOUS
  <2> QED BY <1>2, <2>1, FlatteningNext
<1>6. f[4] = Join(f[3], seqs[4])
  <2>1. 4 \in 1 .. 4 /\ 3 \in Nat /\ 4 = 3 + 1 /\ 3 # 0
    OBVIOUS
  <2> QED BY <1>2, <2>1, FlatteningNext
<1> QED BY <1>2, <1>3, <1>4, <1>5, <1>6 DEF Join

LEMMA LettersConcat ==
  ASSUME NEW a \in Seq(Letter), NEW b \in Seq(Letter)
  PROVE  a \o b \in Seq(Letter) /\ Len(a \o b) = Len(a) + Len(b)
  BY ConcatProperties

LEMMA LettersCut ==
  ASSUME NEW a \in Seq(Letter), NEW n \in Nat, n <= Len(a)
  PROVE  /\ SubSeq(a, 1, n) \in Seq(Letter) /\ Len(SubSeq(a, 1, n)) = n
         /\ n = Len(a) => SubSeq(a, 1, n) = a
<1>1. \A i \in 1 .. n : a[i] \in Letter
  BY ElementOfSeq
<1>2. PICK s : s = SubSeq(a, 1, n)
  OBVIOUS
<1>3. s \in Seq(Letter) /\ Len(s) = n /\ \A i \in 1 .. n : s[i] = a[i]
  BY <1>1, <1>2, SubSeqProperties
<1>4. n = Len(a) => s = a
  BY <1>3, SeqEqual
<1> QED BY <1>2, <1>3, <1>4

\* sprintf at the end of the text, and before it.
LEMMA SprintfAt ==
  ASSUME NEW query \in Seq(Letter), NEW index \in Nat, NEW text \in Seq(Letter), index <= Len(query)
  PROVE  /\ sprintf(query, index, text) \in Seq(Letter)
         /\ Len(sprintf(query, index, text)) = index + Len(text)
         /\ index = Len(query) => sprintf(query, index, text) = query \o text
<1>1. PICK s \in Seq(Letter) : s = SubSeq(query, 1, index)
  BY LettersCut
<1>2. Len(s) = index /\ (index = Len(query) => s = query)
  BY <1>1, LettersCut
<1>3. sprintf(query, index, text) = s \o text
  BY <1>1 DEF sprintf
<1> QED BY <1>2, <1>3, LettersConcat

\* Four pieces, of which only the second may be counted short: the text is what they
\* say if it is not.
LEMMA FourPieces ==
  ASSUME NEW pieces \in Pieces, Len(pieces) = 4,
         pieces[1].counted = Len(pieces[1].text), pieces[2].counted <= Len(pieces[2].text),
         pieces[3].counted = Len(pieces[3].text), pieces[4].counted = Len(pieces[4].text)
  PROVE  WholeQuery(pieces) <=> pieces[2].counted = Len(pieces[2].text)
<1>1. ASSUME NEW i \in 1 .. 4
      PROVE  pieces[i].text \in Seq(Letter) /\ pieces[i].counted \in Nat
  <2>1. pieces[i] \in [text : Seq(Letter), counted : Nat]
    BY ElementOfSeq DEF Pieces
  <2> QED BY <2>1
<1>2. PICK f : /\ f[0] = Begun
               /\ \A i \in 1 .. 4 : f[i] = Advanced(f[i - 1], pieces[i])
               /\ QueryOf(pieces) = sprintf(f[4].query, f[4].index, <<>>)
  BY QueryIs
<1>3. /\ f[1] = Advanced(f[0], pieces[1]) /\ f[2] = Advanced(f[1], pieces[2])
      /\ f[3] = Advanced(f[2], pieces[3]) /\ f[4] = Advanced(f[3], pieces[4])
  <2>1. /\ 1 \in 1 .. 4 /\ 2 \in 1 .. 4 /\ 3 \in 1 .. 4 /\ 4 \in 1 .. 4
        /\ 1 - 1 = 0 /\ 2 - 1 = 1 /\ 3 - 1 = 2 /\ 4 - 1 = 3
    OBVIOUS
  <2>2. \A i \in 1 .. 4 : \A j : i - 1 = j => f[i] = Advanced(f[j], pieces[i])
    BY <1>2
  <2> QED BY <2>1, <2>2
<1>4. PICK t1 \in Seq(Letter), c1 \in Nat : t1 = pieces[1].text /\ c1 = pieces[1].counted /\ c1 = Len(t1)
  BY <1>1
<1>5. PICK t2 \in Seq(Letter), c2 \in Nat : t2 = pieces[2].text /\ c2 = pieces[2].counted /\ c2 <= Len(t2)
  BY <1>1
<1>6. PICK t3 \in Seq(Letter), c3 \in Nat : t3 = pieces[3].text /\ c3 = pieces[3].counted /\ c3 = Len(t3)
  BY <1>1
<1>7. PICK t4 \in Seq(Letter), c4 \in Nat : t4 = pieces[4].text /\ c4 = pieces[4].counted /\ c4 = Len(t4)
  BY <1>1
<1>8. f[1].query = t1 /\ f[1].index = c1
  <2>1. sprintf(<<>>, 0, t1) = t1
    <3>1. SubSeq(<<>>, 1, 0) = <<>> /\ <<>> \o t1 = t1 /\ 0 <= Len(<<>>)
      OBVIOUS
    <3> QED BY <3>1 DEF sprintf
  <2> QED BY <1>2, <1>3, <1>4, <2>1 DEF Advanced, Begun
<1>9. PICK q2 : q2 = sprintf(t1, c1, t2)
  OBVIOUS
<1>10. q2 = t1 \o t2 /\ q2 \in Seq(Letter) /\ Len(q2) = c1 + Len(t2)
  <2>1. c1 = Len(t1) /\ c1 <= Len(t1)
    BY <1>4
  <2> QED BY <1>9, <2>1, SprintfAt
<1>11. f[2].query = q2 /\ f[2].index = c1 + c2
  BY <1>3, <1>5, <1>8, <1>9 DEF Advanced
<1>12. PICK q3 : q3 = sprintf(q2, c1 + c2, t3)
  OBVIOUS
<1>13. /\ q3 \in Seq(Letter) /\ Len(q3) = c1 + c2 + c3
       /\ c2 = Len(t2) => q3 = q2 \o t3
  <2>1. PICK k \in Nat : k = c1 + c2
    OBVIOUS
  <2>2. k <= Len(q2) /\ (c2 = Len(t2) => k = Len(q2))
    <3>1. c2 <= Len(t2)
      BY <1>5
    <3>2. Len(q2) = c1 + Len(t2)
      BY <1>10
    <3>3. Len(t2) \in Nat
      BY LenProperties
    <3>4. ASSUME NEW i \in Nat, NEW j \in Nat, i <= j
          PROVE  c1 + i <= c1 + j /\ (i = j => c1 + i = c1 + j)
      BY <3>4
    <3> QED BY <2>1, <3>1, <3>2, <3>3, <3>4
  <2>3. /\ q3 \in Seq(Letter) /\ Len(q3) = k + Len(t3)
        /\ k = Len(q2) => q3 = q2 \o t3
    <3>1. q2 \in Seq(Letter) /\ q3 = sprintf(q2, k, t3) /\ k <= Len(q2)
      BY <1>10, <1>12, <2>1, <2>2
    <3> QED BY <3>1, SprintfAt
  <2>4. Len(t3) = c3
    BY <1>6
  <2> QED BY <2>1, <2>2, <2>3, <2>4
<1>14. f[3].query = q3 /\ f[3].index = Len(q3)
  <2>1. PICK k \in Nat : k = c1 + c2
    OBVIOUS
  <2>2. f[2].query = q2 /\ f[2].index = k /\ q3 = sprintf(q2, k, t3)
    BY <1>11, <1>12, <2>1
  <2>3. f[3].query = q3 /\ f[3].index = k + c3
    BY <1>3, <1>6, <2>2 DEF Advanced
  <2> QED BY <1>13, <2>1, <2>3
<1>15. PICK q4 : q4 = q3 \o t4
  OBVIOUS
<1>16. q4 \in Seq(Letter) /\ Len(q4) = Len(q3) + c4 /\ Len(q4) = c1 + c2 + c3 + c4
  <2>1. q4 \in Seq(Letter) /\ Len(q4) = Len(q3) + Len(t4)
    BY <1>13, <1>15, LettersConcat
  <2>2. Len(t4) = c4
    BY <1>7
  <2> QED BY <1>13, <2>1, <2>2
<1>17. f[4].query = q4 /\ f[4].index = Len(q4)
  <2>1. sprintf(q3, Len(q3), t4) = q4
    <3>1. Len(q3) \in Nat /\ Len(q3) <= Len(q3)
      BY <1>13
    <3> QED BY <1>13, <1>15, <3>1, SprintfAt
  <2>2. Len(q4) = Len(q3) + c4
    BY <1>16
  <2> QED BY <1>3, <1>7, <1>14, <2>1, <2>2 DEF Advanced
<1>18. QueryOf(pieces) = q4
  <2>1. <<>> \in Seq(Letter) /\ q4 \o <<>> = q4
    BY <1>16
  <2>2. Len(q4) \in Nat /\ Len(q4) <= Len(q4)
    BY <1>16
  <2>3. sprintf(q4, Len(q4), <<>>) = q4
    BY <1>16, <2>1, <2>2, SprintfAt
  <2> QED BY <1>2, <1>17, <2>3
<1>19. FlattenSeq([i \in 1 .. Len(pieces) |-> pieces[i].text]) = (q2 \o t3) \o t4
  <2> DEFINE seqs == [i \in 1 .. 4 |-> pieces[i].text]
  <2>1. Len(seqs) = 4 /\ seqs[1] = t1 /\ seqs[2] = t2 /\ seqs[3] = t3 /\ seqs[4] = t4
    BY <1>4, <1>5, <1>6, <1>7
  <2> HIDE DEF seqs
  <2>2. FlattenSeq(seqs) = ((t1 \o t2) \o t3) \o t4
    BY <2>1, FlattenFour
  <2> QED BY <1>10, <2>2 DEF seqs
<1>20. CASE c2 = Len(t2)
  BY <1>5, <1>13, <1>15, <1>18, <1>19, <1>20 DEF WholeQuery
<1>21. CASE c2 # Len(t2)
  <2>1. Len((q2 \o t3) \o t4) = c1 + Len(t2) + c3 + c4
    <3>1. q2 \o t3 \in Seq(Letter) /\ Len(q2 \o t3) = Len(q2) + Len(t3)
      BY <1>10, LettersConcat
    <3>2. Len((q2 \o t3) \o t4) = Len(q2 \o t3) + Len(t4)
      BY <3>1, LettersConcat
    <3> QED BY <1>6, <1>7, <1>10, <3>1, <3>2
  <2>2. Len(q4) # Len((q2 \o t3) \o t4)
    BY <1>16, <1>21, <2>1
  <2> QED BY <1>5, <1>18, <1>19, <1>21, <2>2 DEF WholeQuery
<1> QED BY <1>20, <1>21

\* A piece of so many characters, counted as so many.
PieceOf(p, printed, counted) ==
  p \in [text : Seq(Letter), counted : Nat] /\ Len(p.text) = printed /\ p.counted = counted

LEMMA PieceIs ==
  ASSUME NEW name \in Name, NEW printed \in Nat, NEW counted \in Nat
  PROVE  PieceOf(Piece(name, printed, counted), printed, counted)
<1> DEFINE s == [i \in 1 .. printed |-> <<name, i>>]
<1>1. \A i \in 1 .. printed : <<name, i>> \in Letter
  <2>1. \A i \in 1 .. printed : i \in Nat
    OBVIOUS
  <2>2. ASSUME NEW i, i \in Nat PROVE <<name, i>> \in Name \X Nat
    BY <2>2, Zenon
  <2> QED BY <2>1, <2>2 DEF Letter
<1>2. s \in Seq(Letter) /\ Len(s) = printed
  <2>1. s \in [1 .. printed -> Letter]
    BY <1>1
  <2> QED BY <2>1
<1> HIDE DEF s
<1>3. Piece(name, printed, counted) = [text |-> s, counted |-> counted]
  BY DEF Piece, s
<1> QED BY <1>2, <1>3 DEF PieceOf

\* countDigits counts what sprintf prints of an int.
LEMMA CountedAsPrinted ==
  ASSUME NEW n \in Int
  PROVE  countDigits(n) \in Nat /\ PrintedInt(n) = countDigits(n)
<1>1. PICK a \in Nat : a = Abs(n) /\ (n # 0 => a # 0) /\ (n = 0 => a = 0)
  BY DEF Abs
<1>2. DigitsFrom[a] \in Nat /\ DigitsFrom[0] = 0
  <2>1. 0 \in Nat
    OBVIOUS
  <2> QED BY <2>1, DigitsRec
<1>3. CASE n = 0
  BY <1>1, <1>2, <1>3 DEF countDigits, PrintedInt, Sign, Digits
<1>4. CASE n < 0
  BY <1>1, <1>2, <1>4 DEF countDigits, PrintedInt, Sign, Digits
<1>5. CASE n > 0
  BY <1>1, <1>2, <1>5 DEF countDigits, PrintedInt, Sign, Digits
<1> QED BY <1>3, <1>4, <1>5

\* What it counts of a total, and what sprintf prints of it.
LEMMA TotalCounted ==
  ASSUME NEW t \in Int
  PROVE  \E counted, printed \in Nat :
           /\ counted = countDigits(Truncated(t)) /\ printed = PrintedFloat(t)
           /\ counted + 3 <= printed
           /\ counted + 3 = printed <=> ~ OneMoreDigit(Abs(t)) /\ ~ MinusZero(t)
<1>1. PICK a \in Nat : a = Abs(t) /\ (t < 0 => a = - t) /\ (t >= 0 => a = t)
  BY DEF Abs
<1>2. PICK n \in Nat : n = Whole(a)
  BY WholeIs
<1>3. PICK r \in Nat : r = Rounded(a)
  BY WholeIs
<1>4. /\ Digits(n) \in Nat \ {0} /\ Digits(r) \in Nat \ {0} /\ Digits(n) <= Digits(r)
      /\ OneMoreDigit(a) <=> Digits(n) # Digits(r)
  BY <1>2, <1>3, RoundedDigits
<1>5. PICK d \in Nat \ {0} : d = Digits(n)
  BY <1>4
<1>6. PICK e \in Nat \ {0} : e = Digits(r)
  BY <1>4
<1>7. d <= e /\ (OneMoreDigit(Abs(t)) <=> d # e)
  BY <1>1, <1>4, <1>5, <1>6
<1>8. (n = 0 <=> a < Scale) /\ Scale \in Nat
  BY <1>2, WholeIs, OrderDataAssumption
<1>9. PrintedFloat(t) = Sign(t) + e + 1 + 2
  BY <1>1, <1>3, <1>6 DEF PrintedFloat, Rounded
<1>10. Truncated(t) = (IF t < 0 THEN - n ELSE n) /\ Truncated(t) \in Int
  BY <1>1, <1>2 DEF Truncated, Whole
<1>11. countDigits(Truncated(t)) = d + (IF t < 0 /\ n # 0 THEN 1 ELSE 0)
  <2>1. Digits(0) = 1
    BY DEF Digits
  <2>2. PICK k \in Int : k = Truncated(t)
    BY <1>10
  <2>3. PrintedInt(k) = countDigits(k)
    BY CountedAsPrinted
  <2>4. Abs(k) = n /\ (k < 0 <=> t < 0 /\ n # 0)
    BY <1>10, <2>2 DEF Abs
  <2>5. PrintedInt(k) = (IF t < 0 /\ n # 0 THEN 1 ELSE 0) + d
    BY <1>5, <2>4 DEF PrintedInt, Sign
  <2> QED BY <2>2, <2>3, <2>5
<1>12. PICK counted \in Nat : counted = d + (IF t < 0 /\ n # 0 THEN 1 ELSE 0)
  OBVIOUS
<1>13. PICK printed \in Nat : printed = Sign(t) + e + 3
  BY DEF Sign
<1>14. /\ counted + 3 <= printed
       /\ counted + 3 = printed <=> ~ (d # e) /\ ~ MinusZero(t)
  <2>1. CASE t >= 0
    BY <1>7, <1>12, <1>13, <2>1 DEF Sign, MinusZero
  <2>2. CASE t < 0 /\ n # 0
    BY <1>1, <1>7, <1>8, <1>12, <1>13, <2>2 DEF Sign, MinusZero
  <2>3. CASE t < 0 /\ n = 0
    BY <1>1, <1>7, <1>8, <1>12, <1>13, <2>3 DEF Sign, MinusZero
  <2> QED BY <2>1, <2>2, <2>3
<1>15. counted = countDigits(Truncated(t))
  BY <1>11, <1>12
<1>16. printed = PrintedFloat(t)
  BY <1>9, <1>13 DEF Sign
<1> QED BY <1>7, <1>14, <1>15, <1>16

\* Four pieces given one by one.
LEMMA FourGiven ==
  ASSUME NEW p1, NEW p2, NEW p3, NEW p4, NEW i, NEW j \in Nat, NEW k, NEW l, NEW m \in Nat, m <= j,
         PieceOf(p1, i, i), PieceOf(p2, j, m), PieceOf(p3, k, k), PieceOf(p4, l, l)
  PROVE  WholeQuery(<<p1, p2, p3, p4>>) <=> m = j
<1> DEFINE R == [text : Seq(Letter), counted : Nat]
           ps == <<p1, p2, p3, p4>>
<1>1. ps \in Pieces /\ Len(ps) = 4 /\ ps[1] = p1 /\ ps[2] = p2 /\ ps[3] = p3 /\ ps[4] = p4
  <2>1. p1 \in R /\ p2 \in R /\ p3 \in R /\ p4 \in R
    BY DEF PieceOf
  <2> HIDE DEF R
  <2>2. ps \in Seq(R) /\ Len(ps) = 4 /\ ps[1] = p1 /\ ps[2] = p2 /\ ps[3] = p3 /\ ps[4] = p4
    BY <2>1
  <2> QED BY <2>2 DEF Pieces, R
<1> HIDE DEF ps
<1>2. WholeQuery(ps) <=> ps[2].counted = Len(ps[2].text)
  BY <1>1, FourPieces DEF PieceOf
<1> QED BY <1>1, <1>2 DEF ps, PieceOf

LEMMA EntryQuery ==
  ASSUME NEW e \in Entry
  PROVE  WholeQuery(InsertEntry(1, e))
<1>1. PICK i \in Nat : i = countDigits(1) + 1 /\ i = PrintedInt(1) + 1
  BY CountedAsPrinted
<1>2. PICK j \in Nat : j = countDigits(e.product_id) + 1 /\ j = PrintedInt(e.product_id) + 1
  BY CountedAsPrinted DEF Entry
<1>3. PICK k \in Nat : k = countDigits(e.quantity) + 1 /\ k = PrintedInt(e.quantity) + 1
  BY CountedAsPrinted DEF Entry
<1>4. InsertEntry(1, e) = <<Piece("base", BaseLen, BaseLen), Piece("order", i, i),
                            Piece("product", j, j), Piece("quantity", k, k)>>
  BY <1>1, <1>2, <1>3 DEF InsertEntry
<1>5. BaseLen \in Nat /\ i <= i
  BY QueryAssumption
<1>6. "base" \in Name /\ "order" \in Name /\ "product" \in Name /\ "quantity" \in Name
  BY DEF Name
<1>7. PICK p1, p2, p3, p4 :
        /\ p1 = Piece("base", BaseLen, BaseLen) /\ p2 = Piece("order", i, i)
        /\ p3 = Piece("product", j, j) /\ p4 = Piece("quantity", k, k)
  OBVIOUS
<1>8. PieceOf(p1, BaseLen, BaseLen) /\ PieceOf(p2, i, i) /\ PieceOf(p3, j, j) /\ PieceOf(p4, k, k)
  BY <1>5, <1>6, <1>7, PieceIs
<1>9. WholeQuery(<<p1, p2, p3, p4>>)
  BY <1>5, <1>8, FourGiven
<1> QED BY <1>4, <1>7, <1>9

LEMMA OrderQuery ==
  ASSUME NEW o, orderGetTotal(o) \in Int, o.address \in Seq(Character)
  PROVE  WholeQuery(InsertOrder(o)) <=>
           ~ OneMoreDigit(Abs(orderGetTotal(o))) /\ ~ MinusZero(orderGetTotal(o))
<1>1. PICK t \in Int : t = orderGetTotal(o)
  OBVIOUS
<1>2. PICK c, p \in Nat :
        /\ c = countDigits(Truncated(t)) /\ p = PrintedFloat(t)
        /\ c + 3 <= p
        /\ c + 3 = p <=> ~ OneMoreDigit(Abs(t)) /\ ~ MinusZero(t)
  BY TotalCounted
<1>3. PICK counted \in Nat, printed \in Nat :
        counted = c + 1 + 2 + 1 /\ printed = p + 1
  OBVIOUS
<1>4. /\ counted <= printed
      /\ counted = printed <=> ~ OneMoreDigit(Abs(t)) /\ ~ MinusZero(t)
  BY <1>2, <1>3
<1>5. PICK quoted \in Nat : quoted = 1 + Len(o.address) + 1 + 1
  <2>1. Len(o.address) \in Nat
    BY LenProperties
  <2> QED BY <2>1
<1>6. BaseLen \in Nat /\ TimeLen \in Nat
  BY QueryAssumption
<1>7. PICK time \in Nat : time = TimeLen + 1
  BY <1>6
<1>8. InsertOrder(o) = <<Piece("base", BaseLen, BaseLen), Piece("total", printed, counted),
                         Piece("address", quoted, quoted), Piece("time", time, time)>>
  BY <1>1, <1>2, <1>3, <1>5, <1>7 DEF InsertOrder
<1>9. "base" \in Name /\ "total" \in Name /\ "address" \in Name /\ "time" \in Name
  BY DEF Name
<1>10. PICK p1, p2, p3, p4 :
         /\ p1 = Piece("base", BaseLen, BaseLen) /\ p2 = Piece("total", printed, counted)
         /\ p3 = Piece("address", quoted, quoted) /\ p4 = Piece("time", time, time)
  OBVIOUS
<1>11. /\ PieceOf(p1, BaseLen, BaseLen) /\ PieceOf(p2, printed, counted)
       /\ PieceOf(p3, quoted, quoted) /\ PieceOf(p4, time, time)
  BY <1>6, <1>9, <1>10, PieceIs
<1>12. WholeQuery(<<p1, p2, p3, p4>>) <=> counted = printed
  BY <1>4, <1>11, FourGiven
<1> QED BY <1>1, <1>4, <1>8, <1>10, <1>12

-----------------------------------------------------------------------------
(* The invariant.                                                          *)

\* What the database server sends of the products after the first a, up to the b-th.
Serialized(a, b) == [i \in 1 .. b - a |-> productSerialize(Catalogue[a + i])]

\* Every link holds whole messages; but a client that has ended may leave a part of one.
LinkInv ==
  /\ LinkTypes
  /\ \A l \in Links : FramedLink(l) \/ (l = "up" /\ cpc = "over" /\ out["up"] = <<>>)

\* Products are in the array of the forked server, or on their way to it.
ListInv ==
  /\ listed \in 0 .. N /\ served \in 0 .. N
  /\ serverProducts \in Seq(Product) /\ Len(serverProducts) <= listed
  /\ \A i \in 1 .. Len(serverProducts) : serverProducts[i] = Catalogue[i]
  /\ served > 0 => Len(serverProducts) = N
  /\ Len(serverProducts) < N => Queue("fromDb") = Serialized(Len(serverProducts), listed)

\* Then they are in the array of the client, or on their way to it.
ClientInv ==
  /\ cpc \in {"list", "shop", "wait", "over"}
  /\ products \in Seq(Product)
  /\ cpc = "list" =>
       /\ Len(products) <= served
       /\ \A i \in 1 .. Len(products) : products[i] = Catalogue[i]
       /\ Queue("down") = Serialized(Len(products), served)
  /\ cpc \in {"shop", "wait"} =>
       /\ served = N /\ Len(products) = N
       /\ \A i \in 1 .. N : products[i].id = Catalogue[i].id

\* An order that orderAdd has built.
Ids == {Catalogue[i].id : i \in 1 .. N}
WellFormed(o) ==
  /\ OrderType(o)
  /\ Len(o.items) <= ORDER_MAX_SIZE
  /\ \A i \in 1 .. Len(o.items) : o.items[i].product_id \in Ids
  /\ \A i, j \in 1 .. Len(o.items) : o.items[i].product_id = o.items[j].product_id => i = j

OrdersInv == WellFormed(order) /\ (verified # NULL => WellFormed(verified))

\* Where the order is.
Empty(l) == Queue(l) = <<>>
Holds(l, o) == Queue(l) = <<orderSerialize(o)>>

\* The forked server has all products, so the next message is about the order.
AllRead == Len(serverProducts) = N

\* It has been submitted to an address.
Addressed == order.address \in Seq(Character)

Nowhere  == Empty("up") /\ Empty("toDb") /\ (AllRead => Empty("fromDb")) /\ stored = NULL
GoingUp ==
  /\ AllRead /\ Holds("up", order) /\ Addressed
  /\ Empty("toDb") /\ Empty("fromDb") /\ stored = NULL
GoingIn ==
  /\ AllRead /\ Empty("up") /\ Holds("toDb", order) /\ Addressed
  /\ Empty("fromDb") /\ stored = NULL
InTables ==
  AllRead /\ Empty("up") /\ Empty("toDb") /\ Empty("fromDb") /\ stored = order /\ Addressed
GoingOut ==
  /\ AllRead /\ Empty("up") /\ Empty("toDb") /\ Holds("fromDb", verified)
  /\ WellFormed(verified) /\ stored = NULL
GoingDown ==
  /\ AllRead /\ Empty("up") /\ Empty("toDb") /\ Empty("fromDb") /\ Holds("down", verified)
  /\ WellFormed(verified) /\ stored = NULL

\* An order that the client still waits for, or has left behind.
Submitted == GoingUp \/ GoingIn \/ InTables \/ GoingOut
WhereInv ==
  /\ cpc = "list" => Nowhere
  /\ cpc = "shop" => Nowhere /\ Empty("down")
  /\ cpc = "wait" => (Submitted /\ Empty("down")) \/ GoingDown
  /\ cpc = "over" => Nowhere \/ Submitted

IInv == LinkInv /\ ListInv /\ ClientInv /\ OrdersInv /\ WhereInv

-----------------------------------------------------------------------------
(* What the actions do to the links.                                       *)

LEMMA FourLinks ==
  /\ Links = {"fromDb", "down", "up", "toDb"}
  /\ "fromDb" \in Links /\ "down" \in Links /\ "up" \in Links /\ "toDb" \in Links
  BY WireAssumption

LEMMA CatalogueType ==
  /\ N \in Nat /\ \A i \in 1 .. N : Catalogue[i] \in Product
<1>1. Catalogue \in Seq(Product)
  BY WireAssumption
<1> QED BY <1>1, ElementOfSeq DEF N

\* A step keeps whole messages on links if it does to each what one may do.
LEMMA LinkStep ==
  ASSUME LinkInv, LinkTypes', cpc = "over" => cpc' = "over",
         \A l \in Links : Stays(l) \/ Takes(l) \/ (\E data : Puts(l, data))
                            \/ (l = "up" /\ Loses(l) /\ cpc' = "over")
  PROVE  LinkInv'
<1> SUFFICES ASSUME NEW l \in Links
             PROVE  (FramedLink(l) \/ (l = "up" /\ cpc = "over" /\ out["up"] = <<>>))'
  BY DEF LinkInv
<1>1. FramedLink(l) \/ (l = "up" /\ cpc = "over" /\ out["up"] = <<>>)
  BY DEF LinkInv
<1>2. CASE Stays(l)
  BY <1>1, <1>2 DEF Stays
<1>3. CASE Takes(l)
  BY <1>1, <1>3 DEF Takes
<1>4. CASE \E data : Puts(l, data)
  BY <1>4 DEF Puts
<1>5. CASE l = "up" /\ Loses(l) /\ cpc' = "over"
  BY <1>5 DEF Loses
<1> QED BY <1>2, <1>3, <1>4, <1>5

LEMMA DbSendLinks ==
  ASSUME IInv, DbSendProduct
  PROVE  LinkInv' /\ Puts("fromDb", productSerialize(Catalogue[listed + 1])) /\ OthersStay("fromDb")
<1> DEFINE data == productSerialize(Catalogue[listed + 1])
<1>1. data \in Seq(Byte) /\ data # <<>>
  <2>1. listed \in 0 .. N /\ listed < N
    BY DEF IInv, ListInv, DbSendProduct
  <2>2. Catalogue[listed + 1] \in Product
    BY <2>1, CatalogueType
  <2> QED BY <2>2, ProductSurvives
<1>2. "fromDb" \in Links /\ LinkTypes /\ FramedLink("fromDb")
  BY FourLinks DEF IInv, LinkInv
<1>3. Send("fromDb", data) /\ UNCHANGED <<pipe, in, got>> /\ UNCHANGED cpc
  BY DEF DbSendProduct, clientVars
<1> HIDE DEF data
<1>4. LinkTypes' /\ Puts("fromDb", data) /\ OthersStay("fromDb")
  BY <1>1, <1>2, <1>3, SendAction
<1>5. LinkInv'
  BY <1>3, <1>4, LinkStep DEF OthersStay, IInv
<1> QED BY <1>4, <1>5 DEF data

LEMMA TakeLinks ==
  ASSUME IInv, NEW l \in Links, Take(l), UNCHANGED <<out, pipe>>, cpc = "over" => cpc' = "over"
  PROVE  LinkInv' /\ Takes(l) /\ OthersStay(l) /\ Message(l) \in Data
<1>1. LinkTypes' /\ Takes(l) /\ OthersStay(l) /\ Message(l) \in Data
  BY TakeAction DEF IInv, LinkInv
<1>2. LinkInv'
  BY <1>1, LinkStep DEF OthersStay, IInv
<1> QED BY <1>1, <1>2

LEMMA ForwardLinks ==
  ASSUME IInv, NEW l \in Links, NEW k \in Links \ {"up"}, l # k, Forward(l, k), Message(l) # <<>>
  PROVE  LinkInv' /\ Takes(l) /\ Puts(k, Message(l)) /\ \A m \in Links \ {l, k} : Stays(m)
<1>1. LinkTypes /\ FramedLink(k)
  BY DEF IInv, LinkInv
<1>2. Take(l) /\ Send(k, Message(l)) /\ UNCHANGED pipe /\ UNCHANGED cpc
  BY DEF Forward, clientVars
<1>3. Message(l) \in Seq(Byte)
  BY <1>1, <1>2, TakeBytes DEF Data
<1>4. LinkTypes' /\ Takes(l) /\ Puts(k, Message(l)) /\ \A m \in Links \ {l, k} : Stays(m)
  BY <1>1, <1>2, <1>3, ForwardAction
<1>5. LinkInv'
  BY <1>2, <1>4, LinkStep DEF IInv
<1> QED BY <1>4, <1>5

LEMMA TransferLinks ==
  ASSUME IInv, NEW l \in Links, Transfer(l)
  PROVE  LinkInv' /\ \A m \in Links : Stays(m)
<1>1. LinkTypes' /\ \A m \in Links : Stays(m)
  <2>1. CASE Write(l)
    BY <2>1, WriteAction DEF IInv, LinkInv
  <2>2. CASE Read(l)
    BY <2>2, ReadAction DEF IInv, LinkInv
  <2> QED BY <2>1, <2>2 DEF Transfer
<1>2. UNCHANGED cpc
  BY DEF Transfer, clientVars
<1>3. LinkInv'
  BY <1>1, <1>2, LinkStep DEF IInv
<1> QED BY <1>1, <1>3

LEMMA KillLinks ==
  ASSUME IInv, Kill
  PROVE  LinkInv' /\ Loses("up") /\ OthersStay("up")
<1>1. "up" \in Links /\ LinkTypes /\ FramedLink("up")
  BY FourLinks DEF IInv, LinkInv, Kill
<1>2. Break("up") /\ UNCHANGED <<pipe, in, got>> /\ cpc' = "over"
  BY DEF Kill
<1>3. LinkTypes' /\ Loses("up") /\ OthersStay("up")
  BY <1>1, <1>2, BreakAction
<1>4. LinkInv'
  BY <1>2, <1>3, LinkStep DEF OthersStay, IInv
<1> QED BY <1>3, <1>4

LEMMA SameLinks ==
  ASSUME IInv, UNCHANGED linkVars, cpc = "over" => cpc' = "over"
  PROVE  LinkInv' /\ \A m \in Links : Stays(m)
<1>1. UNCHANGED out /\ UNCHANGED pipe /\ UNCHANGED in /\ UNCHANGED got
  BY DEF linkVars
<1>2. \A m \in Links : Stays(m)
  BY <1>1, LeftAlone
<1>3. LinkTypes'
  BY <1>1 DEF IInv, LinkInv, LinkTypes
<1>4. LinkInv'
  BY <1>2, <1>3, LinkStep DEF IInv
<1> QED BY <1>2, <1>4

-----------------------------------------------------------------------------
(* Queues.                                                                 *)

LEMMA QueueType ==
  ASSUME LinkTypes, NEW l \in Links
  PROVE  Queue(l) \in Seq(Data)
  BY LinkTypesAt

LEMMA NextQueueType ==
  ASSUME LinkInv', NEW l \in Links
  PROVE  Queue(l)' \in Seq(Data)
<1>1. LinkBytes(in'[l], pipe'[l], out'[l])
  BY DEF LinkInv, LinkTypes, LinkBytes
<1> QED BY <1>1, WaysType DEF Queue

\* A message that was put before the others.
LEMMA HeadIs ==
  ASSUME NEW m, NEW r \in Seq(Data), NEW q \in Seq(Data), q = <<m>> \o r
  PROVE  /\ Len(q) = Len(r) + 1 /\ Len(r) \in Nat /\ q[1] = m /\ q # <<>>
         /\ \A i \in 1 .. Len(r) : q[i + 1] = r[i]
         /\ Len(r) = 0 => r = <<>>
  OBVIOUS

\* A message that was put after the others.
LEMMA LastIs ==
  ASSUME NEW m \in Data, NEW r \in Seq(Data), NEW q, q = Append(r, m)
  PROVE  /\ q \in Seq(Data) /\ Len(q) = Len(r) + 1 /\ Len(r) \in Nat /\ q[Len(q)] = m /\ q # <<>>
         /\ \A i \in 1 .. Len(r) : q[i] = r[i]
  OBVIOUS

LEMMA OnlyOne ==
  ASSUME NEW m, NEW r \in Seq(Data), NEW q \in Seq(Data), q = <<m>> \o r, NEW a, q = <<a>>
  PROVE  m = a /\ r = <<>>
<1>1. Len(q) = 1 /\ q[1] = a
  OBVIOUS
<1>2. Len(q) = Len(r) + 1 /\ Len(r) \in Nat /\ q[1] = m /\ (Len(r) = 0 => r = <<>>)
  BY HeadIs
<1> QED BY <1>1, <1>2

LEMMA SerializedType ==
  ASSUME NEW a \in Nat, NEW b \in 0 .. N, a <= b
  PROVE  /\ Serialized(a, b) \in Seq(Data) /\ Len(Serialized(a, b)) = b - a
         /\ \A i \in 1 .. b - a : Serialized(a, b)[i] = productSerialize(Catalogue[a + i])
<1>1. b - a \in Nat
  OBVIOUS
<1>2. ASSUME NEW i \in 1 .. b - a PROVE productSerialize(Catalogue[a + i]) \in Data
  <2>1. a + i \in 1 .. N
    BY CatalogueType
  <2> QED BY <2>1, CatalogueType, ProductSurvives DEF Data
<1>3. Serialized(a, b) \in [1 .. b - a -> Data]
  BY <1>2 DEF Serialized
<1> HIDE DEF Serialized
<1>4. Serialized(a, b) \in Seq(Data) /\ Len(Serialized(a, b)) = b - a
  BY <1>1, <1>3
<1>5. \A i \in 1 .. b - a : Serialized(a, b)[i] = productSerialize(Catalogue[a + i])
  BY DEF Serialized
<1> QED BY <1>4, <1>5

LEMMA SerializedNone ==
  ASSUME NEW a \in 0 .. N
  PROVE  Serialized(a, a) = <<>>
<1>1. Serialized(a, a) \in Seq(Data) /\ Len(Serialized(a, a)) = a - a
  BY SerializedType
<1> QED BY <1>1

\* The first of the products on their way.
LEMMA SerializedFirst ==
  ASSUME NEW a \in Nat, NEW b \in 0 .. N, a <= b, NEW m, NEW r \in Seq(Data), Serialized(a, b) = <<m>> \o r
  PROVE  a < b /\ m = productSerialize(Catalogue[a + 1]) /\ r = Serialized(a + 1, b)
<1> DEFINE q == Serialized(a, b)
<1>1. /\ q \in Seq(Data) /\ Len(q) = b - a
      /\ \A i \in 1 .. b - a : q[i] = productSerialize(Catalogue[a + i])
  BY SerializedType
<1>2. q = <<m>> \o r
  OBVIOUS
<1> HIDE DEF q
<1>3. /\ Len(q) = Len(r) + 1 /\ Len(r) \in Nat /\ q[1] = m
      /\ \A i \in 1 .. Len(r) : q[i + 1] = r[i]
  BY <1>1, <1>2, HeadIs
<1>4. a < b /\ Len(r) = b - (a + 1) /\ 1 \in 1 .. b - a
  <2>1. ASSUME NEW n \in Nat, NEW k \in Nat, k = b - a, k = n + 1
        PROVE  a < b /\ n = b - (a + 1) /\ 1 \in 1 .. b - a
    BY <2>1
  <2>2. Len(q) \in Nat
    BY <1>1
  <2> QED BY <1>1, <1>3, <2>1, <2>2
<1>5. a + 1 \in Nat /\ a + 1 <= b
  BY <1>4
<1>6. /\ Serialized(a + 1, b) \in Seq(Data) /\ Len(Serialized(a + 1, b)) = b - (a + 1)
      /\ \A i \in 1 .. b - (a + 1) : Serialized(a + 1, b)[i] = productSerialize(Catalogue[(a + 1) + i])
  BY <1>5, SerializedType
<1>7. ASSUME NEW i \in 1 .. Len(r) PROVE r[i] = Serialized(a + 1, b)[i]
  <2>1. i + 1 \in 1 .. b - a /\ a + (i + 1) = (a + 1) + i /\ i \in 1 .. b - (a + 1)
    BY <1>4
  <2> QED BY <1>1, <1>3, <1>6, <2>1
<1>8. r = Serialized(a + 1, b)
  <2> DEFINE t == Serialized(a + 1, b)
  <2>1. t \in Seq(Data) /\ Len(t) = Len(r) /\ \A i \in 1 .. Len(r) : r[i] = t[i]
    BY <1>4, <1>6, <1>7
  <2> HIDE DEF t
  <2>2. t = r
    BY <2>1
  <2> QED BY <2>2 DEF t
<1> QED BY <1>1, <1>3, <1>4, <1>8

\* One more product is sent.
LEMMA SerializedMore ==
  ASSUME NEW a \in Nat, NEW b \in 0 .. N, a <= b, b < N
  PROVE  Append(Serialized(a, b), productSerialize(Catalogue[b + 1])) = Serialized(a, b + 1)
<1> DEFINE m == productSerialize(Catalogue[b + 1])
           r == Serialized(a, b)
           t == Serialized(a, b + 1)
           q == Append(r, m)
<1>1. b + 1 \in 0 .. N /\ a <= b + 1 /\ b + 1 \in 1 .. N
  BY CatalogueType
<1>2. m \in Data
  BY <1>1, CatalogueType, ProductSurvives DEF Data
<1>3. r \in Seq(Data) /\ Len(r) = b - a /\ \A i \in 1 .. b - a : r[i] = productSerialize(Catalogue[a + i])
  BY SerializedType
<1>4. /\ t \in Seq(Data) /\ Len(t) = (b + 1) - a
      /\ \A i \in 1 .. (b + 1) - a : t[i] = productSerialize(Catalogue[a + i])
  BY <1>1, SerializedType
<1>5. m = productSerialize(Catalogue[b + 1]) /\ q = Append(r, m)
  OBVIOUS
<1> HIDE DEF m, r, t, q
<1>6. /\ q \in Seq(Data) /\ Len(q) = Len(r) + 1 /\ q[Len(q)] = m
      /\ \A i \in 1 .. Len(r) : q[i] = r[i]
  BY <1>2, <1>3, <1>5, LastIs
<1>7. Len(q) = (b + 1) - a
  BY <1>3, <1>6
<1>8. ASSUME NEW i \in 1 .. Len(q) PROVE q[i] = t[i]
  <2>1. CASE i = Len(q)
    <3>1. a + i = b + 1 /\ i \in 1 .. (b + 1) - a
      BY <1>7, <2>1
    <3> QED BY <1>4, <1>5, <1>6, <2>1, <3>1
  <2>2. CASE i # Len(q)
    <3>1. i \in 1 .. b - a /\ i \in 1 .. (b + 1) - a
      BY <1>7, <2>2
    <3> QED BY <1>3, <1>4, <1>6, <3>1
  <2> QED BY <2>1, <2>2
<1>9. q = t
  BY <1>4, <1>6, <1>7, <1>8
<1> QED BY <1>5, <1>9 DEF m, r, t

-----------------------------------------------------------------------------
(* The list of products.                                                   *)

LEMMA SameList ==
  ASSUME ListInv, UNCHANGED <<listed, serverProducts, served>>, Queue("fromDb")' = Queue("fromDb")
  PROVE  ListInv'
  BY DEF ListInv

LEMMA SameClient ==
  ASSUME ClientInv, UNCHANGED <<products, cpc, served>>, Queue("down")' = Queue("down")
  PROVE  ClientInv'
  BY DEF ClientInv

LEMMA SameOrders ==
  ASSUME OrdersInv, UNCHANGED <<order, verified>>
  PROVE  OrdersInv'
  BY DEF OrdersInv

\* Where the order is depends on the links that it may be on.
LEMMA SameWhere ==
  ASSUME WhereInv, UNCHANGED <<order, verified, stored, cpc>>,
         AllRead' <=> AllRead,
         Queue("up")' = Queue("up"), Queue("toDb")' = Queue("toDb"), Queue("fromDb")' = Queue("fromDb"),
         Queue("down")' = Queue("down")
  PROVE  WhereInv'
<1>1. /\ Empty("up")' <=> Empty("up")
      /\ Empty("toDb")' <=> Empty("toDb")
      /\ Empty("fromDb")' <=> Empty("fromDb")
      /\ Empty("down")' <=> Empty("down")
  BY DEF Empty
<1>2. /\ Holds("up", order)' <=> Holds("up", order)
      /\ Holds("toDb", order)' <=> Holds("toDb", order)
      /\ Holds("fromDb", verified)' <=> Holds("fromDb", verified)
      /\ Holds("down", verified)' <=> Holds("down", verified)
  BY DEF Holds
<1>3. /\ Nowhere' <=> Nowhere
      /\ Submitted' <=> Submitted
      /\ GoingDown' <=> GoingDown
  BY <1>1, <1>2 DEF Nowhere, Submitted, GoingUp, GoingIn, InTables, GoingOut, GoingDown, Addressed
<1> QED BY <1>1, <1>3 DEF WhereInv

LEMMA AllServed ==
  ASSUME ListInv, served = N
  PROVE  AllRead /\ listed = N
  BY CatalogueType DEF ListInv, AllRead

\* Each action keeps the invariant.
LEMMA DbSendStep ==
  ASSUME IInv, DbSendProduct
  PROVE  IInv'
<1>1. LinkInv' /\ Puts("fromDb", productSerialize(Catalogue[listed + 1])) /\ OthersStay("fromDb")
  BY DbSendLinks
<1>2. /\ Queue("fromDb")' = Append(Queue("fromDb"), productSerialize(Catalogue[listed + 1]))
      /\ Queue("up")' = Queue("up") /\ Queue("toDb")' = Queue("toDb") /\ Queue("down")' = Queue("down")
  BY <1>1, FourLinks DEF Puts, OthersStay, Stays
<1>3. /\ listed < N /\ listed' = listed + 1
      /\ UNCHANGED <<serverProducts, served, products, cpc, order, verified, stored>>
  BY DEF DbSendProduct, clientVars, serverVars
<1>4. /\ listed \in 0 .. N /\ Len(serverProducts) \in Nat /\ Len(serverProducts) <= listed
      /\ N \in Nat
  BY CatalogueType DEF IInv, ListInv
<1>5. Len(serverProducts) < N
  BY <1>3, <1>4
<1>6. ListInv'
  <2>1. Queue("fromDb") = Serialized(Len(serverProducts), listed)
    BY <1>5 DEF IInv, ListInv
  <2>2. Queue("fromDb")' = Serialized(Len(serverProducts), listed + 1)
    BY <1>2, <1>3, <1>4, <2>1, SerializedMore
  <2>3. listed + 1 \in 0 .. N /\ Len(serverProducts) <= listed + 1
    BY <1>3, <1>4
  <2> QED BY <1>3, <2>2, <2>3 DEF IInv, ListInv
<1>7. ClientInv'
  BY <1>2, <1>3, SameClient DEF IInv
<1>8. OrdersInv'
  BY <1>3, SameOrders DEF IInv
<1>9. WhereInv'
  <2>1. ~ AllRead /\ ~ AllRead'
    BY <1>3, <1>4, <1>5 DEF AllRead
  <2>2. ~ Submitted /\ ~ GoingDown
    BY <2>1 DEF Submitted, GoingUp, GoingIn, InTables, GoingOut, GoingDown
  <2>3. Nowhere => Nowhere'
    BY <1>2, <1>3, <2>1 DEF Nowhere, Empty
  <2>4. Empty("down")' <=> Empty("down")
    BY <1>2 DEF Empty
  <2> QED BY <1>3, <2>2, <2>3, <2>4 DEF IInv, WhereInv
<1> QED BY <1>1, <1>6, <1>7, <1>8, <1>9 DEF IInv

LEMMA ReadStep ==
  ASSUME IInv, ReadProduct
  PROVE  IInv'
<1> DEFINE n == Len(serverProducts)
           m == Message("fromDb")
<1>1. /\ n < N /\ Take("fromDb") /\ UNCHANGED out /\ UNCHANGED pipe
      /\ serverProducts' = Append(serverProducts, productUnserialize(m))
      /\ UNCHANGED <<listed, served, products, cpc, order, verified, stored>>
  BY DEF ReadProduct, clientVars, dbVars
<1>2. LinkInv' /\ Takes("fromDb") /\ OthersStay("fromDb") /\ m \in Data
  BY <1>1, FourLinks, TakeLinks
<1>3. /\ Queue("fromDb") = <<m>> \o Queue("fromDb")'
      /\ Queue("up")' = Queue("up") /\ Queue("toDb")' = Queue("toDb") /\ Queue("down")' = Queue("down")
  BY <1>2, FourLinks DEF Takes, OthersStay, Stays
<1>4. Queue("fromDb")' \in Seq(Data)
  BY <1>2, FourLinks, NextQueueType
<1>5. /\ listed \in 0 .. N /\ n \in Nat /\ n <= listed /\ N \in Nat
      /\ serverProducts \in Seq(Product)
  BY CatalogueType DEF IInv, ListInv
<1>6. Queue("fromDb") = Serialized(n, listed)
  BY <1>1 DEF IInv, ListInv
<1> HIDE DEF m, n
<1>7. n < listed /\ m = productSerialize(Catalogue[n + 1]) /\ Queue("fromDb")' = Serialized(n + 1, listed)
  <2>1. PICK r \in Seq(Data) : Queue("fromDb")' = r
    BY <1>4
  <2>2. n \in Nat /\ listed \in 0 .. N /\ n <= listed
    BY <1>5
  <2>3. Serialized(n, listed) = <<m>> \o r
    BY <1>3, <1>6, <2>1
  <2>4. n < listed /\ m = productSerialize(Catalogue[n + 1]) /\ r = Serialized(n + 1, listed)
    BY <2>2, <2>3, SerializedFirst
  <2> QED BY <2>1, <2>4
<1>8. productUnserialize(m) = Catalogue[n + 1] /\ Catalogue[n + 1] \in Product
  <2>1. n + 1 \in 1 .. N
    BY <1>1, <1>5
  <2>2. Catalogue[n + 1] \in Product
    BY <2>1, CatalogueType
  <2> QED BY <1>7, <2>2, ProductSurvives
<1>9. /\ serverProducts' \in Seq(Product) /\ Len(serverProducts') = n + 1
      /\ \A i \in 1 .. n : serverProducts'[i] = serverProducts[i]
      /\ serverProducts'[n + 1] = Catalogue[n + 1]
  BY <1>1, <1>5, <1>8 DEF n
<1>10. ListInv'
  <2>1. n + 1 <= listed
    BY <1>5, <1>7
  <2>2. \A i \in 1 .. n + 1 : serverProducts'[i] = Catalogue[i]
    <3> SUFFICES ASSUME NEW i \in 1 .. n + 1 PROVE serverProducts'[i] = Catalogue[i]
      OBVIOUS
    <3>1. CASE i = n + 1
      BY <1>9, <3>1
    <3>2. CASE i # n + 1
      <4>1. i \in 1 .. n
        BY <1>5, <3>2
      <4>2. serverProducts[i] = Catalogue[i]
        BY <4>1 DEF IInv, ListInv, n
      <4> QED BY <1>9, <4>1, <4>2
    <3> QED BY <3>1, <3>2
  <2>3. served \in 0 .. N /\ ~ (served > 0)
    BY <1>1, <1>5 DEF IInv, ListInv, n
  <2> QED BY <1>1, <1>5, <1>7, <1>9, <2>1, <2>2, <2>3 DEF ListInv
<1>11. ClientInv'
  BY <1>1, <1>3, SameClient DEF IInv
<1>12. OrdersInv'
  BY <1>1, SameOrders DEF IInv
<1>13. WhereInv'
  <2>1. ~ AllRead
    BY <1>1, <1>5 DEF AllRead, n
  <2>2. ~ Submitted /\ ~ GoingDown
    BY <2>1 DEF Submitted, GoingUp, GoingIn, InTables, GoingOut, GoingDown
  <2>3. AllRead' => Empty("fromDb")'
    <3> SUFFICES ASSUME Len(serverProducts') = N PROVE Queue("fromDb")' = <<>>
      BY DEF AllRead, Empty
    <3>1. n + 1 = N /\ listed = N
      BY <1>5, <1>7, <1>9
    <3>2. N \in 0 .. N
      BY <1>5
    <3>3. Serialized(N, N) = <<>>
      BY <3>2, SerializedNone
    <3> QED BY <1>7, <3>1, <3>3
  <2>4. Nowhere => Nowhere'
    BY <1>1, <1>3, <2>3 DEF Nowhere, Empty
  <2>5. Empty("down")' <=> Empty("down")
    BY <1>3 DEF Empty
  <2> QED BY <1>1, <2>2, <2>4, <2>5 DEF IInv, WhereInv
<1> QED BY <1>2, <1>10, <1>11, <1>12, <1>13 DEF IInv

LEMMA SendLinks ==
  ASSUME IInv, SendProduct
  PROVE  /\ LinkInv' /\ Puts("down", productSerialize(serverProducts[served + 1])) /\ OthersStay("down")
         /\ serverProducts[served + 1] = Catalogue[served + 1]
         /\ productSerialize(serverProducts[served + 1]) \in Data
<1> DEFINE data == productSerialize(serverProducts[served + 1])
<1>1. /\ AllRead /\ served < N /\ Send("down", data) /\ UNCHANGED cpc
      /\ UNCHANGED pipe /\ UNCHANGED in /\ UNCHANGED got
  BY DEF SendProduct, clientVars, AllRead
<1>2. served \in 0 .. N /\ N \in Nat
  BY CatalogueType DEF IInv, ListInv
<1>3. serverProducts[served + 1] = Catalogue[served + 1] /\ data \in Seq(Byte) /\ data # <<>>
  <2>1. served + 1 \in 1 .. N
    BY <1>1, <1>2
  <2>2. serverProducts[served + 1] = Catalogue[served + 1]
    BY <1>1, <2>1 DEF IInv, ListInv, AllRead
  <2>3. Catalogue[served + 1] \in Product
    BY <2>1, CatalogueType
  <2> QED BY <2>2, <2>3, ProductSurvives
<1> HIDE DEF data
<1>4. "down" \in Links /\ LinkTypes /\ FramedLink("down")
  BY FourLinks DEF IInv, LinkInv
<1>5. LinkTypes' /\ Puts("down", data) /\ OthersStay("down")
  BY <1>1, <1>3, <1>4, SendAction
<1>6. LinkInv'
  BY <1>1, <1>5, LinkStep DEF OthersStay, IInv
<1> QED BY <1>3, <1>5, <1>6 DEF data, Data

LEMMA SendStep ==
  ASSUME IInv, SendProduct
  PROVE  IInv'
<1> DEFINE data == productSerialize(serverProducts[served + 1])
<1>1. /\ AllRead /\ served < N /\ served' = served + 1
      /\ UNCHANGED <<listed, serverProducts, products, cpc, order, verified, stored>>
  BY DEF SendProduct, clientVars, dbVars, AllRead
<1>2. served \in 0 .. N /\ N \in Nat
  BY CatalogueType DEF IInv, ListInv
<1>3. /\ LinkInv' /\ Puts("down", data) /\ OthersStay("down")
      /\ data = productSerialize(Catalogue[served + 1])
  BY SendLinks
<1> HIDE DEF data
<1>4. /\ Queue("down")' = Append(Queue("down"), data)
      /\ Queue("up")' = Queue("up") /\ Queue("toDb")' = Queue("toDb") /\ Queue("fromDb")' = Queue("fromDb")
  BY <1>3, FourLinks DEF Puts, OthersStay, Stays
<1>5. ListInv'
  <2>1. served + 1 \in 0 .. N
    BY <1>1, <1>2
  <2>2. Len(serverProducts) = N /\ ~ (N < N)
    BY <1>1, <1>2 DEF AllRead
  <2> QED BY <1>1, <2>1, <2>2 DEF IInv, ListInv
<1>6. cpc # "shop" /\ cpc # "wait"
  BY <1>1, <1>2 DEF IInv, ClientInv
<1>7. ClientInv'
  <2>1. ASSUME cpc = "list"
        PROVE  Len(products) <= served + 1 /\ Queue("down")' = Serialized(Len(products), served + 1)
    <3>1. Len(products) \in Nat /\ Len(products) <= served /\ Queue("down") = Serialized(Len(products), served)
      BY <2>1 DEF IInv, ClientInv
    <3>2. Append(Serialized(Len(products), served), productSerialize(Catalogue[served + 1]))
            = Serialized(Len(products), served + 1)
      BY <1>1, <1>2, <3>1, SerializedMore
    <3> QED BY <1>2, <1>3, <1>4, <3>1, <3>2
  <2> QED BY <1>1, <1>6, <2>1 DEF IInv, ClientInv
<1>8. OrdersInv'
  BY <1>1, SameOrders DEF IInv
<1>9. WhereInv'
  <2>1. Nowhere' <=> Nowhere
    BY <1>1, <1>4 DEF Nowhere, Empty, AllRead
  <2>2. Submitted' <=> Submitted
    BY <1>1, <1>4 DEF Submitted, GoingUp, GoingIn, InTables, GoingOut, Empty, Holds, AllRead,
                         Addressed
  <2> QED BY <1>1, <1>6, <2>1, <2>2 DEF IInv, WhereInv
<1> QED BY <1>3, <1>5, <1>7, <1>8, <1>9 DEF IInv

LEMMA ReceiveStep ==
  ASSUME IInv, ReceiveProduct
  PROVE  IInv'
<1> DEFINE n == Len(products)
           m == Message("down")
<1>1. /\ cpc = "list" /\ Take("down") /\ UNCHANGED out /\ UNCHANGED pipe
      /\ products' = Append(products, productUnserialize(m))
      /\ cpc' = IF Len(products') = N THEN "shop" ELSE "list"
      /\ UNCHANGED <<listed, serverProducts, served, order, verified, stored>>
  BY DEF ReceiveProduct, serverVars, dbVars
<1>2. LinkInv' /\ Takes("down") /\ OthersStay("down") /\ m \in Data
  BY <1>1, FourLinks, TakeLinks
<1>3. /\ Queue("down") = <<m>> \o Queue("down")'
      /\ Queue("up")' = Queue("up") /\ Queue("toDb")' = Queue("toDb") /\ Queue("fromDb")' = Queue("fromDb")
  BY <1>2, FourLinks DEF Takes, OthersStay, Stays
<1>4. Queue("down")' \in Seq(Data)
  BY <1>2, FourLinks, NextQueueType
<1>5. /\ served \in 0 .. N /\ n \in Nat /\ n <= served /\ N \in Nat
      /\ products \in Seq(Product) /\ Queue("down") = Serialized(n, served)
      /\ \A i \in 1 .. n : products[i] = Catalogue[i]
  BY <1>1, CatalogueType DEF IInv, ListInv, ClientInv
<1> HIDE DEF m, n
<1>6. n < served /\ m = productSerialize(Catalogue[n + 1]) /\ Queue("down")' = Serialized(n + 1, served)
  <2>1. PICK r \in Seq(Data) : Queue("down")' = r
    BY <1>4
  <2>2. n \in Nat /\ served \in 0 .. N /\ n <= served
    BY <1>5
  <2>3. Serialized(n, served) = <<m>> \o r
    BY <1>3, <1>5, <2>1
  <2>4. n < served /\ m = productSerialize(Catalogue[n + 1]) /\ r = Serialized(n + 1, served)
    BY <2>2, <2>3, SerializedFirst
  <2> QED BY <2>1, <2>4
<1>7. productUnserialize(m) = Catalogue[n + 1] /\ Catalogue[n + 1] \in Product
  <2>1. n + 1 \in 1 .. N
    BY <1>5, <1>6
  <2>2. Catalogue[n + 1] \in Product
    BY <2>1, CatalogueType
  <2> QED BY <1>6, <2>2, ProductSurvives
<1>8. /\ products' \in Seq(Product) /\ Len(products') = n + 1
      /\ \A i \in 1 .. n : products'[i] = products[i]
      /\ products'[n + 1] = Catalogue[n + 1]
  BY <1>1, <1>5, <1>7 DEF n
<1>9. \A i \in 1 .. n + 1 : products'[i] = Catalogue[i]
  <2> SUFFICES ASSUME NEW i \in 1 .. n + 1 PROVE products'[i] = Catalogue[i]
    OBVIOUS
  <2>1. CASE i = n + 1
    BY <1>8, <2>1
  <2>2. CASE i # n + 1
    <3>1. i \in 1 .. n
      BY <1>5, <2>2
    <3> QED BY <1>5, <1>8, <3>1
  <2> QED BY <2>1, <2>2
<1>10. n + 1 <= served /\ (n + 1 = N => served = N)
  BY <1>5, <1>6
<1>11. ClientInv'
  <2>1. CASE n + 1 = N
    <3>1. cpc' = "shop" /\ served' = N /\ Len(products') = N
      BY <1>1, <1>8, <1>10, <2>1
    <3> QED BY <1>8, <1>9, <2>1, <3>1 DEF ClientInv
  <2>2. CASE n + 1 # N
    <3>1. cpc' = "list" /\ served' = served
      BY <1>1, <1>8, <2>2
    <3> QED BY <1>6, <1>8, <1>9, <1>10, <3>1 DEF ClientInv
  <2> QED BY <2>1, <2>2
<1>12. ListInv'
  BY <1>1, <1>3, SameList DEF IInv
<1>13. OrdersInv'
  BY <1>1, SameOrders DEF IInv
<1>14. WhereInv'
  <2>1. Nowhere'
    BY <1>1, <1>3 DEF IInv, WhereInv, Nowhere, Empty, AllRead
  <2>2. CASE cpc' = "list"
    BY <2>1, <2>2 DEF WhereInv
  <2>3. CASE cpc' = "shop"
    <3>1. n + 1 = N /\ served = N /\ N \in 0 .. N
      BY <1>1, <1>5, <1>8, <1>10, <2>3
    <3>2. Queue("down")' = <<>>
      BY <1>6, <3>1, SerializedNone
    <3> QED BY <2>1, <2>3, <3>2 DEF WhereInv, Empty
  <2> QED BY <1>1, <2>2, <2>3
<1> QED BY <1>2, <1>11, <1>12, <1>13, <1>14 DEF IInv

LEMMA TransferStep ==
  ASSUME IInv, NEW l \in Links, Transfer(l)
  PROVE  IInv'
<1>1. LinkInv' /\ \A m \in Links : Stays(m)
  BY TransferLinks
<1>2. /\ Queue("up")' = Queue("up") /\ Queue("toDb")' = Queue("toDb")
      /\ Queue("fromDb")' = Queue("fromDb") /\ Queue("down")' = Queue("down")
  BY <1>1, FourLinks DEF Stays
<1>3. /\ UNCHANGED <<products, cpc, order, serverProducts, served>>
      /\ UNCHANGED <<listed, verified, stored>>
  BY DEF Transfer, clientVars, serverVars, dbVars
<1>4. AllRead' <=> AllRead
  BY <1>3 DEF AllRead
<1>5. ListInv'
  BY <1>2, <1>3, SameList DEF IInv
<1>6. ClientInv'
  BY <1>2, <1>3, SameClient DEF IInv
<1>7. OrdersInv'
  BY <1>3, SameOrders DEF IInv
<1>8. WhereInv'
  BY <1>2, <1>3, <1>4, SameWhere DEF IInv
<1> QED BY <1>1, <1>5, <1>6, <1>7, <1>8 DEF IInv

LEMMA KillStep ==
  ASSUME IInv, Kill
  PROVE  IInv'
<1>1. LinkInv' /\ Loses("up") /\ OthersStay("up")
  BY KillLinks
<1>2. /\ Queue("toDb")' = Queue("toDb")
      /\ Queue("fromDb")' = Queue("fromDb") /\ Queue("down")' = Queue("down")
  BY <1>1, FourLinks DEF OthersStay, Stays
<1>3. /\ cpc # "over" /\ cpc' = "over"
      /\ UNCHANGED <<products, order, serverProducts, served>>
      /\ UNCHANGED <<listed, verified, stored>>
  BY DEF Kill, serverVars, dbVars
<1>4. ListInv'
  BY <1>2, <1>3, SameList DEF IInv
<1>5. ClientInv'
  BY <1>3 DEF IInv, ClientInv
<1>6. OrdersInv'
  BY <1>3, SameOrders DEF IInv
<1>7. AllRead' <=> AllRead
  BY <1>3 DEF AllRead
<1>8. Empty("up") => Empty("up")'
  <2>1. Queue("up")' = Queue("up") \/ \E data \in Data : Queue("up") = Append(Queue("up")', data)
    BY <1>1 DEF Loses
  <2>2. PICK r \in Seq(Data) : Queue("up")' = r
    BY <1>1, FourLinks, NextQueueType
  <2>3. ASSUME NEW data \in Data PROVE Append(r, data) # <<>>
    BY LastIs
  <2> QED BY <2>1, <2>2, <2>3 DEF Empty
<1>9. Holds("up", order) => Empty("up")' \/ Holds("up", order)'
  <2>1. Queue("up")' = Queue("up") \/ \E data \in Data : Queue("up") = Append(Queue("up")', data)
    BY <1>1 DEF Loses
  <2>2. PICK r \in Seq(Data) : Queue("up")' = r
    BY <1>1, FourLinks, NextQueueType
  <2>3. ASSUME NEW data \in Data, NEW o, Append(r, data) = <<o>> PROVE r = <<>>
    BY <2>3
  <2> QED BY <1>3, <2>1, <2>2, <2>3 DEF Empty, Holds
<1>10. WhereInv'
  <2>1. Nowhere => Nowhere'
    BY <1>2, <1>3, <1>7, <1>8 DEF Nowhere, Empty
  <2>2. GoingUp => Nowhere' \/ GoingUp'
    BY <1>2, <1>3, <1>7, <1>9 DEF Nowhere, GoingUp, Empty, Addressed
  <2>3. GoingIn => GoingIn'
    BY <1>2, <1>3, <1>7, <1>8 DEF GoingIn, Empty, Holds, Addressed
  <2>4. InTables => InTables'
    BY <1>2, <1>3, <1>7, <1>8 DEF InTables, Empty, Addressed
  <2>5. GoingOut => GoingOut'
    BY <1>2, <1>3, <1>7, <1>8 DEF GoingOut, Empty, Holds
  <2>6. GoingDown => Nowhere'
    BY <1>2, <1>3, <1>7, <1>8 DEF GoingDown, Nowhere, Empty
  <2> QED BY <1>3, <2>1, <2>2, <2>3, <2>4, <2>5, <2>6 DEF IInv, ClientInv, WhereInv, Submitted
<1> QED BY <1>1, <1>4, <1>5, <1>6, <1>10 DEF IInv

-----------------------------------------------------------------------------
(* The order.                                                              *)

\* Where orderAdd finds a product.
LEMMA EntryOfIs ==
  ASSUME NEW o, OrderType(o), NEW product_id, NEW k, k = EntryOf(o, product_id)
  PROVE  /\ k \in 0 .. Len(o.items)
         /\ k # 0 => o.items[k].product_id = product_id
         /\ k = 0 => \A i \in 1 .. Len(o.items) : o.items[i].product_id # product_id
<1> DEFINE I == {i \in 1 .. Len(o.items) : o.items[i].product_id = product_id}
<1>1. k = IF I # {} THEN Min(I) ELSE 0
  BY DEF EntryOf, SelectInSeq
<1>2. Len(o.items) \in Nat
  BY DEF OrderType
<1>3. I \subseteq Nat
  OBVIOUS
<1>4. CASE I = {}
  <2>1. k = 0
    BY <1>1, <1>4
  <2> QED BY <1>2, <1>4, <2>1
<1>5. CASE I # {}
  <2> HIDE DEF I
  <2>1. PICK n \in I : \A m \in I : n <= m
    BY <1>3, <1>5, LeastNumber
  <2>2. Min(I) = n
    BY <1>3, <2>1, MinIs
  <2>3. k = n
    BY <1>1, <1>5, <2>2
  <2> QED BY <1>2, <2>3 DEF I
<1> QED BY <1>4, <1>5

\* orderAdd keeps an order well formed, if there is room.
LEMMA AddWellFormed ==
  ASSUME NEW o, WellFormed(o), NEW product_id \in Ids, product_id \in Int,
         NEW quantity \in Int, NEW price \in Int, ~ Full(o, product_id)
  PROVE  WellFormed(orderAdd(o, product_id, quantity, price))
<1> DEFINE k == EntryOf(o, product_id)
           e == [product_id |-> product_id, quantity |-> quantity, price |-> price]
           s == o.items
<1>1. /\ k \in 0 .. Len(s)
      /\ k # 0 => s[k].product_id = product_id
      /\ k = 0 => \A i \in 1 .. Len(s) : s[i].product_id # product_id
  BY EntryOfIs DEF WellFormed
<1>2. /\ o = [address |-> o.address, items |-> s]
      /\ o.address # NULL => o.address \in Seq(Character)
      /\ s \in Seq(Entry)
      /\ Len(s) \in Nat /\ Len(s) <= ORDER_MAX_SIZE /\ ORDER_MAX_SIZE \in Nat
      /\ \A i \in 1 .. Len(s) : s[i].product_id \in Ids
      /\ \A i, j \in 1 .. Len(s) : s[i].product_id = s[j].product_id => i = j
  BY OrderDataAssumption DEF WellFormed, OrderType
<1>3. k = 0 => Len(s) < ORDER_MAX_SIZE
  BY <1>2 DEF Full
<1>4. e \in Entry /\ e.product_id = product_id
  BY DEF Entry
<1>5. orderAdd(o, product_id, quantity, price) =
        IF k # 0 THEN [o EXCEPT !.items[k].quantity = @ + quantity] ELSE [o EXCEPT !.items = Append(@, e)]
  BY DEF orderAdd
<1> HIDE DEF k, e
<1>6. CASE k = 0
  <2> DEFINE t == Append(s, e)
             a == [address |-> o.address, items |-> t]
  <2>1. orderAdd(o, product_id, quantity, price) = a
    <3>1. [o EXCEPT !.items = Append(@, e)] = a
      BY <1>2
    <3> QED BY <1>5, <1>6, <3>1
  <2>2. /\ t \in Seq(Entry) /\ Len(t) = Len(s) + 1
        /\ \A i \in 1 .. Len(s) : t[i] = s[i]
        /\ t[Len(s) + 1] = e
    BY <1>2, <1>4
  <2>3. a = [address |-> a.address, items |-> a.items] /\ a.address = o.address /\ a.items = t
    OBVIOUS
  <2> HIDE DEF t, a
  <2>4. OrderType(a)
    BY <1>2, <2>2, <2>3 DEF OrderType
  <2>5. Len(t) <= ORDER_MAX_SIZE
    BY <1>2, <1>3, <1>6, <2>2
  <2>6. \A i \in 1 .. Len(t) : i \in 1 .. Len(s) \/ i = Len(s) + 1
    BY <1>2, <2>2
  <2>7. \A i \in 1 .. Len(t) : t[i].product_id \in Ids
    BY <1>2, <1>4, <2>2, <2>6
  <2>8. \A i, j \in 1 .. Len(t) : t[i].product_id = t[j].product_id => i = j
    BY <1>1, <1>2, <1>4, <1>6, <2>2, <2>6
  <2> QED BY <2>1, <2>3, <2>4, <2>5, <2>7, <2>8 DEF WellFormed
<1>7. CASE k # 0
  <2> DEFINE f == [s[k] EXCEPT !.quantity = @ + quantity]
             t == [s EXCEPT ![k] = f]
             a == [address |-> o.address, items |-> t]
  <2>1. k \in 1 .. Len(s) /\ s[k] \in Entry
    BY <1>1, <1>2, <1>7, ElementOfSeq
  <2>2. f \in Entry /\ f.product_id = s[k].product_id
    BY <2>1 DEF Entry
  <2>3. orderAdd(o, product_id, quantity, price) = a
    <3>1. [o EXCEPT !.items[k].quantity = @ + quantity] = a
      <4>1. [o EXCEPT !.items[k].quantity = @ + quantity] = [o EXCEPT !.items = t]
        BY Zenon
      <4>2. ASSUME NEW u PROVE [o EXCEPT !.items = u] = [address |-> o.address, items |-> u]
        BY <1>2
      <4> QED BY <4>1, <4>2
    <3> QED BY <1>5, <1>7, <3>1
  <2> HIDE DEF f
  <2>4. /\ t \in Seq(Entry) /\ Len(t) = Len(s)
        /\ \A i \in 1 .. Len(s) : t[i] = IF i = k THEN f ELSE s[i]
    BY <1>2, <2>1, <2>2
  <2>5. a = [address |-> a.address, items |-> a.items] /\ a.address = o.address /\ a.items = t
    OBVIOUS
  <2> HIDE DEF t, a
  <2>6. OrderType(a)
    BY <1>2, <2>4, <2>5 DEF OrderType
  <2>7. \A i \in 1 .. Len(s) : t[i].product_id = s[i].product_id
    BY <2>2, <2>4
  <2> QED BY <1>2, <2>3, <2>4, <2>5, <2>6, <2>7 DEF WellFormed
<1> QED BY <1>6, <1>7

LEMMA SetStockType ==
  ASSUME NEW p \in Product, NEW stock \in Int
  PROVE  productSetStock(p, stock) \in Product /\ productSetStock(p, stock).id = p.id
  BY DEF productSetStock, Product

LEMMA AddStep ==
  ASSUME IInv, NEW i \in 1 .. N, NEW num \in 1 .. Catalogue[i].stock, AddToOrder(i, num)
  PROVE  IInv'
<1> DEFINE p == products[i]
<1>1. /\ cpc = "shop" /\ ~ Full(order, p.id)
      /\ order' = orderAdd(order, p.id, num, p.price)
      /\ products' = [products EXCEPT ![i] = productSetStock(p, p.stock - num)]
      /\ UNCHANGED linkVars /\ cpc' = cpc
      /\ UNCHANGED <<serverProducts, served>> /\ UNCHANGED <<listed, verified, stored>>
  BY DEF AddToOrder, serverVars, dbVars
<1>2. /\ products \in Seq(Product) /\ served = N /\ Len(products) = N
      /\ \A j \in 1 .. N : products[j].id = Catalogue[j].id
  BY <1>1 DEF IInv, ClientInv
<1>3. p \in Product /\ p.id \in Ids /\ p.id \in Int /\ p.price \in Int /\ p.stock \in Int /\ num \in Int
  <2>1. p \in Product
    BY <1>2, ElementOfSeq
  <2>2. p.id \in Ids
    BY <1>2 DEF Ids
  <2> QED BY <2>1, <2>2 DEF Product
<1>4. WellFormed(order')
  BY <1>1, <1>3, AddWellFormed DEF IInv, OrdersInv
<1>5. OrdersInv'
  BY <1>1, <1>4 DEF IInv, OrdersInv
<1>6. LinkInv' /\ \A m \in Links : Stays(m)
  BY <1>1, SameLinks
<1>7. /\ Queue("up")' = Queue("up") /\ Queue("toDb")' = Queue("toDb")
      /\ Queue("fromDb")' = Queue("fromDb") /\ Queue("down")' = Queue("down")
  BY <1>6, FourLinks DEF Stays
<1>8. ListInv'
  BY <1>1, <1>7, SameList DEF IInv
<1>9. ClientInv'
  <2>1. p.stock - num \in Int
    BY <1>3
  <2>2. productSetStock(p, p.stock - num) \in Product /\ productSetStock(p, p.stock - num).id = p.id
    BY <1>3, <2>1, SetStockType
  <2> HIDE DEF p
  <2>3. /\ products' \in Seq(Product) /\ Len(products') = N
        /\ \A j \in 1 .. N : products'[j].id = products[j].id
    BY <1>1, <1>2, <2>2 DEF p
  <2> QED BY <1>1, <1>2, <2>3 DEF ClientInv
<1>10. WhereInv'
  BY <1>1, <1>7 DEF IInv, WhereInv, Nowhere, Empty, AllRead
<1> QED BY <1>5, <1>6, <1>8, <1>9, <1>10 DEF IInv

\* orderSetAddress keeps an order well formed.
LEMMA AddressWellFormed ==
  ASSUME NEW o, WellFormed(o), NEW address \in DeliveryAddresses
  PROVE  WellFormed(orderSetAddress(o, address)) /\ orderSetAddress(o, address).address \in Seq(Character)
<1>1. address \in Seq(Character)
  BY WireAssumption
<1> DEFINE a == [address |-> address, items |-> o.items]
<1>2. o = [address |-> o.address, items |-> o.items]
  BY DEF WellFormed, OrderType
<1>3. orderSetAddress(o, address) = a
  BY <1>2 DEF orderSetAddress
<1>4. a = [address |-> a.address, items |-> a.items] /\ a.address = address /\ a.items = o.items
  OBVIOUS
<1> HIDE DEF a
<1> QED BY <1>1, <1>3, <1>4 DEF WellFormed, OrderType

LEMMA SubmitLinks ==
  ASSUME IInv, NEW address \in DeliveryAddresses, SubmitOrder(address)
  PROVE  /\ LinkInv' /\ Puts("up", orderSerialize(order')) /\ OthersStay("up")
         /\ WellFormed(order') /\ Addressed'
<1>1. /\ cpc = "shop" /\ cpc' = "wait" /\ order' = orderSetAddress(order, address)
      /\ Send("up", orderSerialize(order'))
      /\ UNCHANGED pipe /\ UNCHANGED in /\ UNCHANGED got
  BY DEF SubmitOrder
<1>2. WellFormed(order') /\ Addressed'
  BY <1>1, AddressWellFormed DEF IInv, OrdersInv, Addressed
<1>3. PICK o : o = order'
  OBVIOUS
<1>4. orderSerialize(o) \in Seq(Byte) /\ orderSerialize(o) # <<>>
  BY <1>2, <1>3, OrderSurvives DEF WellFormed
<1>5. "up" \in Links /\ LinkTypes /\ FramedLink("up")
  BY <1>1, FourLinks DEF IInv, LinkInv
<1>6. LinkTypes' /\ Puts("up", orderSerialize(o)) /\ OthersStay("up")
  BY <1>1, <1>3, <1>4, <1>5, SendAction
<1>7. LinkInv'
  BY <1>1, <1>6, LinkStep DEF OthersStay, IInv
<1> QED BY <1>2, <1>3, <1>6, <1>7

LEMMA SubmitStep ==
  ASSUME IInv, NEW address \in DeliveryAddresses, SubmitOrder(address)
  PROVE  IInv'
<1>1. /\ LinkInv' /\ Puts("up", orderSerialize(order')) /\ OthersStay("up")
      /\ WellFormed(order') /\ Addressed'
  BY SubmitLinks
<1>2. /\ Queue("up")' = Append(Queue("up"), orderSerialize(order'))
      /\ Queue("toDb")' = Queue("toDb")
      /\ Queue("fromDb")' = Queue("fromDb") /\ Queue("down")' = Queue("down")
  BY <1>1, FourLinks DEF Puts, OthersStay, Stays
<1>3. /\ cpc = "shop" /\ cpc' = "wait" /\ products' = products
      /\ UNCHANGED <<serverProducts, served>> /\ UNCHANGED <<listed, verified, stored>>
  BY DEF SubmitOrder, serverVars, dbVars
<1>4. OrdersInv'
  BY <1>1, <1>3 DEF IInv, OrdersInv
<1>5. ListInv'
  BY <1>2, <1>3, SameList DEF IInv
<1>6. ClientInv'
  BY <1>3 DEF IInv, ClientInv
<1>7. AllRead /\ AllRead'
  <2>1. served = N /\ ListInv
    BY <1>3 DEF IInv, ClientInv
  <2>2. AllRead
    BY <2>1, AllServed
  <2> QED BY <1>3, <2>2 DEF AllRead
<1>8. Nowhere /\ Empty("down")
  BY <1>3 DEF IInv, WhereInv
<1>9. Holds("up", order)'
  <2>1. Append(<<>>, orderSerialize(order')) = <<orderSerialize(order')>>
    OBVIOUS
  <2>2. Queue("up")' = <<orderSerialize(order')>>
    BY <1>2, <1>8, <2>1 DEF Nowhere, Empty
  <2> QED BY <2>2 DEF Holds
<1>10. GoingUp' /\ Empty("down")'
  BY <1>1, <1>2, <1>3, <1>7, <1>8, <1>9 DEF GoingUp, Nowhere, Empty
<1>11. WhereInv'
  BY <1>3, <1>10 DEF WhereInv, Submitted
<1> QED BY <1>1, <1>4, <1>5, <1>6, <1>11 DEF IInv

\* What can be taken from a link with at most one message.
LEMMA TakenIs ==
  ASSUME LinkTypes, NEW l \in Links, Take(l)
  PROVE  /\ Queue(l) # <<>>
         /\ \A a : Queue(l) = <<a>> => Message(l) = a
<1>1. IsWhole(in[l]) /\ Message(l) = Body(in[l])
  BY TakeBytes
<1>2. LinkBytes(in[l], pipe[l], out[l])
  BY LinkTypesAt
<1>3. Messages[Ways(in[l], pipe[l], out[l])] = <<Body(in[l])>> \o Messages[Ways(<<>>, pipe[l], out[l])]
  BY <1>1, <1>2, TakeOne
<1>4. LinkBytes(<<>>, pipe[l], out[l])
  <2>1. <<>> \in Seq(Byte)
    OBVIOUS
  <2> QED BY <1>2, <2>1 DEF LinkBytes
<1>5. Messages[Ways(<<>>, pipe[l], out[l])] \in Seq(Data)
  BY <1>4, WaysType
<1>6. PICK r \in Seq(Data) : r = Messages[Ways(<<>>, pipe[l], out[l])]
  BY <1>5
<1>7. PICK q \in Seq(Data) : q = Queue(l)
  BY QueueType
<1>8. q = <<Message(l)>> \o r
  BY <1>1, <1>3, <1>6, <1>7 DEF Queue
<1>9. q # <<>>
  BY <1>8, HeadIs
<1>10. ASSUME NEW a, q = <<a>> PROVE Message(l) = a
  BY <1>8, <1>10, OnlyOne
<1> QED BY <1>7, <1>9, <1>10

\* The only message on a link has been taken.
LEMMA NothingLeft ==
  ASSUME LinkTypes, LinkInv', NEW l \in Links, Takes(l), NEW a, Queue(l) = <<a>>
  PROVE  Queue(l)' = <<>>
<1>1. PICK r \in Seq(Data) : r = Queue(l)'
  BY NextQueueType
<1>2. PICK q \in Seq(Data) : q = Queue(l)
  BY QueueType
<1>3. q = <<Message(l)>> \o r /\ q = <<a>>
  BY <1>1, <1>2 DEF Takes
<1>4. r = <<>>
  BY <1>3, OnlyOne
<1> QED BY <1>1, <1>4

LEMMA OrderBytes ==
  ASSUME NEW o, WellFormed(o)
  PROVE  /\ orderSerialize(o) \in Seq(Byte) /\ orderSerialize(o) # <<>>
         /\ orderUnserialize(orderSerialize(o)) = o
         /\ Append(<<>>, orderSerialize(o)) = <<orderSerialize(o)>>
<1>1. /\ orderSerialize(o) \in Seq(Byte) /\ orderSerialize(o) # <<>>
      /\ orderUnserialize(orderSerialize(o)) = o
  BY OrderSurvives DEF WellFormed
<1>2. ASSUME NEW a PROVE Append(<<>>, a) = <<a>>
  OBVIOUS
<1> QED BY <1>1, <1>2

\* An order only comes up from a client that has submitted it.
LEMMA OrderComesUp ==
  ASSUME IInv, ~ Empty("up")
  PROVE  GoingUp /\ cpc \in {"wait", "over"} /\ (cpc = "wait" => Empty("down"))
<1>1. ~ Nowhere /\ ~ GoingIn /\ ~ InTables /\ ~ GoingOut /\ ~ GoingDown
  BY DEF Nowhere, GoingIn, InTables, GoingOut, GoingDown
<1> QED BY <1>1 DEF IInv, ClientInv, WhereInv, Submitted

LEMMA OrderComesIn ==
  ASSUME IInv, ~ Empty("toDb")
  PROVE  GoingIn /\ cpc \in {"wait", "over"} /\ (cpc = "wait" => Empty("down"))
<1>1. ~ Nowhere /\ ~ GoingUp /\ ~ InTables /\ ~ GoingOut /\ ~ GoingDown
  BY DEF Nowhere, GoingUp, InTables, GoingOut, GoingDown
<1> QED BY <1>1 DEF IInv, ClientInv, WhereInv, Submitted

LEMMA OrderComesOut ==
  ASSUME IInv, AllRead, ~ Empty("fromDb")
  PROVE  GoingOut /\ cpc \in {"wait", "over"} /\ (cpc = "wait" => Empty("down"))
<1>1. ~ Nowhere /\ ~ GoingUp /\ ~ GoingIn /\ ~ InTables /\ ~ GoingDown
  BY DEF Nowhere, GoingUp, GoingIn, InTables, GoingDown
<1> QED BY <1>1 DEF IInv, ClientInv, WhereInv, Submitted

LEMMA OrderComesDown ==
  ASSUME IInv, cpc = "wait", ~ Empty("down")
  PROVE  GoingDown
  BY DEF IInv, WhereInv

LEMMA ForwardOrderLinks ==
  ASSUME IInv, ForwardOrder
  PROVE  /\ LinkInv' /\ GoingUp /\ cpc \in {"wait", "over"} /\ (cpc = "wait" => Empty("down"))
         /\ Message("up") = orderSerialize(order)
         /\ Takes("up") /\ Puts("toDb", Message("up")) /\ \A m \in Links \ {"up", "toDb"} : Stays(m)
<1>1. "up" \in Links /\ "toDb" \in Links \ {"up"} /\ LinkTypes /\ WellFormed(order)
  BY FourLinks DEF IInv, LinkInv, OrdersInv
<1>2. Forward("up", "toDb") /\ Take("up")
  BY DEF ForwardOrder, Forward
<1>3. Queue("up") # <<>>
  BY <1>1, <1>2, TakenIs
<1>4. GoingUp /\ cpc \in {"wait", "over"} /\ (cpc = "wait" => Empty("down"))
  BY <1>3, OrderComesUp DEF Empty
<1>5. Message("up") = orderSerialize(order)
  BY <1>1, <1>2, <1>4, TakenIs DEF GoingUp, Holds
<1>6. Message("up") # <<>>
  BY <1>1, <1>5, OrderBytes
<1>7. LinkInv' /\ Takes("up") /\ Puts("toDb", Message("up")) /\ \A m \in Links \ {"up", "toDb"} : Stays(m)
  BY <1>1, <1>2, <1>6, ForwardLinks
<1> QED BY <1>4, <1>5, <1>7

LEMMA ForwardOrderStep ==
  ASSUME IInv, ForwardOrder
  PROVE  IInv'
<1>1. /\ LinkInv' /\ GoingUp /\ cpc \in {"wait", "over"} /\ (cpc = "wait" => Empty("down"))
      /\ Message("up") = orderSerialize(order)
      /\ Takes("up") /\ Puts("toDb", Message("up")) /\ \A m \in Links \ {"up", "toDb"} : Stays(m)
  BY ForwardOrderLinks
<1>2. /\ Queue("toDb")' = Append(Queue("toDb"), orderSerialize(order))
      /\ Queue("fromDb")' = Queue("fromDb") /\ Queue("down")' = Queue("down")
  BY <1>1, FourLinks DEF Puts, Stays
<1>3. /\ UNCHANGED <<products, cpc, order, serverProducts, served>>
      /\ UNCHANGED <<listed, verified, stored>>
  BY DEF ForwardOrder, Forward, clientVars, serverVars, dbVars
<1>4. Queue("up")' = <<>>
  <2>1. Queue("up") = <<orderSerialize(order)>> /\ LinkTypes /\ "up" \in Links
    BY <1>1, FourLinks DEF GoingUp, Holds, IInv, LinkInv
  <2> QED BY <1>1, <2>1, NothingLeft
<1>5. Queue("toDb")' = <<orderSerialize(order)>>
  BY <1>1, <1>2, OrderBytes DEF GoingUp, Empty, IInv, OrdersInv
<1>6. ListInv'
  BY <1>2, <1>3, SameList DEF IInv
<1>7. ClientInv'
  BY <1>2, <1>3, SameClient DEF IInv
<1>8. OrdersInv'
  BY <1>3, SameOrders DEF IInv
<1>9. GoingIn' /\ (cpc = "wait" => Empty("down")')
  BY <1>1, <1>2, <1>3, <1>4, <1>5 DEF GoingUp, GoingIn, Empty, Holds, AllRead, Addressed
<1>10. WhereInv'
  BY <1>1, <1>3, <1>9 DEF WhereInv, Submitted
<1> QED BY <1>1, <1>6, <1>7, <1>8, <1>10 DEF IInv

LEMMA ForwardSubLinks ==
  ASSUME IInv, ForwardSubOrder
  PROVE  /\ LinkInv' /\ GoingOut /\ cpc \in {"wait", "over"} /\ (cpc = "wait" => Empty("down"))
         /\ Message("fromDb") = orderSerialize(verified)
         /\ Takes("fromDb") /\ Puts("down", Message("fromDb"))
         /\ \A m \in Links \ {"fromDb", "down"} : Stays(m)
<1>1. "fromDb" \in Links /\ "down" \in Links \ {"up"} /\ LinkTypes
  BY FourLinks DEF IInv, LinkInv
<1>2. Forward("fromDb", "down") /\ Take("fromDb") /\ served = N
  BY DEF ForwardSubOrder, Forward
<1>3. Queue("fromDb") # <<>>
  BY <1>1, <1>2, TakenIs
<1>4. GoingOut /\ cpc \in {"wait", "over"} /\ (cpc = "wait" => Empty("down"))
  BY <1>2, <1>3, AllServed, OrderComesOut DEF Empty, IInv
<1>5. Message("fromDb") = orderSerialize(verified)
  BY <1>1, <1>2, <1>4, TakenIs DEF GoingOut, Holds
<1>6. Message("fromDb") # <<>>
  BY <1>4, <1>5, OrderBytes DEF GoingOut
<1>7. /\ LinkInv' /\ Takes("fromDb") /\ Puts("down", Message("fromDb"))
      /\ \A m \in Links \ {"fromDb", "down"} : Stays(m)
  BY <1>1, <1>2, <1>6, ForwardLinks
<1> QED BY <1>4, <1>5, <1>7

LEMMA ForwardSubStep ==
  ASSUME IInv, ForwardSubOrder
  PROVE  IInv'
<1>1. /\ LinkInv' /\ GoingOut /\ cpc \in {"wait", "over"} /\ (cpc = "wait" => Empty("down"))
      /\ Message("fromDb") = orderSerialize(verified)
      /\ Takes("fromDb") /\ Puts("down", Message("fromDb"))
      /\ \A m \in Links \ {"fromDb", "down"} : Stays(m)
  BY ForwardSubLinks
<1>2. /\ Queue("down")' = Append(Queue("down"), orderSerialize(verified))
      /\ Queue("up")' = Queue("up") /\ Queue("toDb")' = Queue("toDb")
  BY <1>1, FourLinks DEF Puts, Stays
<1>3. /\ UNCHANGED <<products, cpc, order, serverProducts, served>>
      /\ UNCHANGED <<listed, verified, stored>>
  BY DEF ForwardSubOrder, Forward, clientVars, serverVars, dbVars
<1>4. Queue("fromDb")' = <<>>
  <2>1. Queue("fromDb") = <<orderSerialize(verified)>> /\ LinkTypes /\ "fromDb" \in Links
    BY <1>1, FourLinks DEF GoingOut, Holds, IInv, LinkInv
  <2> QED BY <1>1, <2>1, NothingLeft
<1>5. ListInv'
  <2>1. Len(serverProducts) = N /\ ~ (N < N)
    BY <1>1, CatalogueType DEF GoingOut, AllRead
  <2> QED BY <1>3, <2>1 DEF IInv, ListInv
<1>6. ClientInv'
  BY <1>1, <1>3 DEF IInv, ClientInv
<1>7. OrdersInv'
  BY <1>3, SameOrders DEF IInv
<1>8. CASE cpc = "wait"
  <2>1. Queue("down")' = <<orderSerialize(verified)>>
    BY <1>1, <1>2, <1>8, OrderBytes DEF GoingOut, Empty
  <2>2. GoingDown'
    BY <1>1, <1>2, <1>3, <1>4, <2>1 DEF GoingOut, GoingDown, Empty, Holds, AllRead
  <2>3. WhereInv'
    BY <1>3, <1>8, <2>2 DEF WhereInv
  <2> QED BY <1>1, <1>5, <1>6, <1>7, <2>3 DEF IInv
<1>9. CASE cpc = "over"
  <2>1. Nowhere'
    BY <1>1, <1>2, <1>3, <1>4 DEF GoingOut, Nowhere, Empty
  <2>2. WhereInv'
    BY <1>3, <1>9, <2>1 DEF WhereInv
  <2> QED BY <1>1, <1>5, <1>6, <1>7, <2>2 DEF IInv
<1> QED BY <1>1, <1>8, <1>9

LEMMA ReceiveSubLinks ==
  ASSUME IInv, ReceiveSubOrder
  PROVE  /\ LinkInv' /\ GoingDown
         /\ Message("down") = orderSerialize(verified) /\ order' = verified
         /\ Takes("down") /\ OthersStay("down")
<1>1. "down" \in Links /\ LinkTypes
  BY FourLinks DEF IInv, LinkInv
<1>2. /\ cpc = "wait" /\ cpc' = "shop" /\ Take("down") /\ UNCHANGED out /\ UNCHANGED pipe
      /\ order' = orderUnserialize(Message("down"))
  BY DEF ReceiveSubOrder
<1>3. Queue("down") # <<>>
  BY <1>1, <1>2, TakenIs
<1>4. GoingDown
  BY <1>2, <1>3, OrderComesDown DEF Empty
<1>5. Message("down") = orderSerialize(verified)
  BY <1>1, <1>2, <1>4, TakenIs DEF GoingDown, Holds
<1>6. order' = verified
  BY <1>2, <1>4, <1>5, OrderBytes DEF GoingDown
<1>7. LinkInv' /\ Takes("down") /\ OthersStay("down")
  BY <1>1, <1>2, TakeLinks
<1> QED BY <1>4, <1>5, <1>6, <1>7

LEMMA ReceiveSubStep ==
  ASSUME IInv, ReceiveSubOrder
  PROVE  IInv'
<1>1. /\ LinkInv' /\ GoingDown
      /\ Message("down") = orderSerialize(verified) /\ order' = verified
      /\ Takes("down") /\ OthersStay("down")
  BY ReceiveSubLinks
<1>2. Queue("up")' = Queue("up") /\ Queue("toDb")' = Queue("toDb") /\ Queue("fromDb")' = Queue("fromDb")
  BY <1>1, FourLinks DEF OthersStay, Stays
<1>3. /\ cpc = "wait" /\ cpc' = "shop" /\ products' = products
      /\ UNCHANGED <<serverProducts, served>> /\ UNCHANGED <<listed, verified, stored>>
  BY DEF ReceiveSubOrder, serverVars, dbVars
<1>4. Queue("down")' = <<>>
  <2>1. Queue("down") = <<orderSerialize(verified)>> /\ LinkTypes /\ "down" \in Links
    BY <1>1, FourLinks DEF GoingDown, Holds, IInv, LinkInv
  <2> QED BY <1>1, <2>1, NothingLeft
<1>5. ListInv'
  BY <1>2, <1>3, SameList DEF IInv
<1>6. ClientInv'
  BY <1>3 DEF IInv, ClientInv
<1>7. OrdersInv'
  BY <1>1, <1>3 DEF IInv, OrdersInv, GoingDown
<1>8. Nowhere' /\ Empty("down")'
  BY <1>1, <1>2, <1>3, <1>4 DEF GoingDown, Nowhere, Empty
<1>9. WhereInv'
  BY <1>3, <1>8 DEF WhereInv
<1> QED BY <1>1, <1>5, <1>6, <1>7, <1>9 DEF IInv

\* What place_order makes of an entry, and of an order, that asks for too much.
CutEntry(e, stock) == IF e.quantity <= stock[e.product_id] THEN e ELSE [e EXCEPT !.quantity = stock[e.product_id]]
CutOrder(o, stock) == [o EXCEPT !.items = [i \in 1 .. Len(o.items) |-> CutEntry(o.items[i], stock)]]

\* So does place_order when it cuts down quantities.
LEMMA CutWellFormed ==
  ASSUME NEW o, WellFormed(o), NEW stock \in [Ids -> Stocks]
  PROVE  WellFormed(CutOrder(o, stock))
<1> DEFINE s == o.items
           t == [i \in 1 .. Len(s) |-> CutEntry(s[i], stock)]
           a == [address |-> o.address, items |-> t]
<1>1. /\ o = [address |-> o.address, items |-> s]
      /\ o.address # NULL => o.address \in Seq(Character)
      /\ s \in Seq(Entry)
      /\ Len(s) \in Nat /\ Len(s) <= ORDER_MAX_SIZE
      /\ \A i \in 1 .. Len(s) : s[i].product_id \in Ids
      /\ \A i, j \in 1 .. Len(s) : s[i].product_id = s[j].product_id => i = j
  BY DEF WellFormed, OrderType
<1>2. ASSUME NEW e \in Entry, e.product_id \in Ids
      PROVE  CutEntry(e, stock) \in Entry /\ CutEntry(e, stock).product_id = e.product_id
  <2>1. stock[e.product_id] \in Int
    BY <1>2, WireAssumption
  <2> QED BY <1>2, <2>1 DEF CutEntry, Entry
<1>3. \A i \in 1 .. Len(s) : s[i] \in Entry
  BY <1>1, ElementOfSeq
<1>4. CutOrder(o, stock) = a
  <2>1. ASSUME NEW u PROVE [o EXCEPT !.items = u] = [address |-> o.address, items |-> u]
    BY <1>1
  <2> QED BY <2>1 DEF CutOrder
<1>5. /\ t \in Seq(Entry) /\ Len(t) = Len(s)
      /\ \A i \in 1 .. Len(s) : t[i].product_id = s[i].product_id
  <2>1. t \in [1 .. Len(s) -> Entry] /\ \A i \in 1 .. Len(s) : t[i].product_id = s[i].product_id
    BY <1>1, <1>2, <1>3
  <2> HIDE DEF t
  <2> QED BY <1>1, <2>1
<1>6. a = [address |-> a.address, items |-> a.items] /\ a.address = o.address /\ a.items = t
  OBVIOUS
<1> HIDE DEF t, a
<1>7. OrderType(a)
  BY <1>1, <1>5, <1>6 DEF OrderType
<1> QED BY <1>1, <1>4, <1>5, <1>6, <1>7 DEF WellFormed

\* The order that place_order has is the one that the customer submitted.
LEMMA PlacedOrder ==
  ASSUME IInv, NEW stock, PlaceOrder(stock)
  PROVE  /\ GoingIn /\ cpc \in {"wait", "over"} /\ (cpc = "wait" => Empty("down"))
         /\ Take("toDb") /\ pipe' = pipe
         /\ \/ verified' = order /\ stored' = order /\ out' = out
            \/ verified' = CutOrder(order, stock) /\ Send("fromDb", orderSerialize(verified')) /\ stored' = stored
<1>1. "toDb" \in Links /\ LinkTypes /\ WellFormed(order)
  BY FourLinks DEF IInv, LinkInv, OrdersInv
<1>2. Take("toDb") /\ pipe' = pipe
  BY DEF PlaceOrder
<1>3. Queue("toDb") # <<>>
  BY <1>1, <1>2, TakenIs
<1>4. GoingIn /\ cpc \in {"wait", "over"} /\ (cpc = "wait" => Empty("down"))
  BY <1>3, OrderComesIn DEF Empty
<1>5. Message("toDb") = orderSerialize(order)
  BY <1>1, <1>2, <1>4, TakenIs DEF GoingIn, Holds
<1>6. orderUnserialize(Message("toDb")) = order
  BY <1>1, <1>5, OrderBytes
<1>7. \/ verified' = order /\ stored' = order /\ out' = out
      \/ verified' = CutOrder(order, stock) /\ Send("fromDb", orderSerialize(verified')) /\ stored' = stored
  BY <1>6 DEF PlaceOrder, CutOrder, CutEntry
<1> QED BY <1>2, <1>4, <1>7

LEMMA PlaceLinks ==
  ASSUME IInv, NEW stock \in [Ids -> Stocks], PlaceOrder(stock)
  PROVE  /\ LinkInv' /\ GoingIn /\ cpc \in {"wait", "over"} /\ (cpc = "wait" => Empty("down"))
         /\ Takes("toDb") /\ WellFormed(verified')
         /\ \/ stored' = order /\ OthersStay("toDb")
            \/ /\ stored' = stored /\ Puts("fromDb", orderSerialize(verified'))
               /\ \A m \in Links \ {"toDb", "fromDb"} : Stays(m)
<1>1. /\ GoingIn /\ cpc \in {"wait", "over"} /\ (cpc = "wait" => Empty("down"))
      /\ Take("toDb") /\ pipe' = pipe
      /\ \/ verified' = order /\ stored' = order /\ out' = out
         \/ verified' = CutOrder(order, stock) /\ Send("fromDb", orderSerialize(verified')) /\ stored' = stored
  BY PlacedOrder
<1>2. "toDb" \in Links /\ "fromDb" \in Links /\ LinkTypes /\ WellFormed(order) /\ FramedLink("fromDb")
  BY FourLinks DEF IInv, LinkInv, OrdersInv
<1>3. cpc' = cpc
  BY DEF PlaceOrder, clientVars
<1>4. CASE verified' = order /\ stored' = order /\ out' = out
  <2>1. LinkInv' /\ Takes("toDb") /\ OthersStay("toDb")
    BY <1>1, <1>2, <1>3, <1>4, TakeLinks
  <2> QED BY <1>1, <1>2, <1>4, <2>1
<1>5. CASE verified' = CutOrder(order, stock) /\ Send("fromDb", orderSerialize(verified')) /\ stored' = stored
  <2>1. PICK v : v = verified'
    OBVIOUS
  <2>2. WellFormed(v)
    BY <1>2, <1>5, <2>1, CutWellFormed
  <2>3. orderSerialize(v) \in Seq(Byte) /\ orderSerialize(v) # <<>> /\ Send("fromDb", orderSerialize(v))
    BY <1>5, <2>1, <2>2, OrderBytes
  <2>4. /\ LinkTypes' /\ Takes("toDb") /\ Puts("fromDb", orderSerialize(v))
        /\ \A m \in Links \ {"toDb", "fromDb"} : Stays(m)
    BY <1>1, <1>2, <2>3, ForwardAction
  <2>5. LinkInv'
    BY <1>3, <2>4, LinkStep DEF IInv
  <2> QED BY <1>1, <1>5, <2>1, <2>2, <2>4, <2>5
<1> QED BY <1>1, <1>4, <1>5

LEMMA PlaceStep ==
  ASSUME IInv, NEW stock \in [Ids -> Stocks], PlaceOrder(stock)
  PROVE  IInv'
<1>1. /\ LinkInv' /\ GoingIn /\ cpc \in {"wait", "over"} /\ (cpc = "wait" => Empty("down"))
      /\ Takes("toDb") /\ WellFormed(verified')
      /\ \/ stored' = order /\ OthersStay("toDb")
         \/ /\ stored' = stored /\ Puts("fromDb", orderSerialize(verified'))
            /\ \A m \in Links \ {"toDb", "fromDb"} : Stays(m)
  BY PlaceLinks
<1>2. UNCHANGED <<products, cpc, order, serverProducts, served>> /\ UNCHANGED listed
  BY DEF PlaceOrder, clientVars, serverVars
<1>3. Queue("up")' = Queue("up") /\ Queue("down")' = Queue("down")
  BY <1>1, FourLinks DEF OthersStay, Stays
<1>4. Queue("toDb")' = <<>>
  <2>1. Queue("toDb") = <<orderSerialize(order)>> /\ LinkTypes /\ "toDb" \in Links
    BY <1>1, FourLinks DEF GoingIn, Holds, IInv, LinkInv
  <2> QED BY <1>1, <2>1, NothingLeft
<1>5. ListInv'
  <2>1. Len(serverProducts) = N /\ ~ (N < N)
    BY <1>1, CatalogueType DEF GoingIn, AllRead
  <2> QED BY <1>2, <2>1 DEF IInv, ListInv
<1>6. ClientInv'
  BY <1>2, <1>3, SameClient DEF IInv
<1>7. OrdersInv'
  BY <1>1, <1>2 DEF IInv, OrdersInv
<1>8. InTables' \/ GoingOut'
  <2>1. CASE stored' = order /\ OthersStay("toDb")
    <3>1. Queue("fromDb")' = Queue("fromDb")
      BY <2>1, FourLinks DEF OthersStay, Stays
    <3> QED BY <1>1, <1>2, <1>3, <1>4, <2>1, <3>1 DEF GoingIn, InTables, Empty, AllRead, Addressed
  <2>2. CASE stored' = stored /\ Puts("fromDb", orderSerialize(verified'))
    <3>1. Queue("fromDb")' = <<orderSerialize(verified')>>
      BY <1>1, <2>2, OrderBytes DEF GoingIn, Empty, Puts
    <3> QED BY <1>1, <1>2, <1>3, <1>4, <2>2, <3>1 DEF GoingIn, GoingOut, Empty, Holds, AllRead
  <2> QED BY <1>1, <2>1, <2>2
<1>9. Empty("down")' <=> Empty("down")
  BY <1>3 DEF Empty
<1>10. WhereInv'
  BY <1>1, <1>2, <1>8, <1>9 DEF WhereInv, Submitted
<1> QED BY <1>1, <1>5, <1>6, <1>7, <1>10 DEF IInv

-----------------------------------------------------------------------------
(* The theorems.                                                           *)

LEMMA InitInv ==
  ASSUME Init
  PROVE  IInv /\ \A l \in Links : Queue(l) = <<>> /\ got[l] = NULL
<1>1. /\ out = [l \in Links |-> <<>>] /\ pipe = [l \in Links |-> <<>>] /\ in = [l \in Links |-> <<>>]
      /\ got = [l \in Links |-> NULL]
      /\ listed = 0 /\ serverProducts = <<>> /\ served = 0 /\ products = <<>> /\ cpc = "list"
      /\ order = orderNew /\ verified = NULL /\ stored = NULL
  BY DEF Init, FramingInit
<1>2. <<>> \in Seq(Byte) /\ <<>> \in Seq(Seq(Byte)) /\ <<>> \in Seq(Product) /\ Len(<<>>) = 0
  OBVIOUS
<1>3. Portions(<<>>)
  BY DEF Portions
<1>4. LinkTypes
  BY <1>1, <1>2, <1>3 DEF LinkTypes
<1>5. Ways(<<>>, <<>>, <<>>) = <<>>
  <2>1. FlattenSeq(<<>>) = <<>>
    BY <1>3, PortionsFlat
  <2>2. <<>> \o (<<>> \o <<>>) = <<>>
    OBVIOUS
  <2> QED BY <2>1, <2>2 DEF Ways
<1>6. \A l \in Links : Queue(l) = <<>>
  BY <1>1, <1>5, MessagesOfNothing DEF Queue
<1>7. Framed(<<>>, <<>>, <<>>)
  <2>1. <<>> \o <<>> = <<>>
    OBVIOUS
  <2>2. Sent(<<>> \o <<>>, <<>>, <<>>, <<>>)
    BY <2>1, MessagesOfNothing DEF Sent
  <2> QED BY <1>2, <2>2 DEF Framed
<1>8. LinkInv
  BY <1>1, <1>4, <1>7 DEF LinkInv, FramedLink
<1>9. N \in Nat /\ 0 \in 0 .. N
  BY CatalogueType
<1>10. Serialized(0, 0) = <<>>
  BY <1>9, SerializedNone
<1>11. ListInv
  BY <1>1, <1>2, <1>6, <1>9, <1>10, FourLinks DEF ListInv
<1>12. ClientInv
  BY <1>1, <1>2, <1>6, <1>9, <1>10, FourLinks DEF ClientInv
<1>13. WellFormed(orderNew)
  <2>1. <<>> \in Seq(Entry) /\ 0 <= ORDER_MAX_SIZE
    BY OrderDataAssumption
  <2> QED BY <2>1 DEF WellFormed, OrderType, orderNew
<1>14. OrdersInv
  BY <1>1, <1>13 DEF OrdersInv
<1>15. WhereInv
  BY <1>1, <1>6, FourLinks DEF WhereInv, Nowhere, Empty
<1> QED BY <1>1, <1>6, <1>8, <1>11, <1>12, <1>14, <1>15 DEF IInv

LEMMA StepInv ==
  ASSUME IInv, [Next]_vars
  PROVE  IInv'
<1>1. ASSUME NEW i \in 1 .. N, NEW num \in 1 .. Catalogue[i].stock, AddToOrder(i, num) PROVE IInv'
  BY <1>1, AddStep
<1>2. ASSUME NEW address \in DeliveryAddresses, SubmitOrder(address) PROVE IInv'
  BY <1>2, SubmitStep
<1>3. ASSUME Place PROVE IInv'
  BY <1>3, PlaceStep DEF Place, Ids
<1>4. ASSUME NEW l \in Links, Transfer(l) PROVE IInv'
  BY <1>4, TransferStep
<1>5. CASE UNCHANGED vars
  <2>1. /\ UNCHANGED linkVars /\ UNCHANGED <<products, cpc, order, serverProducts, served>>
        /\ UNCHANGED <<listed, verified, stored>>
    BY <1>5 DEF vars, clientVars, serverVars, dbVars
  <2>2. LinkInv' /\ \A m \in Links : Stays(m)
    BY <2>1, SameLinks
  <2>3. /\ Queue("up")' = Queue("up") /\ Queue("toDb")' = Queue("toDb")
        /\ Queue("fromDb")' = Queue("fromDb") /\ Queue("down")' = Queue("down")
    BY <2>2, FourLinks DEF Stays
  <2>4. AllRead' <=> AllRead
    BY <2>1 DEF AllRead
  <2>5. ListInv' /\ ClientInv'
    BY <2>1, <2>3, SameList, SameClient DEF IInv
  <2>6. OrdersInv' /\ WhereInv'
    BY <2>1, <2>3, <2>4, SameOrders, SameWhere DEF IInv
  <2> QED BY <2>2, <2>5, <2>6 DEF IInv
<1> QED BY <1>1, <1>2, <1>3, <1>4, <1>5, DbSendStep, ReadStep, SendStep, ReceiveStep,
           ForwardOrderStep, ForwardSubStep, ReceiveSubStep, KillStep DEF Next

\* The invariant holds, whatever happens to the client and in whatever order its
\* messages, the server's (forkedServer.c) and the database server's are cut up.
THEOREM Always == Spec => []IInv
<1>1. Init => IInv
  BY InitInv
<1>2. IInv /\ [Next]_vars => IInv'
  BY StepInv
<1> QED BY <1>1, <1>2, PTL DEF Spec

\* What the client lists is the beginning of the database's products: sendProducts
\* (forkedServer.c) sends again what getProducts has read, one by one.
THEOREM ListArrives == Spec => []ProductsArrive
<1>1. IInv => ProductsArrive
  <2> SUFFICES ASSUME IInv, cpc = "list"
               PROVE  products = SubSeq(Catalogue, 1, Len(products))
    BY DEF ProductsArrive
  <2>1. /\ products \in Seq(Product) /\ Len(products) \in Nat /\ Len(products) <= served
        /\ served \in 0 .. N /\ N \in Nat
        /\ \A i \in 1 .. Len(products) : products[i] = Catalogue[i]
    BY CatalogueType DEF IInv, ListInv, ClientInv
  <2>2. Catalogue \in Seq(Product) /\ Len(products) <= Len(Catalogue)
    BY <2>1, WireAssumption DEF N
  <2>3. PICK s : s = SubSeq(Catalogue, 1, Len(products))
    OBVIOUS
  <2>4. s \in Seq(Product) /\ Len(s) = Len(products) /\ \A i \in 1 .. Len(products) : s[i] = Catalogue[i]
    BY <2>1, <2>2, <2>3
  <2>5. products = s
    BY <2>1, <2>4
  <2> QED BY <2>3, <2>5
<1> QED BY <1>1, Always, PTL

\* The order that store_verified_order (databaseServer.c) stores is the one the
\* customer submitted, serialised once and passed on as it is.
THEOREM OrdersArrive == Spec => []OrderArrives
<1>1. IInv => OrderArrives
  BY DEF IInv, ClientInv, WhereInv, OrderArrives, Submitted, Nowhere, GoingUp, GoingIn, InTables,
         GoingOut, GoingDown
<1> QED BY <1>1, Always, PTL

\* No order has a product twice or more than ORDER_MAX_SIZE entries, which is what
\* makes orderUnserialize (order.c) safe: it copies as many as the message says.
THEOREM EntriesAreOnce == Spec => []EntriesOnce
<1>1. IInv => EntriesOnce
  BY DEF IInv, OrdersInv, WellFormed, EntriesOnce
<1> QED BY <1>1, Always, PTL

\* store_verified_order (databaseServer.c) writes its queries as their pieces say,
\* except when countDigits does not count what sprintf prints: a total, as the floats
\* of orderGetTotal have it, that is rounded to one more digit, or one above -1 and
\* negative.  This holds of floats of any precision.
THEOREM QueriesAreWhole == Spec => []QueriesWhole
<1>1. IInv => QueriesWhole
  <2> SUFFICES ASSUME IInv, stored # NULL
               PROVE  LET t == orderGetTotal(stored)
                      IN  /\ InInt(t) =>
                               (WholeQuery(InsertOrder(stored)) <=> ~ OneMoreDigit(Abs(t)) /\ ~ MinusZero(t))
                          /\ \A i \in 1 .. Len(stored.items) : WholeQuery(InsertEntry(1, stored.items[i]))
    BY DEF QueriesWhole
  <2>1. stored = order /\ Addressed
    BY DEF IInv, ClientInv, WhereInv, Submitted, Nowhere, GoingUp, GoingIn, InTables, GoingOut, GoingDown
  <2>2. stored.items \in Seq(Entry) /\ stored.address \in Seq(Character)
    BY <2>1 DEF IInv, OrdersInv, WellFormed, OrderType, Addressed
  <2>3. orderGetTotal(stored) \in Int
    BY <2>2, TotalIsInt
  <2>4. ASSUME NEW i \in 1 .. Len(stored.items)
        PROVE  WholeQuery(InsertEntry(1, stored.items[i]))
    <3>1. stored.items[i] \in Entry
      BY <2>2, ElementOfSeq
    <3> QED BY <3>1, EntryQuery
  <2> QED BY <2>2, <2>3, <2>4, OrderQuery
<1> QED BY <1>1, Always, PTL

\* The order that replaces the customer's is what place_order (databaseServer.c) has
\* made of it, and not an earlier or another one.
THEOREM SubOrdersArrive == Spec => SubOrderArrives
<1>1. IInv /\ [Next]_vars => (cpc = "wait" /\ cpc' = "shop" => order' = verified)
  <2> SUFFICES ASSUME IInv, [Next]_vars, cpc = "wait", cpc' = "shop" PROVE order' = verified
    OBVIOUS
  <2>1. ReceiveSubOrder
    <3>1. /\ ~ DbSendProduct /\ ~ ReadProduct /\ ~ SendProduct /\ ~ ReceiveProduct
          /\ ~ ForwardOrder /\ ~ ForwardSubOrder /\ ~ Kill
      BY DEF DbSendProduct, ReadProduct, SendProduct, ReceiveProduct, ForwardOrder, ForwardSubOrder,
             Forward, Kill, clientVars
    <3>2. /\ ~ UNCHANGED vars
          /\ \A l : ~ Transfer(l)
          /\ \A i, num : ~ AddToOrder(i, num)
          /\ \A address : ~ SubmitOrder(address)
      BY DEF vars, Transfer, AddToOrder, SubmitOrder, clientVars
    <3>3. ~ Place
      BY DEF Place, PlaceOrder, clientVars
    <3> QED BY <3>1, <3>2, <3>3 DEF Next
  <2> QED BY <2>1, ReceiveSubLinks
<1> QED BY <1>1, Always, PTL DEF SubOrderArrives, Spec

\* What a step does to each link.
LinkStepOf(l) == Stays(l) \/ Takes(l) \/ (\E data \in Data : Puts(l, data)) \/ Loses(l)

LEMMA LinksStep ==
  ASSUME IInv, [Next]_vars
  PROVE  \A l \in Links : LinkStepOf(l)
<1>1. CASE DbSendProduct
  <2>1. Puts("fromDb", productSerialize(Catalogue[listed + 1])) /\ OthersStay("fromDb")
    BY <1>1, DbSendLinks
  <2>2. listed \in 0 .. N /\ listed < N /\ N \in Nat
    BY <1>1, CatalogueType DEF DbSendProduct, IInv, ListInv
  <2>3. listed + 1 \in 1 .. N
    BY <2>2
  <2>4. productSerialize(Catalogue[listed + 1]) \in Data
    BY <2>3, CatalogueType, ProductSurvives DEF Data
  <2> QED BY <2>1, <2>4 DEF OthersStay, LinkStepOf
<1>2. CASE ReadProduct
  <2>1. Takes("fromDb") /\ OthersStay("fromDb")
    BY <1>2, FourLinks, TakeLinks DEF ReadProduct, clientVars
  <2> QED BY <2>1 DEF OthersStay, LinkStepOf
<1>3. CASE SendProduct
  <2>1. Puts("down", productSerialize(serverProducts[served + 1])) /\ OthersStay("down")
        /\ productSerialize(serverProducts[served + 1]) \in Data
    BY <1>3, SendLinks
  <2> QED BY <2>1 DEF OthersStay, LinkStepOf
<1>4. CASE ReceiveProduct
  <2>1. Takes("down") /\ OthersStay("down")
    BY <1>4, FourLinks, TakeLinks DEF ReceiveProduct
  <2> QED BY <2>1 DEF OthersStay, LinkStepOf
<1>5. ASSUME NEW i \in 1 .. N, NEW num \in 1 .. Catalogue[i].stock, AddToOrder(i, num)
      PROVE  \A l \in Links : LinkStepOf(l)
  BY <1>5, SameLinks DEF AddToOrder, LinkStepOf
<1>6. ASSUME NEW address \in DeliveryAddresses, SubmitOrder(address)
      PROVE  \A l \in Links : LinkStepOf(l)
  <2>1. Puts("up", orderSerialize(order')) /\ OthersStay("up") /\ WellFormed(order')
    BY <1>6, SubmitLinks
  <2>2. orderSerialize(order') \in Data
    BY <2>1, OrderBytes DEF Data
  <2> QED BY <2>1, <2>2 DEF OthersStay, LinkStepOf
<1>7. CASE ForwardOrder
  <2>1. /\ Takes("up") /\ Puts("toDb", Message("up")) /\ \A m \in Links \ {"up", "toDb"} : Stays(m)
        /\ Message("up") = orderSerialize(order) /\ WellFormed(order)
    BY <1>7, ForwardOrderLinks DEF IInv, OrdersInv
  <2>2. Message("up") \in Data
    BY <2>1, OrderBytes DEF Data
  <2> QED BY <2>1, <2>2 DEF LinkStepOf
<1>8. CASE ForwardSubOrder
  <2>1. /\ Takes("fromDb") /\ Puts("down", Message("fromDb"))
        /\ \A m \in Links \ {"fromDb", "down"} : Stays(m)
        /\ Message("fromDb") = orderSerialize(verified) /\ WellFormed(verified)
    BY <1>8, ForwardSubLinks DEF GoingOut
  <2>2. Message("fromDb") \in Data
    BY <2>1, OrderBytes DEF Data
  <2> QED BY <2>1, <2>2 DEF LinkStepOf
<1>9. ASSUME NEW stock \in [Ids -> Stocks], PlaceOrder(stock)
      PROVE  \A l \in Links : LinkStepOf(l)
  <2>1. /\ Takes("toDb") /\ WellFormed(verified')
        /\ \/ OthersStay("toDb")
           \/ /\ Puts("fromDb", orderSerialize(verified'))
              /\ \A m \in Links \ {"toDb", "fromDb"} : Stays(m)
    BY <1>9, PlaceLinks
  <2>2. orderSerialize(verified') \in Data
    BY <2>1, OrderBytes DEF Data
  <2> QED BY <2>1, <2>2 DEF OthersStay, LinkStepOf
<1>10. CASE ReceiveSubOrder
  BY <1>10, ReceiveSubLinks DEF OthersStay, LinkStepOf
<1>11. CASE Kill
  BY <1>11, KillLinks DEF OthersStay, LinkStepOf
<1>12. ASSUME NEW l \in Links, Transfer(l) PROVE \A m \in Links : LinkStepOf(m)
  BY <1>12, TransferLinks DEF LinkStepOf
<1>13. CASE UNCHANGED vars
  BY <1>13, SameLinks DEF vars, clientVars, LinkStepOf
<1> QED BY <1>1, <1>2, <1>3, <1>4, <1>5, <1>6, <1>7, <1>8, <1>9, <1>10, <1>11, <1>12, <1>13
        DEF Next, Place, Ids

\* The queues of Channel are those of the links.
LEMMA QueueIs ==
  ASSUME NEW l \in Links
  PROVE  Messages[OnTheWay(l)] = Queue(l)
  BY DEF Queue, OnTheWay, Ways

LEMMA Loss ==
  ASSUME NEW r \in Seq(Data), NEW m \in Data, NEW q \in Seq(Data), q = Append(r, m)
  PROVE  q # <<>> /\ r = SubSeq(q, 1, Len(q) - 1)
  OBVIOUS

LEMMA Receipt ==
  ASSUME NEW m, NEW r \in Seq(Data), NEW q \in Seq(Data), q = <<m>> \o r
  PROVE  q # <<>> /\ Head(q) = m /\ Tail(q) = r
  OBVIOUS

\* All four links keep the promise of conn_send and conn_receive (comm.h): every
\* step is one of Channel on each of them.
THEOREM WireRefinesChannel == Spec => LinksAreChannels
<1> DEFINE queue == [l \in Links |-> Messages[OnTheWay(l)]]
<1>1. Init => Abstract!Init
  <2> SUFFICES ASSUME Init PROVE Abstract!Init
    OBVIOUS
  <2>1. LinkTypes /\ \A l \in Links : Queue(l) = <<>> /\ got[l] = NULL
    BY InitInv DEF IInv, LinkInv
  <2>2. \A l \in Links : Messages[OnTheWay(l)] = <<>>
    BY <2>1, QueueIs
  <2>3. got = [l \in Links |-> NULL]
    BY DEF Init, FramingInit
  <2> QED BY <2>2, <2>3 DEF Abstract!Init
<1>2. IInv /\ IInv' /\ [Next]_vars =>
        \A l \in Links : Abstract!Send(l) \/ Abstract!Receive(l) \/ Abstract!LoseLast(l) \/ Abstract!Rest(l)
  <2> SUFFICES ASSUME IInv, IInv', [Next]_vars, NEW l \in Links
               PROVE  Abstract!Send(l) \/ Abstract!Receive(l) \/ Abstract!LoseLast(l) \/ Abstract!Rest(l)
    OBVIOUS
  <2>1. PICK q \in Seq(Data) : q = Queue(l)
    BY QueueType DEF IInv, LinkInv
  <2>2. PICK r \in Seq(Data) : r = Queue(l)'
    BY NextQueueType DEF IInv
  <2>3. Messages[OnTheWay(l)] = q /\ Messages[OnTheWay(l)]' = r
    BY <2>1, <2>2 DEF Queue, OnTheWay, Ways
  <2>4. queue[l] = q /\ queue'[l] = r
    BY <2>3
  <2> HIDE DEF queue
  <2>5. LinkStepOf(l)
    BY LinksStep
  <2>6. CASE Stays(l)
    <3>1. r = q /\ got'[l] = got[l]
      BY <2>1, <2>2, <2>6 DEF Stays
    <3> QED BY <2>4, <3>1 DEF Abstract!Rest, queue
  <2>7. CASE Takes(l)
    <3>1. q = <<Message(l)>> \o r /\ got'[l] = Message(l)
      BY <2>1, <2>2, <2>7 DEF Takes
    <3>2. q # <<>> /\ Head(q) = Message(l) /\ Tail(q) = r
      BY <3>1, Receipt
    <3> QED BY <2>4, <3>1, <3>2 DEF Abstract!Receive, queue
  <2>8. CASE \E data \in Data : Puts(l, data)
    <3>1. PICK data \in Data : Puts(l, data)
      BY <2>8
    <3>2. r = Append(q, data) /\ got'[l] = got[l]
      BY <2>1, <2>2, <3>1 DEF Puts
    <3>3. r # <<>> /\ r[Len(r)] = data
      BY <3>2, LastIs
    <3> QED BY <2>4, <3>2, <3>3 DEF Abstract!Send, queue
  <2>9. CASE Loses(l)
    <3>1. got'[l] = got[l] /\ (r = q \/ \E data \in Data : q = Append(r, data))
      BY <2>1, <2>2, <2>9 DEF Loses
    <3>2. CASE r = q
      BY <2>4, <3>1, <3>2 DEF Abstract!Rest, queue
    <3>3. CASE \E data \in Data : q = Append(r, data)
      <4>1. q # <<>> /\ r = SubSeq(q, 1, Len(q) - 1)
        BY <3>3, Loss
      <4> QED BY <2>4, <3>1, <4>1 DEF Abstract!LoseLast, queue
    <3> QED BY <3>1, <3>2, <3>3
  <2> QED BY <2>5, <2>6, <2>7, <2>8, <2>9 DEF LinkStepOf
<1> QED BY <1>1, <1>2, Always, PTL DEF LinksAreChannels, Abstract!Spec, Spec
==============================================================================
