---------------------------- MODULE FramingProofs ----------------------------
(***************************************************************************)
(* For links of any capacity, a size_t of any size and messages of any     *)
(* length: in whatever pieces write() and read() take and give the bytes,  *)
(* the messages on a link are a queue.  conn_send puts one at its end,     *)
(* conn_receive takes the first, and ensureWrite and ensureRead change     *)
(* nothing; a writer that ends loses the last message at most.             *)
(*                                                                         *)
(* Which messages some bytes are is defined by recursion (Messages), and   *)
(* so is what pieces are put together (FlattenSeq).  That there is a       *)
(* function that satisfies the recursion, and only one, is proved by       *)
(* looking at the shortest sequence for which it fails.  The rest is       *)
(* cancellation: whole messages at the start of the bytes are those of the *)
(* whole, and what follows them is read as if it stood alone.              *)
(***************************************************************************)
EXTENDS Framing, SequenceTheorems, NaturalsInduction, WellFoundedInduction, TLAPS

-----------------------------------------------------------------------------
(* What the bytes on a stream mean: Messages is defined by recursion on    *)
(* them, and is what its definition says.                                  *)

\* Among some natural numbers there is a least one.
LEMMA LeastNumber ==
  ASSUME NEW T, T \subseteq Nat, T # {}
  PROVE  \E n \in T : \A m \in T : n <= m
<1> DEFINE R == OpToRel(<, Nat)
<1>1. IsWellFoundedOn(R, Nat)
  BY NatLessThanWellFounded, Zenon
<1>2. ASSUME NEW m \in Nat, NEW n \in Nat, m < n
      PROVE  <<m, n>> \in R
  BY <1>2, Zenon DEF OpToRel
<1> HIDE DEF R
<1>3. PICK n \in T : \A m \in T : ~(<<m, n>> \in R)
  BY <1>1, WFMin
<1>4. \A m \in T : ~(m < n)
  BY <1>2, <1>3
<1> QED BY <1>4

\* A whole message is at the start of the bytes, which one it is, and what is after it.
FirstLength(bytes) == Value(bytes, 0, SizeT)
StartsWhole(bytes) == Len(bytes) >= SizeT /\ FirstLength(bytes) \in 0 .. Len(bytes) - SizeT
First(bytes) == SubSeq(bytes, SizeT + 1, SizeT + FirstLength(bytes))
After(bytes) == SubSeq(bytes, SizeT + FirstLength(bytes) + 1, Len(bytes))

\* The step of the recursion, and the functions that satisfy it up to some length.
Step(f, bytes) == IF StartsWhole(bytes) THEN <<First(bytes)>> \o f[After(bytes)] ELSE <<>>
UpTo(n) == {bytes \in Seq(Byte) : Len(bytes) <= n}
Parsing(f, n) == f = [bytes \in UpTo(n) |-> Step(f, bytes)]

\* What is after a whole message is shorter than what starts with it.
LEMMA AfterIsShorter ==
  ASSUME NEW bytes \in Seq(Byte), StartsWhole(bytes)
  PROVE  After(bytes) \in Seq(Byte) /\ Len(After(bytes)) < Len(bytes)
<1>1. SizeT \in Nat \ {0} /\ FirstLength(bytes) \in Nat
  BY OrderDataAssumption DEF StartsWhole
<1> DEFINE m == SizeT + FirstLength(bytes) + 1
<1>2. m \in Nat /\ m > 1 /\ m - 1 <= Len(bytes)
  BY <1>1 DEF StartsWhole
<1>3. \A i \in m .. Len(bytes) : bytes[i] \in Byte
  BY <1>2
<1> HIDE DEF m
<1>4. /\ SubSeq(bytes, m, Len(bytes)) \in Seq(Byte)
      /\ Len(SubSeq(bytes, m, Len(bytes))) = IF m <= Len(bytes) THEN Len(bytes) - m + 1 ELSE 0
  BY <1>2, <1>3, SubSeqProperties
<1>5. Len(SubSeq(bytes, m, Len(bytes))) < Len(bytes)
  BY <1>2, <1>4
<1> QED BY <1>4, <1>5 DEF After, m

LEMMA ParsingAt ==
  ASSUME NEW f, NEW n \in Nat, Parsing(f, n), NEW bytes \in UpTo(n)
  PROVE  f[bytes] = Step(f, bytes)
  BY DEF Parsing

\* Two such functions agree where both are defined.
LEMMA ParsingsAgree ==
  ASSUME NEW f, NEW g, NEW n \in Nat, NEW m \in Nat, Parsing(f, n), Parsing(g, m),
         NEW bytes \in UpTo(n) \cap UpTo(m)
  PROVE  f[bytes] = g[bytes]
<1> DEFINE Bad == {k \in Nat : \E b \in UpTo(n) \cap UpTo(m) : Len(b) = k /\ f[b] # g[b]}
<1>1. SUFFICES ASSUME f[bytes] # g[bytes] PROVE FALSE
  OBVIOUS
<1>2. Len(bytes) \in Bad
  BY <1>1 DEF UpTo
<1>3. PICK k \in Bad : \A j \in Bad : k <= j
  <2>1. Bad \subseteq Nat
    OBVIOUS
  <2> HIDE DEF Bad
  <2> QED BY <1>2, <2>1, LeastNumber
<1>4. PICK b \in UpTo(n) \cap UpTo(m) : Len(b) = k /\ f[b] # g[b]
  BY <1>3
<1>5. f[b] = Step(f, b) /\ g[b] = Step(g, b)
  BY <1>4, ParsingAt
<1>6. StartsWhole(b)
  BY <1>4, <1>5 DEF Step
<1>7. After(b) \in Seq(Byte) /\ Len(After(b)) < Len(b)
  BY <1>4, <1>6, AfterIsShorter DEF UpTo
<1>8. After(b) \in UpTo(n) \cap UpTo(m)
  BY <1>4, <1>7 DEF UpTo
<1>9. Len(After(b)) \notin Bad
  <2>1. Len(b) \in Nat /\ Len(After(b)) \in Nat
    BY <1>4, <1>7 DEF UpTo
  <2>2. ~(k <= Len(After(b)))
    BY <2>1, <1>4, <1>7
  <2> HIDE DEF Bad
  <2> QED BY <1>3, <2>2
<1>10. f[After(b)] = g[After(b)]
  BY <1>8, <1>9 DEF UpTo
<1> QED BY <1>4, <1>5, <1>10 DEF Step

\* There is one for every length.
LEMMA ParsingExists ==
  ASSUME NEW n \in Nat
  PROVE  \E f : Parsing(f, n)
<1> DEFINE Bad == {k \in Nat : ~\E f : Parsing(f, k)}
<1>1. SUFFICES ASSUME n \in Bad PROVE FALSE
  OBVIOUS
<1>2. PICK k \in Bad : \A j \in Bad : k <= j
  <2>1. Bad \subseteq Nat
    OBVIOUS
  <2> HIDE DEF Bad
  <2> QED BY <1>1, <2>1, LeastNumber
<1>3. k \in Nat /\ ~\E f : Parsing(f, k)
  BY <1>2
<1>4. CASE k = 0
  <2> DEFINE f == [bytes \in UpTo(0) |-> <<>>]
  <2>1. ASSUME NEW bytes \in UpTo(0)
        PROVE  ~StartsWhole(bytes)
    BY OrderDataAssumption DEF UpTo, StartsWhole
  <2>2. \A bytes \in UpTo(0) : Step(f, bytes) = <<>>
    BY <2>1 DEF Step
  <2>3. f = [bytes \in UpTo(0) |-> Step(f, bytes)]
    BY <2>2
  <2>4. Parsing(f, 0)
    BY <2>3 DEF Parsing
  <2> QED BY <1>3, <1>4, <2>4
<1>5. CASE k # 0
  <2>1. k - 1 \in Nat /\ ~(k <= k - 1)
    BY <1>3, <1>5
  <2>2. PICK f : Parsing(f, k - 1)
    BY <1>2, <2>1
  <2> DEFINE g == [bytes \in UpTo(k) |-> Step(f, bytes)]
  <2>3. ASSUME NEW bytes \in UpTo(k)
        PROVE  Step(f, bytes) = Step(g, bytes)
    <3>1. CASE ~StartsWhole(bytes)
      BY <3>1 DEF Step
    <3>2. CASE StartsWhole(bytes)
      <4>1. After(bytes) \in Seq(Byte) /\ Len(After(bytes)) < Len(bytes)
        BY <3>2, AfterIsShorter DEF UpTo
      <4>2. After(bytes) \in UpTo(k - 1) /\ After(bytes) \in UpTo(k)
        BY <1>3, <4>1 DEF UpTo
      <4>3. f[After(bytes)] = Step(f, After(bytes))
        BY <2>1, <2>2, <4>2, ParsingAt
      <4>4. g[After(bytes)] = Step(f, After(bytes))
        BY <4>2
      <4> QED BY <4>3, <4>4 DEF Step
    <3> QED BY <3>1, <3>2
  <2>4. g = [bytes \in UpTo(k) |-> Step(g, bytes)]
    BY <2>3
  <2>5. Parsing(g, k)
    BY <2>4 DEF Parsing
  <2> QED BY <1>3, <2>5
<1> QED BY <1>4, <1>5

\* Messages is what its definition says.
LEMMA MessagesAt ==
  ASSUME NEW bytes \in Seq(Byte)
  PROVE  Messages[bytes] = Step(Messages, bytes)
<1> DEFINE F(n) == CHOOSE f : Parsing(f, n)
           h == [b \in Seq(Byte) |-> Step(F(Len(b)), b)]
<1>1. ASSUME NEW n \in Nat
      PROVE  Parsing(F(n), n)
  BY ParsingExists
<1>2. ASSUME NEW b \in Seq(Byte)
      PROVE  b \in UpTo(Len(b)) /\ Len(b) \in Nat
  BY DEF UpTo
<1>3. ASSUME NEW b \in Seq(Byte)
      PROVE  Step(F(Len(b)), b) = Step(h, b)
  <2>1. CASE ~StartsWhole(b)
    BY <2>1 DEF Step
  <2>2. CASE StartsWhole(b)
    <3> DEFINE a == After(b)
    <3>1. a \in Seq(Byte) /\ Len(a) < Len(b)
      BY <2>2, AfterIsShorter
    <3> HIDE DEF a
    <3>2. a \in UpTo(Len(a)) /\ a \in UpTo(Len(b)) /\ Len(a) \in Nat /\ Len(b) \in Nat
      BY <3>1 DEF UpTo
    <3>3. h[a] = Step(F(Len(a)), a)
      BY <3>1
    <3>4. Parsing(F(Len(a)), Len(a)) /\ Parsing(F(Len(b)), Len(b))
      BY <3>2, <1>1
    <3> HIDE DEF F, h
    <3>5. F(Len(a))[a] = Step(F(Len(a)), a)
      BY <3>2, <3>4, ParsingAt
    <3>6. F(Len(a))[a] = F(Len(b))[a]
      BY <3>2, <3>4, ParsingsAgree
    <3> QED BY <3>3, <3>5, <3>6 DEF Step, a
  <2> QED BY <2>1, <2>2
<1>4. h = [b \in Seq(Byte) |-> Step(h, b)]
  BY <1>3
<1> HIDE DEF h
<1>5. Messages = CHOOSE f : f = [b \in Seq(Byte) |-> Step(f, b)]
  BY DEF Messages, Step, StartsWhole, First, After, FirstLength
<1>6. Messages = [b \in Seq(Byte) |-> Step(Messages, b)]
  BY <1>4, <1>5
<1> QED BY <1>6

-----------------------------------------------------------------------------
(* Numbers among the bytes.                                                *)

LEMMA BytesType ==
  ASSUME NEW v \in Int, NEW size \in Nat \ {0}
  PROVE  /\ Bytes(v, size) \in Seq(Byte)
         /\ Len(Bytes(v, size)) = size
         /\ \A i \in 1 .. size : Bytes(v, size)[i] = <<i, size, v>>
<1>1. \A i \in 1 .. size : <<i, size, v>> \in Byte
  BY DEF Byte
<1> QED BY <1>1 DEF Bytes

\* Bytes that come later do not change a number.
LEMMA ValueOfPrefix ==
  ASSUME NEW s \in Seq(Byte), NEW t \in Seq(Byte), NEW offset \in Nat, NEW size \in Nat \ {0},
         offset + size <= Len(s)
  PROVE  Value(s \o t, offset, size) = Value(s, offset, size)
<1>1. offset + 1 \in 1 .. Len(s) /\ offset + size \in 1 .. Len(s)
  OBVIOUS
<1>2. SubSeq(s \o t, offset + 1, offset + size) = SubSeq(s, offset + 1, offset + size)
  BY <1>1, SubSeqOfConcat1
<1> QED BY <1>2 DEF Value

\* The bytes of a number are that number.
LEMMA ValueOfBytes ==
  ASSUME NEW s \in Seq(Byte), NEW v \in Int, NEW size \in Nat \ {0}
  PROVE  Value(s \o Bytes(v, size), Len(s), size) = v
<1> DEFINE b == Bytes(v, size)
<1>1. b \in Seq(Byte) /\ Len(b) = size /\ b[1] = <<1, size, v>>
  BY BytesType
<1> HIDE DEF b
<1>2. Len(s) + 1 \in Len(s) + 1 .. Len(s) + Len(b) /\ Len(s) + size \in Len(s) + 1 .. Len(s) + Len(b)
  BY <1>1
<1>3. SubSeq(s \o b, Len(s) + 1, Len(s) + size) = SubSeq(b, Len(s) + 1 - Len(s), Len(s) + size - Len(s))
  BY <1>1, <1>2, SubSeqOfConcat2
<1>4. Len(s) + 1 - Len(s) = 1 /\ Len(s) + size - Len(s) = Len(b)
  BY <1>1
<1>5. SubSeq(s \o b, Len(s) + 1, Len(s) + size) = b
  BY <1>1, <1>3, <1>4, SubSeqFull
<1>6. b # <<>> /\ b[1][3] = v
  BY <1>1
<1> QED BY <1>5, <1>6 DEF Value, b

LEMMA ValueOfFirst ==
  ASSUME NEW v \in Int, NEW size \in Nat \ {0}
  PROVE  Value(Bytes(v, size), 0, size) = v
<1> DEFINE b == Bytes(v, size)
<1>1. b \in Seq(Byte)
  BY BytesType
<1>2. PICK e \in Seq(Byte) : e = <<>>
  <2>1. <<>> \in Seq(Byte)
    OBVIOUS
  <2> QED BY <2>1
<1>3. Value(e \o b, Len(e), size) = v
  BY ValueOfBytes
<1> HIDE DEF b
<1>4. e \o b = b /\ Len(e) = 0
  BY <1>1, <1>2
<1> QED BY <1>3, <1>4 DEF b

\* What is between two parts of the bytes.
LEMMA SubSeqInConcat ==
  ASSUME NEW s \in Seq(Byte), NEW b \in Seq(Byte), NEW t \in Seq(Byte)
  PROVE  SubSeq((s \o b) \o t, Len(s) + 1, Len(s) + Len(b)) = b
<1> DEFINE u == SubSeq((s \o b) \o t, Len(s) + 1, Len(s) + Len(b))
<1>1. Len((s \o b) \o t) = Len(s) + Len(b) + Len(t) /\ (s \o b) \o t \in Seq(Byte)
  OBVIOUS
<1>2. \A i \in Len(s) + 1 .. Len(s) + Len(b) : ((s \o b) \o t)[i] = b[i - Len(s)]
  OBVIOUS
<1>3. \A i \in Len(s) + 1 .. Len(s) + Len(b) : ((s \o b) \o t)[i] \in Byte
  BY <1>2
<1>4. /\ u \in Seq(Byte) /\ Len(u) = Len(b)
      /\ \A i \in 1 .. Len(b) : u[i] = ((s \o b) \o t)[Len(s) + i]
  <2> DEFINE x == (s \o b) \o t
             m == Len(s) + 1
             n == Len(s) + Len(b)
  <2>1. m \in Int /\ n \in Int /\ \A i \in m .. n : x[i] \in Byte
    BY <1>3
  <2> HIDE DEF x, m, n
  <2>2. /\ SubSeq(x, m, n) \in Seq(Byte)
        /\ Len(SubSeq(x, m, n)) = IF m <= n THEN n - m + 1 ELSE 0
        /\ \A i \in 1 .. n - m + 1 : SubSeq(x, m, n)[i] = x[m + i - 1]
    BY <2>1, SubSeqProperties
  <2>3. n - m + 1 = Len(b) /\ Len(b) \in Nat /\ (m <= n <=> Len(b) > 0)
    BY DEF m, n
  <2>4. u = SubSeq(x, m, n)
    BY DEF x, m, n
  <2> HIDE DEF u
  <2>5. Len(u) = Len(b)
    BY <2>2, <2>3, <2>4
  <2>6. \A i \in 1 .. Len(b) : m + i - 1 = Len(s) + i
    BY DEF m
  <2> QED BY <2>2, <2>3, <2>4, <2>5, <2>6 DEF x
<1> HIDE DEF u
<1>5. \A i \in 1 .. Len(b) : u[i] = b[i]
  BY <1>2, <1>4
<1> QED BY <1>4, <1>5, SeqEqual DEF u

-----------------------------------------------------------------------------
(* Whole messages and parts of them.                                       *)

\* What conn_receive has read when it is ready to return, and what conn_send writes.
IsWhole(bytes) == Len(bytes) >= SizeT /\ Len(bytes) = SizeT + FirstLength(bytes)
Body(bytes) == SubSeq(bytes, SizeT + 1, Len(bytes))
Frame(data) == Bytes(Len(data), SizeT) \o data

\* A whole message is the first one of the bytes that start with it.
LEMMA MessagesOfWhole ==
  ASSUME NEW whole \in Seq(Byte), IsWhole(whole), NEW rest \in Seq(Byte)
  PROVE  /\ StartsWhole(whole \o rest)
         /\ Messages[whole \o rest] = <<Body(whole)>> \o Messages[rest]
<1> DEFINE bytes == whole \o rest
<1>1. SizeT \in Nat \ {0} /\ 0 + SizeT <= Len(whole) /\ 0 \in Nat
  BY OrderDataAssumption DEF IsWhole
<1>2. FirstLength(bytes) = FirstLength(whole)
  BY <1>1, ValueOfPrefix DEF FirstLength
<1>3. /\ bytes \in Seq(Byte) /\ Len(bytes) = Len(whole) + Len(rest)
      /\ Len(whole) \in Nat /\ Len(rest) \in Nat
  OBVIOUS
<1>4. SizeT + FirstLength(bytes) = Len(whole)
  BY <1>2 DEF IsWhole
<1>5. Len(whole) - SizeT \in Nat /\ Len(whole) - SizeT <= Len(bytes) - SizeT
  BY <1>1, <1>3
<1>6. FirstLength(whole) = Len(whole) - SizeT
  <2>1. \A a : a \in Int /\ Len(whole) = SizeT + a => a = Len(whole) - SizeT
    BY <1>1, <1>3
  <2>2. FirstLength(whole) \in Int
    <3> DEFINE b == SubSeq(whole, 0 + 1, 0 + SizeT)
    <3>1. b[1] = whole[1]
      BY <1>1, <1>3
    <3>2. whole[1] \in Byte
      BY <1>1, <1>3
    <3>3. whole[1][3] \in Int
      BY <3>2 DEF Byte
    <3> HIDE DEF b
    <3>4. FirstLength(whole) = IF b # <<>> /\ b = Bytes(b[1][3], SizeT) THEN b[1][3] ELSE 0
      BY DEF FirstLength, Value, b
    <3> QED BY <3>1, <3>3, <3>4
  <2> QED BY <2>1, <2>2 DEF IsWhole
<1> HIDE DEF bytes
<1>7. StartsWhole(bytes)
  BY <1>1, <1>2, <1>3, <1>5, <1>6 DEF StartsWhole
<1>8. First(bytes) = Body(whole)
  <2>1. First(bytes) = SubSeq(bytes, SizeT + 1, Len(whole))
    BY <1>4 DEF First
  <2>2. CASE Len(whole) > SizeT
    <3>1. SizeT + 1 \in 1 .. Len(whole) /\ Len(whole) \in 1 .. Len(whole)
      BY <1>1, <1>3, <2>2
    <3> QED BY <2>1, <3>1, SubSeqOfConcat1 DEF Body, bytes
  <2>3. CASE ~(Len(whole) > SizeT)
    <3>1. Len(whole) < SizeT + 1 /\ SizeT + 1 \in Int /\ Len(whole) \in Int
      BY <1>1, <1>3, <2>3
    <3>2. SubSeq(bytes, SizeT + 1, Len(whole)) = <<>>
      BY <3>1, SubSeqEmpty
    <3>3. SubSeq(whole, SizeT + 1, Len(whole)) = <<>>
      BY <3>1, SubSeqEmpty
    <3> QED BY <2>1, <3>2, <3>3 DEF Body
  <2> QED BY <2>2, <2>3
<1>9. After(bytes) = rest
  <2>1. After(bytes) = SubSeq(bytes, Len(whole) + 1, Len(whole) + Len(rest))
    BY <1>3, <1>4 DEF After
  <2>2. <<>> \in Seq(Byte) /\ bytes \o <<>> = bytes
    BY <1>3
  <2> QED BY <2>1, <2>2, SubSeqInConcat DEF bytes
<1>10. Messages[bytes] = Step(Messages, bytes)
  BY <1>3, MessagesAt
<1> QED BY <1>7, <1>8, <1>9, <1>10 DEF Step, bytes

\* The bytes that conn_send writes are a whole message.
LEMMA FrameIsWhole ==
  ASSUME NEW data \in Seq(Byte)
  PROVE  /\ Frame(data) \in Seq(Byte) /\ Len(Frame(data)) = SizeT + Len(data)
         /\ FirstLength(Frame(data)) = Len(data)
         /\ IsWhole(Frame(data)) /\ Body(Frame(data)) = data
<1> DEFINE b == Bytes(Len(data), SizeT)
<1>1. SizeT \in Nat \ {0} /\ Len(data) \in Nat /\ Len(data) \in Int
  BY OrderDataAssumption
<1>2. b \in Seq(Byte) /\ Len(b) = SizeT
  BY <1>1, BytesType
<1>3. <<>> \in Seq(Byte) /\ Len(<<>>) = 0 /\ <<>> \o b = b
  BY <1>2
<1>4. Value(b, 0, SizeT) = Len(data)
  BY <1>1, ValueOfFirst
<1> HIDE DEF b
<1>5. 0 \in Nat /\ 0 + SizeT <= Len(b)
  BY <1>1, <1>2
<1>6. Value(b \o data, 0, SizeT) = Len(data)
  BY <1>1, <1>2, <1>4, <1>5, ValueOfPrefix
<1>7. Frame(data) = b \o data
  BY DEF Frame, b
<1>8. Frame(data) \in Seq(Byte) /\ Len(Frame(data)) = SizeT + Len(data)
  BY <1>2, <1>7
<1>9. FirstLength(Frame(data)) = Len(data)
  BY <1>6, <1>7 DEF FirstLength
<1>10. IsWhole(Frame(data))
  BY <1>1, <1>8, <1>9 DEF IsWhole
<1>11. Body(Frame(data)) = data
  <2>1. (b \o data) \o <<>> = b \o data
    BY <1>2
  <2>2. SubSeq((b \o data) \o <<>>, Len(b) + 1, Len(b) + Len(data)) = data
    BY <1>2, <1>3, SubSeqInConcat
  <2> QED BY <1>2, <1>7, <1>8, <2>1, <2>2 DEF Body
<1> QED BY <1>8, <1>9, <1>10, <1>11

\* A part of what conn_send writes is no message yet.
LEMMA PartOfFrame ==
  ASSUME NEW data \in Seq(Byte), NEW part \in Seq(Byte), NEW rest \in Seq(Byte), rest # <<>>,
         part \o rest = Frame(data)
  PROVE  ~StartsWhole(part) /\ Messages[part] = <<>>
<1>1. Len(part) \in Nat /\ Len(rest) \in Nat \ {0} /\ Len(data) \in Nat /\ SizeT \in Nat \ {0}
  BY OrderDataAssumption
<1>2. Len(part) < SizeT + Len(data)
  <2>1. Len(part \o rest) = Len(part) + Len(rest)
    OBVIOUS
  <2>2. Len(Frame(data)) = SizeT + Len(data)
    BY FrameIsWhole
  <2>3. Len(part) + Len(rest) = SizeT + Len(data)
    BY <2>1, <2>2
  <2> QED BY <1>1, <2>3
<1>3. ~StartsWhole(part)
  <2>1. SUFFICES ASSUME Len(part) >= SizeT
                 PROVE  FirstLength(part) \notin 0 .. Len(part) - SizeT
    BY DEF StartsWhole
  <2>2. FirstLength(part) = Len(data)
    <3>1. 0 \in Nat /\ 0 + SizeT <= Len(part)
      BY <1>1, <2>1
    <3>2. Value(part \o rest, 0, SizeT) = Value(part, 0, SizeT)
      BY <1>1, <3>1, ValueOfPrefix
    <3>3. FirstLength(Frame(data)) = Len(data)
      BY FrameIsWhole
    <3> QED BY <3>2, <3>3 DEF FirstLength
  <2>3. ~(Len(data) <= Len(part) - SizeT)
    BY <1>1, <1>2
  <2> QED BY <2>2, <2>3
<1>4. Messages[part] = Step(Messages, part)
  BY MessagesAt
<1> QED BY <1>3, <1>4 DEF Step

\* What has been sent is a sequence of messages.
Data == Seq(Byte)

LEMMA MessagesType ==
  ASSUME NEW bytes \in Seq(Byte)
  PROVE  Messages[bytes] \in Seq(Data)
<1> DEFINE Bad == {k \in Nat : \E b \in Seq(Byte) : Len(b) = k /\ Messages[b] \notin Seq(Data)}
<1>1. SUFFICES ASSUME Messages[bytes] \notin Seq(Data) PROVE FALSE
  OBVIOUS
<1>2. Len(bytes) \in Bad
  BY <1>1
<1>3. PICK k \in Bad : \A j \in Bad : k <= j
  <2>1. Bad \subseteq Nat
    OBVIOUS
  <2> HIDE DEF Bad
  <2> QED BY <1>2, <2>1, LeastNumber
<1>4. PICK b \in Seq(Byte) : Len(b) = k /\ Messages[b] \notin Seq(Data)
  BY <1>3
<1>5. Messages[b] = Step(Messages, b)
  BY MessagesAt
<1>6. StartsWhole(b)
  BY <1>4, <1>5 DEF Step
<1>7. After(b) \in Seq(Byte) /\ Len(After(b)) < Len(b)
  BY <1>6, AfterIsShorter
<1>8. Messages[After(b)] \in Seq(Data)
  <2>1. Len(b) \in Nat /\ Len(After(b)) \in Nat
    BY <1>7
  <2>2. ~(k <= Len(After(b)))
    BY <2>1, <1>4, <1>7
  <2>3. Len(After(b)) \notin Bad
    <3> HIDE DEF Bad
    <3> QED BY <1>3, <2>2
  <2> QED BY <1>7, <2>1, <2>3
<1>9. First(b) \in Seq(Byte)
  <2>1. SizeT + 1 \in Int /\ SizeT + FirstLength(b) \in Int /\ SizeT \in Nat /\ SizeT + FirstLength(b) <= Len(b)
    BY <1>6, OrderDataAssumption DEF StartsWhole
  <2>2. \A i \in SizeT + 1 .. SizeT + FirstLength(b) : b[i] \in Byte
    BY <2>1
  <2> QED BY <2>1, <2>2, SubSeqProperties DEF First, Data
<1>10. Messages[b] = <<First(b)>> \o Messages[After(b)]
  BY <1>5, <1>6 DEF Step
<1>11. <<First(b)>> \in Seq(Data)
  BY <1>9 DEF Data
<1>12. <<First(b)>> \o Messages[After(b)] \in Seq(Data)
  BY <1>8, <1>11, ConcatProperties
<1> QED BY <1>4, <1>10, <1>12

-----------------------------------------------------------------------------
(* Bytes of whole messages only: what comes after them is not taken for a  *)
(* part of theirs.                                                         *)

Complete(bytes) ==
  \A rest \in Seq(Byte) : Messages[bytes \o rest] = Messages[bytes] \o Messages[rest]

LEMMA MessagesOfNothing ==
  Messages[<<>>] = <<>> /\ Complete(<<>>)
<1>1. <<>> \in Seq(Byte) /\ Len(<<>>) = 0
  OBVIOUS
<1>2. ~StartsWhole(<<>>)
  BY <1>1, OrderDataAssumption DEF StartsWhole
<1>3. Messages[<<>>] = Step(Messages, <<>>)
  BY <1>1, MessagesAt
<1>4. Messages[<<>>] = <<>>
  BY <1>2, <1>3 DEF Step
<1>5. ASSUME NEW rest \in Seq(Byte)
      PROVE  Messages[<<>> \o rest] = Messages[<<>>] \o Messages[rest]
  <2>1. <<>> \o rest = rest
    OBVIOUS
  <2>2. Messages[rest] \in Seq(Data)
    BY MessagesType
  <2>3. <<>> \o Messages[rest] = Messages[rest]
    BY <2>2, ConcatEmptySeq
  <2> QED BY <1>4, <2>1, <2>3
<1> QED BY <1>4, <1>5 DEF Complete

\* A whole message alone.
LEMMA WholeAlone ==
  ASSUME NEW whole \in Seq(Byte), IsWhole(whole)
  PROVE  Messages[whole] = <<Body(whole)>> /\ Complete(whole)
<1>1. Messages[whole \o <<>>] = <<Body(whole)>> \o Messages[<<>>]
  <2>1. <<>> \in Seq(Byte)
    OBVIOUS
  <2> QED BY <2>1, MessagesOfWhole
<1>2. whole \o <<>> = whole
  OBVIOUS
<1>3. Messages[whole] = <<Body(whole)>> \o <<>>
  BY <1>1, <1>2, MessagesOfNothing
<1>4. Body(whole) = Body(whole) /\ <<Body(whole)>> \o <<>> = <<Body(whole)>>
  OBVIOUS
<1>5. Messages[whole] = <<Body(whole)>>
  BY <1>3, <1>4
<1> QED BY <1>5, MessagesOfWhole DEF Complete

LEMMA MessagesConcat ==
  \A a, b \in Seq(Data) : a \o b \in Seq(Data)
  BY ConcatProperties

LEMMA MessagesAssociative ==
  \A a, b, c \in Seq(Data) : (a \o b) \o c = a \o (b \o c)
  BY ConcatAssociative

LEMMA MessagesCancel ==
  \A a, b, c \in Seq(Data) : a \o b = a \o c => b = c
  BY ConcatSimplifications

\* Whole messages, then whole messages.
LEMMA CompleteConcat ==
  ASSUME NEW a \in Seq(Byte), NEW b \in Seq(Byte), Complete(a), Complete(b)
  PROVE  Complete(a \o b)
<1> SUFFICES ASSUME NEW rest \in Seq(Byte)
             PROVE  Messages[(a \o b) \o rest] = Messages[a \o b] \o Messages[rest]
  BY DEF Complete
<1>1. (a \o b) \o rest = a \o (b \o rest) /\ b \o rest \in Seq(Byte)
  BY ConcatAssociative, ConcatProperties
<1>2. Messages[a \o (b \o rest)] = Messages[a] \o (Messages[b] \o Messages[rest])
  BY <1>1 DEF Complete
<1>3. Messages[a \o b] = Messages[a] \o Messages[b]
  BY DEF Complete
<1>4. /\ Messages[a] \in Seq(Data)
      /\ Messages[b] \in Seq(Data)
      /\ Messages[rest] \in Seq(Data)
  BY MessagesType
<1>5. Messages[a] \o (Messages[b] \o Messages[rest]) = (Messages[a] \o Messages[b]) \o Messages[rest]
  BY <1>4, MessagesAssociative
<1> QED BY <1>1, <1>2, <1>3, <1>5

\* Whole messages but the first.
LEMMA CompleteAfter ==
  ASSUME NEW whole \in Seq(Byte), IsWhole(whole), NEW b \in Seq(Byte), Complete(whole \o b)
  PROVE  Complete(b)
<1> SUFFICES ASSUME NEW rest \in Seq(Byte)
             PROVE  Messages[b \o rest] = Messages[b] \o Messages[rest]
  BY DEF Complete
<1>1. (whole \o b) \o rest = whole \o (b \o rest) /\ b \o rest \in Seq(Byte)
  BY ConcatAssociative, ConcatProperties
<1>2. Messages[(whole \o b) \o rest] = Messages[whole \o b] \o Messages[rest]
  BY DEF Complete
<1>3. Messages[whole \o (b \o rest)] = <<Body(whole)>> \o Messages[b \o rest]
  BY <1>1, MessagesOfWhole
<1>4. Messages[whole \o b] = <<Body(whole)>> \o Messages[b]
  BY MessagesOfWhole
<1> DEFINE f == <<Body(whole)>>
<1>5. /\ Messages[b \o rest] \in Seq(Data)
      /\ Messages[b] \in Seq(Data)
      /\ Messages[rest] \in Seq(Data)
      /\ f \in Seq(Data)
  <2>1. Messages[whole] \in Seq(Data)
    BY MessagesType
  <2>2. f \in Seq(Data)
    BY <2>1, WholeAlone
  <2> QED BY <1>1, <2>2, MessagesType
<1> HIDE DEF f
<1>6. f \o Messages[b \o rest] = (f \o Messages[b]) \o Messages[rest]
  BY <1>1, <1>2, <1>3, <1>4 DEF f
<1>7. (f \o Messages[b]) \o Messages[rest] = f \o (Messages[b] \o Messages[rest])
  BY <1>5, MessagesAssociative
<1>8. Messages[b] \o Messages[rest] \in Seq(Data)
  BY <1>5, MessagesConcat
<1> QED BY <1>5, <1>6, <1>7, <1>8, MessagesCancel

\* Where two ways to cut the same bytes differ.
CutBetween(s, t, u, v) ==
  \E b \in Seq(Byte) : u = s \o b /\ t = b \o v /\ Len(u) = Len(s) + Len(b)

LEMMA CutAt ==
  ASSUME NEW s \in Seq(Byte), NEW t \in Seq(Byte), NEW u \in Seq(Byte), NEW v \in Seq(Byte),
         s \o t = u \o v, Len(s) <= Len(u)
  PROVE  CutBetween(s, t, u, v)
<1> DEFINE m == Len(s) + 1
           n == Len(u)
           b == SubSeq(u, m, n)
<1>1. m \in Int /\ n \in Int /\ Len(s) \in Nat /\ n \in Nat /\ m >= 1 /\ \A i \in m .. n : u[i] \in Byte
  OBVIOUS
<1>2. b \in Seq(Byte) /\ Len(b) = (IF m <= n THEN n - m + 1 ELSE 0) /\ \A i \in 1 .. n - m + 1 : b[i] = u[m + i - 1]
  <2> HIDE DEF m, n
  <2> QED BY <1>1, SubSeqProperties
<1> HIDE DEF b
<1>3. Len(b) = Len(u) - Len(s) /\ \A i \in 1 .. Len(b) : b[i] = u[Len(s) + i]
  BY <1>1, <1>2
<1>4. u = s \o b
  <2>1. s \o b \in Seq(Byte) /\ Len(s \o b) = Len(u)
    BY <1>2, <1>3
  <2>2. ASSUME NEW i \in 1 .. Len(u)
        PROVE  u[i] = (s \o b)[i]
    <3>1. CASE i <= Len(s)
      <4>1. (s \o t)[i] = s[i] /\ (u \o v)[i] = u[i] /\ (s \o b)[i] = s[i]
        BY <1>2, <2>1, <3>1
      <4> QED BY <4>1
    <3>2. CASE ~(i <= Len(s))
      <4>1. (s \o b)[i] = b[i - Len(s)] /\ i - Len(s) \in 1 .. Len(b)
        BY <1>2, <1>3, <2>1, <3>2
      <4>2. b[i - Len(s)] = u[Len(s) + (i - Len(s))] /\ Len(s) + (i - Len(s)) = i
        BY <1>3, <4>1
      <4> QED BY <4>1, <4>2
    <3> QED BY <3>1, <3>2
  <2> QED BY <2>1, <2>2, SeqEqual
<1>5. s \o t = s \o (b \o v)
  BY <1>2, <1>4, ConcatAssociative
<1>6. t = b \o v
  BY <1>2, <1>5, ConcatSimplifications, ConcatProperties
<1>7. Len(u) = Len(s) + Len(b)
  BY <1>1, <1>2, <1>3
<1> QED BY <1>2, <1>4, <1>6, <1>7 DEF CutBetween

\* The whole message at the start is the first of the whole messages.
StillComplete(bytes, part) == \E b \in Seq(Byte) : bytes = b \o part /\ Complete(b)

LEMMA TakeFirst ==
  ASSUME NEW whole \in Seq(Byte), IsWhole(whole), NEW rest \in Seq(Byte),
         NEW before \in Seq(Byte), NEW part \in Seq(Byte),
         whole \o rest = before \o part, Complete(before), ~StartsWhole(part)
  PROVE  StillComplete(rest, part)
<1>1. CASE Len(whole) <= Len(before)
  <2>1. PICK b \in Seq(Byte) : before = whole \o b /\ rest = b \o part
    <3>1. CutBetween(whole, rest, before, part)
      BY <1>1, CutAt
    <3> QED BY <3>1 DEF CutBetween
  <2>2. Complete(whole \o b)
    BY <2>1
  <2> QED BY <2>1, <2>2, CompleteAfter DEF StillComplete
<1>2. CASE ~(Len(whole) <= Len(before))
  <2>1. Len(before) <= Len(whole) /\ Len(whole) \in Nat /\ Len(before) \in Nat
    BY <1>2
  <2>2. PICK x \in Seq(Byte) : whole = before \o x /\ part = x \o rest /\ Len(whole) = Len(before) + Len(x)
    <3>1. CutBetween(before, part, whole, rest)
      BY <2>1, CutAt
    <3> QED BY <3>1 DEF CutBetween
  <2>3. SizeT \in Nat \ {0} /\ Len(whole) >= SizeT /\ Len(whole) = SizeT + FirstLength(whole) /\ Len(x) \in Nat
    BY OrderDataAssumption DEF IsWhole
  <2>4. CASE before = <<>>
    <3>1. part = whole \o rest
      <4>1. <<>> \o x = x
        OBVIOUS
      <4> QED BY <2>2, <2>4, <4>1
    <3> QED BY <3>1, MessagesOfWhole
  <2>5. CASE before # <<>>
    <3>1. Len(x) < Len(whole) /\ Len(before) < Len(whole)
      BY <1>2, <2>1, <2>2, <2>3, <2>5
    <3>2. ~StartsWhole(before)
      <4>1. SUFFICES ASSUME Len(before) >= SizeT, FirstLength(before) \in 0 .. Len(before) - SizeT
                     PROVE  FALSE
        BY DEF StartsWhole
      <4>2. 0 \in Nat /\ 0 + SizeT <= Len(before)
        BY <2>3, <4>1
      <4>3. FirstLength(before) = FirstLength(whole)
        BY <2>2, <2>3, <4>2, ValueOfPrefix DEF FirstLength
      <4> QED BY <2>1, <2>3, <3>1, <4>1, <4>3
    <3>3. Messages[before] = <<>>
      BY <3>2, MessagesAt DEF Step
    <3>4. Messages[whole] = <<>> \o Messages[x]
      BY <2>2, <3>3 DEF Complete
    <3>5. Messages[x] \in Seq(Data)
      BY MessagesType
    <3>6. <<>> \o Messages[x] = Messages[x]
      BY <3>5, ConcatEmptySeq
    <3>7. Messages[x] = <<Body(whole)>>
      BY <3>4, <3>6, WholeAlone
    <3>8. Messages[x] = Step(Messages, x)
      BY MessagesAt
    <3>9. StartsWhole(x)
      <4>1. <<Body(whole)>> # <<>>
        OBVIOUS
      <4> QED BY <3>7, <3>8, <4>1 DEF Step
    <3>10. After(x) \in Seq(Byte)
      BY <3>9, AfterIsShorter
    <3>11. Messages[After(x)] \in Seq(Data)
      BY <3>10, MessagesType
    <3>12. Messages[x] = <<First(x)>> \o Messages[After(x)]
      BY <3>8, <3>9 DEF Step
    <3>13. (<<First(x)>> \o Messages[After(x)])[1] = First(x)
      BY <3>11
    <3>14. First(x) = Body(whole)
      BY <3>7, <3>12, <3>13
    <3>15. Len(First(x)) = FirstLength(x) /\ FirstLength(x) <= Len(x) - SizeT /\ FirstLength(x) \in Nat
      <4>1. FirstLength(x) \in Nat /\ FirstLength(x) <= Len(x) - SizeT
        BY <2>3, <3>9 DEF StartsWhole
      <4>2. \A i \in SizeT + 1 .. SizeT + FirstLength(x) : x[i] \in Byte
        BY <2>3, <4>1
      <4>3. SizeT + 1 \in Int /\ SizeT + FirstLength(x) \in Int
        BY <2>3, <4>1
      <4> DEFINE n == SizeT + FirstLength(x)
      <4>4. Len(SubSeq(x, SizeT + 1, n)) = IF SizeT + 1 <= n THEN n - (SizeT + 1) + 1 ELSE 0
        <5> HIDE DEF n
        <5> QED BY <4>2, <4>3, SubSeqProperties DEF n
      <4>5. n - (SizeT + 1) + 1 = FirstLength(x) /\ (SizeT + 1 <= n <=> FirstLength(x) # 0)
        BY <2>3, <4>1
      <4> HIDE DEF n
      <4> QED BY <4>1, <4>4, <4>5 DEF First, n
    <3>16. Len(Body(whole)) = Len(whole) - SizeT
      <4>1. \A i \in SizeT + 1 .. Len(whole) : whole[i] \in Byte
        BY <2>1, <2>3
      <4>2. SizeT + 1 \in Int /\ Len(whole) \in Int
        BY <2>1, <2>3
      <4>3. Len(Body(whole)) = IF SizeT + 1 <= Len(whole) THEN Len(whole) - (SizeT + 1) + 1 ELSE 0
        BY <4>1, <4>2, SubSeqProperties DEF Body
      <4> QED BY <2>1, <2>3, <4>3
    <3> QED BY <2>1, <2>3, <3>1, <3>14, <3>15, <3>16
  <2> QED BY <2>4, <2>5
<1> QED BY <1>1, <1>2

-----------------------------------------------------------------------------
(* Sequences put together: FlattenSeq, too, is defined by recursion.       *)

Flattening(f, seqs, n) ==
  f = [i \in 1 .. n |-> IF i = 1 THEN seqs[i] ELSE f[i - 1] \o seqs[i]]

LEMMA FlatteningFirst ==
  ASSUME NEW f, NEW seqs, NEW n \in Nat \ {0}, Flattening(f, seqs, n)
  PROVE  f[1] = seqs[1]
<1>1. 1 \in 1 .. n
  OBVIOUS
<1> QED BY <1>1 DEF Flattening

Join(a, b) == a \o b

LEMMA FlatteningNext ==
  ASSUME NEW f, NEW seqs, NEW n \in Nat, Flattening(f, seqs, n),
         NEW i \in 1 .. n, NEW j \in Nat, i = j + 1, j # 0
  PROVE  f[i] = Join(f[j], seqs[i])
<1>1. i # 1 /\ i - 1 = j
  OBVIOUS
<1>2. f[i] = f[i - 1] \o seqs[i]
  BY <1>1 DEF Flattening
<1> QED BY <1>1, <1>2 DEF Join

LEMMA FlatteningExists ==
  ASSUME NEW seqs, NEW n \in Nat
  PROVE  \E f : Flattening(f, seqs, n)
<1> DEFINE Bad == {k \in Nat : ~\E f : Flattening(f, seqs, k)}
<1>1. SUFFICES ASSUME n \in Bad PROVE FALSE
  OBVIOUS
<1>2. PICK k \in Bad : \A j \in Bad : k <= j
  <2>1. Bad \subseteq Nat
    OBVIOUS
  <2> HIDE DEF Bad
  <2> QED BY <1>1, <2>1, LeastNumber
<1>3. k \in Nat /\ ~\E f : Flattening(f, seqs, k)
  BY <1>2
<1>4. CASE k = 0
  <2> DEFINE f == [i \in 1 .. 0 |-> seqs[i]]
  <2>1. f = [i \in 1 .. 0 |-> IF i = 1 THEN seqs[i] ELSE f[i - 1] \o seqs[i]]
    OBVIOUS
  <2>2. Flattening(f, seqs, 0)
    BY <2>1 DEF Flattening
  <2> QED BY <1>3, <1>4, <2>2
<1>5. CASE k # 0
  <2>1. k - 1 \in Nat /\ ~(k <= k - 1)
    BY <1>3, <1>5
  <2>2. PICK f : Flattening(f, seqs, k - 1)
    BY <1>2, <2>1
  <2> DEFINE g == [i \in 1 .. k |-> IF i = 1 THEN seqs[i] ELSE f[i - 1] \o seqs[i]]
  <2>3. ASSUME NEW i \in 1 .. k - 1
        PROVE  f[i] = IF i = 1 THEN seqs[i] ELSE f[i - 1] \o seqs[i]
    BY <2>2 DEF Flattening
  <2>4. ASSUME NEW i \in 1 .. k - 1
        PROVE  g[i] = f[i]
    <3>1. i \in 1 .. k
      BY <1>3
    <3> QED BY <2>3, <3>1
  <2>5. ASSUME NEW i \in 1 .. k, i # 1
        PROVE  g[i - 1] = f[i - 1]
    <3>1. i - 1 \in 1 .. k - 1
      BY <1>3, <2>5
    <3> QED BY <2>4, <3>1
  <2>6. g = [i \in 1 .. k |-> IF i = 1 THEN seqs[i] ELSE g[i - 1] \o seqs[i]]
    BY <2>5
  <2>7. Flattening(g, seqs, k)
    BY <2>6 DEF Flattening
  <2> QED BY <1>3, <2>7
<1> QED BY <1>4, <1>5

LEMMA FlattenSeqIs ==
  ASSUME NEW seqs, Len(seqs) \in Nat \ {0}
  PROVE  \E f : Flattening(f, seqs, Len(seqs)) /\ FlattenSeq(seqs) = f[Len(seqs)]
<1> DEFINE n == Len(seqs)
           f == CHOOSE g : Flattening(g, seqs, n)
<1>1. Flattening(f, seqs, n)
  BY FlatteningExists
<1>2. FlattenSeq(seqs) = f[n]
  BY DEF FlattenSeq, Flattening
<1> QED BY <1>1, <1>2

\* No sequence, one, and two.
LEMMA FlattenSmall ==
  /\ FlattenSeq(<<>>) = <<>>
  /\ \A a : FlattenSeq(<<a>>) = a
  /\ \A a, b : FlattenSeq(<<a, b>>) = a \o b
<1>1. FlattenSeq(<<>>) = <<>>
  BY DEF FlattenSeq
<1>2. ASSUME NEW a
      PROVE  FlattenSeq(<<a>>) = a
  <2> DEFINE s == <<a>>
  <2>1. Len(s) = 1 /\ s[1] = a /\ 1 \in Nat \ {0}
    OBVIOUS
  <2> HIDE DEF s
  <2>2. PICK f : Flattening(f, s, 1) /\ FlattenSeq(s) = f[1]
    BY <2>1, FlattenSeqIs
  <2>3. f[1] = s[1]
    BY <2>1, <2>2, FlatteningFirst
  <2> QED BY <2>1, <2>2, <2>3 DEF s
<1>3. ASSUME NEW a, NEW b
      PROVE  FlattenSeq(<<a, b>>) = a \o b
  <2> DEFINE s == <<a, b>>
  <2>1. Len(s) = 2 /\ s[1] = a /\ s[2] = b
    OBVIOUS
  <2> HIDE DEF s
  <2>2. PICK f : Flattening(f, s, 2) /\ FlattenSeq(s) = f[2]
    BY <2>1, FlattenSeqIs
  <2>3. f[1] = s[1]
    BY <2>2, FlatteningFirst
  <2>4. 2 \in 1 .. 2 /\ 1 \in Nat /\ 2 = 1 + 1 /\ 1 # 0
    OBVIOUS
  <2>5. f[2] = Join(f[1], s[2])
    BY <2>2, <2>4, FlatteningNext
  <2> QED BY <2>1, <2>2, <2>3, <2>5 DEF s, Join
<1> QED BY <1>1, <1>2, <1>3

-----------------------------------------------------------------------------
(* The bytes of a link: i have been read, p are in the kernel, and o is    *)
(* what is still to be written.                                            *)

Ways(i, p, o) == i \o p \o FlattenSeq(o)

Portion(a) == a \in Seq(Byte) /\ a # <<>>

\* The length of a message and its data, the data, or nothing, in whole or in part.
Portions(o) ==
  \/ o = <<>>
  \/ \E a : Portion(a) /\ o = <<a>>
  \/ \E a, b : Portion(a) /\ Portion(b) /\ o = <<a, b>>

LinkBytes(i, p, o) == i \in Seq(Byte) /\ p \in Seq(Byte) /\ Portions(o)

\* What has left the writer is whole messages and then a part of the one that it is
\* writing, if it is.
Sent(y, o, before, part) ==
  /\ y = before \o part
  /\ Complete(before)
  /\ o = <<>> => part = <<>>
  /\ o # <<>> => \E data \in Seq(Byte) : part \o FlattenSeq(o) = Frame(data)

Framed(i, p, o) == \E before, part \in Seq(Byte) : Sent(i \o p, o, before, part)

LEMMA PortionsFlat ==
  ASSUME NEW o, Portions(o)
  PROVE  /\ FlattenSeq(o) \in Seq(Byte)
         /\ o # <<>> => FlattenSeq(o) # <<>>
         /\ o = <<>> => FlattenSeq(o) = <<>>
<1>1. CASE o = <<>>
  <2>1. FlattenSeq(o) = <<>>
    BY <1>1, FlattenSmall
  <2>2. <<>> \in Seq(Byte)
    OBVIOUS
  <2> QED BY <1>1, <2>1, <2>2
<1>2. ASSUME NEW a, Portion(a), o = <<a>>
      PROVE  FlattenSeq(o) \in Seq(Byte) /\ FlattenSeq(o) # <<>> /\ o # <<>>
  <2>1. FlattenSeq(o) = a
    BY <1>2, FlattenSmall
  <2> QED BY <1>2, <2>1 DEF Portion
<1>3. ASSUME NEW a, NEW b, Portion(a), Portion(b), o = <<a, b>>
      PROVE  FlattenSeq(o) \in Seq(Byte) /\ FlattenSeq(o) # <<>> /\ o # <<>>
  <2>1. FlattenSeq(o) = a \o b
    BY <1>3, FlattenSmall
  <2>2. a \o b \in Seq(Byte) /\ a \o b # <<>>
    BY <1>3, ConcatProperties, ConcatEqualIffEmpty DEF Portion
  <2> QED BY <1>3, <2>1, <2>2
<1> QED BY <1>1, <1>2, <1>3 DEF Portions

LEMMA WaysType ==
  ASSUME NEW i, NEW p, NEW o, LinkBytes(i, p, o)
  PROVE  /\ Ways(i, p, o) \in Seq(Byte)
         /\ Messages[Ways(i, p, o)] \in Seq(Data)
<1>1. Ways(i, p, o) \in Seq(Byte)
  BY PortionsFlat, ConcatProperties DEF LinkBytes, Ways
<1> QED BY <1>1, MessagesType

\* conn_send puts a message at the end.
LEMMA SendOne ==
  ASSUME NEW i, NEW p, LinkBytes(i, p, <<>>), Framed(i, p, <<>>),
         NEW data \in Seq(Byte), data # <<>>,
         NEW o, o = <<Bytes(Len(data), SizeT), data>>
  PROVE  /\ LinkBytes(i, p, o) /\ Framed(i, p, o)
         /\ Messages[Ways(i, p, o)] = Append(Messages[Ways(i, p, <<>>)], data)
<1> DEFINE b == Bytes(Len(data), SizeT)
<1>1. Portion(b) /\ Portion(data)
  <2>1. Len(data) \in Int /\ SizeT \in Nat \ {0}
    BY OrderDataAssumption
  <2>2. b \in Seq(Byte) /\ Len(b) = SizeT
    BY <2>1, BytesType
  <2> QED BY <2>1, <2>2 DEF Portion
<1>2. LinkBytes(i, p, o)
  BY <1>1 DEF LinkBytes, Portions
<1>3. FlattenSeq(o) = Frame(data)
  BY FlattenSmall DEF Frame
<1>4. PICK before, part \in Seq(Byte) : Sent(i \o p, <<>>, before, part)
  BY DEF Framed
<1>5. part = <<>> /\ i \o p = before \o part /\ Complete(before)
  BY <1>4 DEF Sent
<1>6. i \o p = before
  BY <1>5
<1>7. Frame(data) \in Seq(Byte) /\ IsWhole(Frame(data)) /\ Body(Frame(data)) = data
  BY FrameIsWhole
<1>8. part \o FlattenSeq(o) = Frame(data)
  BY <1>3, <1>5, <1>7
<1>9. Framed(i, p, o)
  <2>1. o # <<>>
    OBVIOUS
  <2>2. Sent(i \o p, o, before, part)
    BY <1>5, <1>8, <2>1 DEF Sent
  <2> QED BY <2>2 DEF Framed
<1>10. Ways(i, p, o) = before \o Frame(data) /\ Ways(i, p, <<>>) = before
  <2>1. FlattenSeq(<<>>) = <<>>
    BY FlattenSmall
  <2>2. before \o <<>> = before
    OBVIOUS
  <2> QED BY <1>3, <1>6, <2>1, <2>2 DEF Ways
<1>11. Messages[before \o Frame(data)] = Messages[before] \o <<data>>
  <2>1. Messages[Frame(data)] = <<data>>
    BY <1>7, WholeAlone
  <2> QED BY <1>5, <1>7, <2>1 DEF Complete
<1>12. Append(Messages[before], data) = Messages[before] \o <<data>>
  <2>1. Messages[before] \in Seq(Data) /\ data \in Data
    BY MessagesType DEF Data
  <2> QED BY <2>1, AppendIsConcat
<1> QED BY <1>2, <1>9, <1>10, <1>11, <1>12

Associative(a, b, c) == (a \o b) \o c = a \o (b \o c)

LEMMA BytesAssociative ==
  ASSUME NEW a \in Seq(Byte), NEW b \in Seq(Byte), NEW c \in Seq(Byte)
  PROVE  Associative(a, b, c)
  BY ConcatAssociative DEF Associative

\* A piece is cut.
Cut(a, n, w, r) == Portion(w) /\ Portion(r) /\ a = w \o r

LEMMA PieceCut ==
  ASSUME NEW a, Portion(a), NEW n \in 1 .. Len(a), n # Len(a)
  PROVE  Cut(a, n, SubSeq(a, 1, n), SubSeq(a, n + 1, Len(a)))
<1> DEFINE w == SubSeq(a, 1, n)
           r == SubSeq(a, n + 1, Len(a))
<1>1. a \in Seq(Byte) /\ Len(a) \in Nat /\ n \in Nat /\ 1 <= n /\ n < Len(a)
  BY DEF Portion
<1>2. w \in Seq(Byte) /\ Len(w) = n
  <2>1. \A k \in 1 .. n : a[k] \in Byte
    BY <1>1
  <2>2. 1 \in Int /\ n \in Int
    BY <1>1
  <2>3. w \in Seq(Byte) /\ Len(w) = IF 1 <= n THEN n - 1 + 1 ELSE 0
    BY <2>1, <2>2, SubSeqProperties
  <2> QED BY <1>1, <2>3
<1>3. r \in Seq(Byte) /\ Len(r) = Len(a) - n
  <2> DEFINE m == n + 1
             l == Len(a)
  <2>1. \A k \in m .. l : a[k] \in Byte
    BY <1>1
  <2>2. m \in Int /\ l \in Int
    BY <1>1
  <2>3. m <= l /\ l - m + 1 = Len(a) - n
    BY <1>1
  <2>4. r = SubSeq(a, m, l)
    OBVIOUS
  <2> HIDE DEF m, l, r
  <2>5. r \in Seq(Byte) /\ Len(r) = IF m <= l THEN l - m + 1 ELSE 0
    BY <2>1, <2>2, <2>4, SubSeqProperties
  <2> QED BY <2>3, <2>5
<1>4. w \o r = SubSeq(a, 1, Len(a))
  <2>1. 1 \in 1 .. Len(a) + 1 /\ n \in 1 - 1 .. Len(a) /\ Len(a) \in n .. Len(a)
    BY <1>1
  <2> QED BY <1>1, <2>1, ConcatAdjacentSubSeq
<1>5. SubSeq(a, 1, Len(a)) = a
  BY <1>1, SubSeqFull
<1> HIDE DEF w, r
<1>6. Portion(w) /\ Portion(r)
  BY <1>1, <1>2, <1>3 DEF Portion
<1> QED BY <1>4, <1>5, <1>6 DEF Cut, w, r

LEMMA TwoPieces ==
  ASSUME NEW a, NEW b
  PROVE  <<a>> \o <<b>> = <<a, b>> /\ Tail(<<a, b>>) = <<b>> /\ Head(<<a, b>>) = a
<1> DEFINE S == {a, b}
           c == <<a>> \o <<b>>
<1>1. /\ <<a>> \in Seq(S) /\ <<b>> \in Seq(S) /\ <<a, b>> \in Seq(S)
      /\ Len(<<a>>) = 1 /\ Len(<<b>>) = 1 /\ Len(<<a, b>>) = 2
  OBVIOUS
<1>2. c \in Seq(S) /\ Len(c) = 2 /\ c[1] = a /\ c[2] = b
  BY <1>1
<1> HIDE DEF c
<1>3. \A i \in 1 .. 2 : c[i] = <<a, b>>[i]
  BY <1>2
<1>4. c = <<a, b>>
  BY <1>1, <1>2, <1>3, SeqEqual
<1>5. Tail(<<a, b>>) = <<b>> /\ Head(<<a, b>>) = a
  OBVIOUS
<1> QED BY <1>4, <1>5 DEF c

\* What write() takes of what is to be written, and what it leaves.
Taken(o, n) == SubSeq(Head(o), 1, n)
Left(o, n) == IF n = Len(Head(o)) THEN Tail(o)
              ELSE <<SubSeq(Head(o), n + 1, Len(Head(o)))>> \o Tail(o)

WroteSome(o, w, l) == Portion(w) /\ Portions(l) /\ FlattenSeq(o) = w \o FlattenSeq(l)

LEMMA WriteSome ==
  ASSUME NEW o, Portions(o), o # <<>>, NEW n \in 1 .. Len(Head(o))
  PROVE  WroteSome(o, Taken(o, n), Left(o, n))
<1>1. ASSUME NEW a, Portion(a), o = <<a>>
      PROVE  WroteSome(o, Taken(o, n), Left(o, n))
  <2>1. Head(o) = a /\ Tail(o) = <<>> /\ FlattenSeq(o) = a /\ FlattenSeq(<<>>) = <<>>
    BY <1>1, FlattenSmall
  <2>2. CASE n = Len(a)
    <3>1. Taken(o, n) = a
      BY <1>1, <2>1, <2>2, SubSeqFull DEF Taken, Portion
    <3>2. Left(o, n) = <<>>
      BY <2>1, <2>2 DEF Left
    <3>3. a = a \o <<>>
      BY <1>1 DEF Portion
    <3> QED BY <1>1, <2>1, <3>1, <3>2, <3>3 DEF WroteSome, Portions
  <2>3. CASE n # Len(a)
    <3> DEFINE w == SubSeq(a, 1, n)
               r == SubSeq(a, n + 1, Len(a))
    <3>1. Cut(a, n, w, r)
      BY <1>1, <2>1, <2>3, PieceCut
    <3>2. Taken(o, n) = w
      BY <2>1 DEF Taken
    <3>3. Left(o, n) = <<r>> \o <<>>
      BY <2>1, <2>3 DEF Left
    <3> HIDE DEF w, r
    <3>4. Left(o, n) = <<r>>
      BY <3>3
    <3>5. FlattenSeq(<<r>>) = r
      BY FlattenSmall
    <3> QED BY <2>1, <3>1, <3>2, <3>4, <3>5 DEF WroteSome, Portions, Cut
  <2> QED BY <2>2, <2>3
<1>2. ASSUME NEW a, NEW b, Portion(a), Portion(b), o = <<a, b>>
      PROVE  WroteSome(o, Taken(o, n), Left(o, n))
  <2>1. Head(o) = a /\ Tail(o) = <<b>> /\ FlattenSeq(o) = a \o b /\ FlattenSeq(<<b>>) = b
    <3>1. FlattenSeq(<<a, b>>) = a \o b /\ FlattenSeq(<<b>>) = b
      BY FlattenSmall
    <3> QED BY <1>2, <3>1, TwoPieces
  <2>2. CASE n = Len(a)
    <3>1. Taken(o, n) = a
      BY <1>2, <2>1, <2>2, SubSeqFull DEF Taken, Portion
    <3>2. Left(o, n) = <<b>>
      BY <2>1, <2>2 DEF Left
    <3> QED BY <1>2, <2>1, <3>1, <3>2 DEF WroteSome, Portions
  <2>3. CASE n # Len(a)
    <3> DEFINE w == SubSeq(a, 1, n)
               r == SubSeq(a, n + 1, Len(a))
    <3>1. Cut(a, n, w, r)
      BY <1>2, <2>1, <2>3, PieceCut
    <3>2. Taken(o, n) = w
      BY <2>1 DEF Taken
    <3>3. Left(o, n) = <<r>> \o <<b>>
      BY <2>1, <2>3 DEF Left
    <3> HIDE DEF w, r
    <3>4. Left(o, n) = <<r, b>>
      BY <3>3, TwoPieces
    <3>5. FlattenSeq(<<r, b>>) = r \o b
      BY FlattenSmall
    <3>6. (w \o r) \o b = w \o (r \o b)
      BY <1>2, <3>1, ConcatAssociative DEF Cut, Portion
    <3>7. FlattenSeq(o) = w \o FlattenSeq(Left(o, n))
      BY <2>1, <3>1, <3>4, <3>5, <3>6 DEF Cut
    <3>8. Portions(Left(o, n)) /\ Portion(w)
      BY <1>2, <3>1, <3>4 DEF Portions, Cut
    <3> QED BY <3>2, <3>7, <3>8 DEF WroteSome
  <2> QED BY <2>2, <2>3
<1> QED BY <1>1, <1>2 DEF Portions

\* Writing moves bytes, and changes no message.
LEMMA WriteOne ==
  ASSUME NEW i, NEW p, NEW o, LinkBytes(i, p, o), o # <<>>, NEW n \in 1 .. Len(Head(o))
  PROVE  /\ LinkBytes(i, p \o Taken(o, n), Left(o, n))
         /\ Ways(i, p \o Taken(o, n), Left(o, n)) = Ways(i, p, o)
         /\ Framed(i, p, o) => Framed(i, p \o Taken(o, n), Left(o, n))
<1> DEFINE w == Taken(o, n)
           l == Left(o, n)
           q == p \o w
           r == FlattenSeq(l)
<1>1. WroteSome(o, w, l)
  BY WriteSome DEF LinkBytes
<1> HIDE DEF w, l
<1>2. w \in Seq(Byte) /\ w # <<>> /\ Portions(l) /\ FlattenSeq(o) = w \o r
  BY <1>1 DEF WroteSome, Portion
<1>3. i \in Seq(Byte) /\ p \in Seq(Byte) /\ q \in Seq(Byte) /\ r \in Seq(Byte)
  BY <1>2, PortionsFlat, ConcatProperties DEF LinkBytes
<1>4. LinkBytes(i, q, l)
  BY <1>2, <1>3 DEF LinkBytes
<1> HIDE DEF r
<1>5. i \o q = (i \o p) \o w
  BY <1>2, <1>3, ConcatAssociative
<1>6. Ways(i, q, l) = Ways(i, p, o)
  <2>1. i \o p \in Seq(Byte)
    BY <1>3, ConcatProperties
  <2>2. ((i \o p) \o w) \o r = (i \o p) \o (w \o r)
    BY <2>1, <1>2, <1>3, ConcatAssociative
  <2> QED BY <1>2, <1>5, <2>2 DEF Ways, r
<1>7. ASSUME NEW before \in Seq(Byte), NEW part \in Seq(Byte), Sent(i \o p, o, before, part)
      PROVE  Framed(i, q, l)
  <2>1. i \o p = before \o part /\ Complete(before)
    BY <1>7 DEF Sent
  <2>2. PICK data \in Seq(Byte) : part \o FlattenSeq(o) = Frame(data)
    BY <1>7 DEF Sent
  <2>3. i \o q = before \o (part \o w) /\ part \o w \in Seq(Byte)
    <3>1. (before \o part) \o w = before \o (part \o w)
      BY <1>2, ConcatAssociative
    <3>2. part \o w \in Seq(Byte)
      BY <1>2, ConcatProperties
    <3> QED BY <1>5, <2>1, <3>1, <3>2
  <2>4. (part \o w) \o r = Frame(data)
    <3>1. w \in Seq(Byte) /\ r \in Seq(Byte)
      BY <1>2, <1>3
    <3>2. Associative(part, w, r)
      BY <3>1, BytesAssociative
    <3> QED BY <1>2, <2>2, <3>2 DEF Associative
  <2>5. CASE l # <<>>
    <3>1. Sent(i \o q, l, before, part \o w)
      BY <2>1, <2>3, <2>4, <2>5 DEF Sent, r
    <3> QED BY <2>3, <3>1 DEF Framed
  <2>6. CASE l = <<>>
    <3>1. r = <<>>
      BY <1>2, <2>6, PortionsFlat DEF r
    <3>2. part \o w = Frame(data)
      BY <2>3, <2>4, <3>1
    <3>3. Complete(part \o w)
      BY <3>2, FrameIsWhole, WholeAlone
    <3> DEFINE b == before \o (part \o w)
    <3>4. Complete(b) /\ b \in Seq(Byte)
      BY <2>1, <2>3, <3>3, CompleteConcat, ConcatProperties
    <3>5. i \o q = b
      BY <2>3
    <3> HIDE DEF b
    <3>6. i \o q = b \o <<>> /\ <<>> \in Seq(Byte)
      BY <3>4, <3>5
    <3>7. Sent(i \o q, l, b, <<>>)
      BY <2>6, <3>4, <3>6 DEF Sent
    <3> QED BY <3>4, <3>6, <3>7 DEF Framed
  <2> QED BY <2>5, <2>6
<1>8. Framed(i, p, o) => Framed(i, q, l)
  BY <1>7 DEF Framed
<1> QED BY <1>4, <1>6, <1>8 DEF w, l

\* Reading moves bytes, and changes no message.
LEMMA ReadOne ==
  ASSUME NEW i, NEW p, NEW o, LinkBytes(i, p, o), NEW n \in 1 .. Len(p)
  PROVE  /\ LinkBytes(i \o SubSeq(p, 1, n), SubSeq(p, n + 1, Len(p)), o)
         /\ Ways(i \o SubSeq(p, 1, n), SubSeq(p, n + 1, Len(p)), o) = Ways(i, p, o)
         /\ Framed(i, p, o) => Framed(i \o SubSeq(p, 1, n), SubSeq(p, n + 1, Len(p)), o)
<1> DEFINE w == SubSeq(p, 1, n)
           r == SubSeq(p, n + 1, Len(p))
<1>1. i \in Seq(Byte) /\ p \in Seq(Byte)
  BY DEF LinkBytes
<1>2. w \in Seq(Byte) /\ r \in Seq(Byte) /\ p = w \o r
  <2>1. CASE n = Len(p)
    <3>1. w = p /\ Len(p) + 1 \in Int /\ Len(p) \in Int /\ Len(p) < Len(p) + 1
      BY <1>1, <2>1, SubSeqFull
    <3>2. r = <<>>
      BY <2>1, <3>1, SubSeqEmpty
    <3>3. <<>> \in Seq(Byte)
      OBVIOUS
    <3> QED BY <1>1, <3>1, <3>2, <3>3
  <2>2. CASE n # Len(p)
    <3>1. Portion(p)
      BY <1>1 DEF Portion
    <3>2. Cut(p, n, w, r)
      BY <2>2, <3>1, PieceCut
    <3> QED BY <3>2 DEF Cut, Portion
  <2> QED BY <2>1, <2>2
<1> HIDE DEF w, r
<1>3. LinkBytes(i \o w, r, o)
  BY <1>1, <1>2, ConcatProperties DEF LinkBytes
<1>4. (i \o w) \o r = i \o p
  BY <1>1, <1>2, ConcatAssociative
<1> QED BY <1>3, <1>4 DEF w, r, Ways, Framed

\* conn_receive takes the first message, whether or not the last is whole.
LEMMA TakeOne ==
  ASSUME NEW i, NEW p, NEW o, LinkBytes(i, p, o), IsWhole(i)
  PROVE  /\ LinkBytes(<<>>, p, o)
         /\ Messages[Ways(i, p, o)] = <<Body(i)>> \o Messages[Ways(<<>>, p, o)]
         /\ Framed(i, p, o) => Framed(<<>>, p, o)
<1> DEFINE f == FlattenSeq(o)
<1>1. i \in Seq(Byte) /\ p \in Seq(Byte) /\ f \in Seq(Byte) /\ <<>> \in Seq(Byte)
  BY PortionsFlat DEF LinkBytes
<1>2. LinkBytes(<<>>, p, o)
  BY <1>1 DEF LinkBytes
<1> HIDE DEF f
<1>3. Ways(i, p, o) = i \o (p \o f) /\ Ways(<<>>, p, o) = p \o f /\ p \o f \in Seq(Byte)
  <2>1. (i \o p) \o f = i \o (p \o f)
    BY <1>1, ConcatAssociative
  <2>2. <<>> \o p = p
    BY <1>1
  <2>3. p \o f \in Seq(Byte)
    BY <1>1, ConcatProperties
  <2> QED BY <2>1, <2>2, <2>3 DEF Ways, f
<1>4. Messages[Ways(i, p, o)] = <<Body(i)>> \o Messages[Ways(<<>>, p, o)]
  BY <1>1, <1>3, MessagesOfWhole
<1>5. ASSUME NEW before \in Seq(Byte), NEW part \in Seq(Byte), Sent(i \o p, o, before, part)
      PROVE  Framed(<<>>, p, o)
  <2>1. i \o p = before \o part /\ Complete(before)
    BY <1>5 DEF Sent
  <2>2. ~StartsWhole(part)
    <3>1. CASE o = <<>>
      <4>1. part = <<>> /\ Len(<<>>) = 0
        BY <1>5, <3>1 DEF Sent
      <4> QED BY <4>1, OrderDataAssumption DEF StartsWhole
    <3>2. CASE o # <<>>
      <4>1. PICK data \in Seq(Byte) : part \o f = Frame(data)
        BY <1>5, <3>2 DEF Sent, f
      <4>2. f # <<>>
        BY <3>2, PortionsFlat DEF LinkBytes, f
      <4> QED BY <1>1, <4>1, <4>2, PartOfFrame
    <3> QED BY <3>1, <3>2
  <2>3. PICK b \in Seq(Byte) : p = b \o part /\ Complete(b)
    <3>1. StillComplete(p, part)
      BY <1>1, <2>1, <2>2, TakeFirst
    <3> QED BY <3>1 DEF StillComplete
  <2>4. <<>> \o p = b \o part
    BY <1>1, <2>3
  <2>5. Sent(<<>> \o p, o, b, part)
    BY <1>5, <2>3, <2>4 DEF Sent
  <2> QED BY <2>5 DEF Framed
<1>6. Framed(i, p, o) => Framed(<<>>, p, o)
  BY <1>5 DEF Framed
<1> QED BY <1>2, <1>4, <1>6

\* The writer ends: the message that it was sending, the last one, is lost.
LEMMA BreakOne ==
  ASSUME NEW i, NEW p, NEW o, LinkBytes(i, p, o), Framed(i, p, o), o # <<>>
  PROVE  /\ LinkBytes(i, p, <<>>)
         /\ \E data \in Seq(Byte) :
              Messages[Ways(i, p, o)] = Append(Messages[Ways(i, p, <<>>)], data)
<1> DEFINE f == FlattenSeq(o)
<1>1. i \in Seq(Byte) /\ p \in Seq(Byte) /\ f \in Seq(Byte) /\ f # <<>>
  BY PortionsFlat DEF LinkBytes
<1>2. LinkBytes(i, p, <<>>)
  BY <1>1 DEF LinkBytes, Portions
<1>3. PICK before, part \in Seq(Byte) : Sent(i \o p, o, before, part)
  BY DEF Framed
<1>4. i \o p = before \o part /\ Complete(before)
  BY <1>3 DEF Sent
<1>5. PICK data \in Seq(Byte) : part \o f = Frame(data)
  BY <1>3 DEF Sent
<1>6. Messages[part] = <<>>
  BY <1>1, <1>5, PartOfFrame
<1>7. Ways(i, p, <<>>) = before \o part
  <2>1. FlattenSeq(<<>>) = <<>>
    BY FlattenSmall
  <2>2. before \o part \in Seq(Byte)
    BY ConcatProperties
  <2>3. (before \o part) \o <<>> = before \o part
    BY <2>2
  <2> QED BY <1>4, <2>1, <2>3 DEF Ways
<1>8. Messages[before] \in Seq(Data) /\ data \in Data
  BY MessagesType DEF Data
<1>9. Messages[before \o part] = Messages[before]
  <2>1. Messages[before \o part] = Messages[before] \o <<>>
    BY <1>4, <1>6 DEF Complete
  <2> QED BY <1>8, <2>1, ConcatEmptySeq
<1>10. Ways(i, p, o) = before \o Frame(data)
  <2> HIDE DEF f
  <2>1. (before \o part) \o f = before \o (part \o f)
    BY <1>1, ConcatAssociative
  <2> QED BY <1>4, <1>5, <2>1 DEF Ways, f
<1>11. Messages[before \o Frame(data)] = Messages[before] \o <<data>>
  <2>1. Frame(data) \in Seq(Byte) /\ IsWhole(Frame(data)) /\ Body(Frame(data)) = data
    BY FrameIsWhole
  <2>2. Messages[Frame(data)] = <<data>>
    BY <2>1, WholeAlone
  <2> QED BY <1>4, <2>1, <2>2 DEF Complete
<1>12. Append(Messages[before], data) = Messages[before] \o <<data>>
  BY <1>8, AppendIsConcat
<1> QED BY <1>2, <1>7, <1>9, <1>10, <1>11, <1>12

-----------------------------------------------------------------------------
(* The actions on links.                                                   *)

\* Bytes, and what the reader had of them; a writer has two pieces left at most.
LinkTypes ==
  /\ in \in [Links -> Seq(Byte)] /\ pipe \in [Links -> Seq(Byte)]
  /\ out \in [Links -> Seq(Seq(Byte))] /\ \A l \in Links : Portions(out[l])
  /\ got \in [Links -> Data \cup {NULL}]

\* The messages on a link, and that they are whole but for the last one.
Queue(l) == Messages[Ways(in[l], pipe[l], out[l])]
FramedLink(l) == Framed(in[l], pipe[l], out[l])

\* What may happen to a link in a step.
Stays(l) == /\ Queue(l)' = Queue(l) /\ got'[l] = got[l]
            /\ FramedLink(l) => FramedLink(l)'
            /\ out[l] = <<>> => out'[l] = <<>>
Puts(l, data) == Queue(l)' = Append(Queue(l), data) /\ got'[l] = got[l] /\ FramedLink(l)'
Takes(l) == /\ Queue(l) = <<Message(l)>> \o Queue(l)' /\ got'[l] = Message(l)
            /\ FramedLink(l) => FramedLink(l)'
            /\ out'[l] = out[l]
Loses(l) == /\ out'[l] = <<>> /\ got'[l] = got[l]
            /\ \/ Queue(l)' = Queue(l)
               \/ \E data \in Data : Queue(l) = Append(Queue(l)', data)

\* Nothing happens to the other links.
OthersStay(l) == \A m \in Links \ {l} : Stays(m)

LEMMA LinkTypesAt ==
  ASSUME LinkTypes, NEW l \in Links
  PROVE  LinkBytes(in[l], pipe[l], out[l]) /\ Queue(l) \in Seq(Data)
<1>1. LinkBytes(in[l], pipe[l], out[l])
  BY DEF LinkTypes, LinkBytes
<1> QED BY <1>1, WaysType DEF Queue

\* A link that a step leaves alone.
LEMMA LeftAlone ==
  ASSUME NEW l \in Links, in'[l] = in[l], pipe'[l] = pipe[l], out'[l] = out[l], got'[l] = got[l]
  PROVE  Stays(l)
<1>1. Queue(l)' = Queue(l)
  BY DEF Queue
<1>2. FramedLink(l)' <=> FramedLink(l)
  BY DEF FramedLink
<1> QED BY <1>1, <1>2 DEF Stays

LEMMA SendPieces ==
  ASSUME LinkTypes, NEW l \in Links, NEW data \in Seq(Byte), data # <<>>, Send(l, data)
  PROVE  /\ out' \in [Links -> Seq(Seq(Byte))] /\ \A m \in Links : Portions(out'[m])
         /\ \A m \in Links \ {l} : out'[m] = out[m]
         /\ out[l] = <<>> /\ out'[l] = <<Bytes(Len(data), SizeT), data>>
<1> DEFINE b == Bytes(Len(data), SizeT)
<1>1. out[l] = <<>> /\ out' = [out EXCEPT ![l] = <<b, data>>]
  BY DEF Send, Idle
<1>2. Portion(b) /\ Portion(data)
  <2>1. Len(data) \in Int /\ SizeT \in Nat \ {0}
    BY OrderDataAssumption
  <2>2. b \in Seq(Byte) /\ Len(b) = SizeT
    BY <2>1, BytesType
  <2> QED BY <2>1, <2>2 DEF Portion
<1> HIDE DEF b
<1>3. <<b, data>> \in Seq(Seq(Byte)) /\ Portions(<<b, data>>)
  <2>1. b \in Seq(Byte) /\ data \in Seq(Byte)
    BY <1>2 DEF Portion
  <2> QED BY <1>2, <2>1 DEF Portions
<1> QED BY <1>1, <1>3 DEF LinkTypes, b

LEMMA SendAction ==
  ASSUME LinkTypes, NEW l \in Links, FramedLink(l), NEW data \in Seq(Byte), data # <<>>, Send(l, data),
         UNCHANGED <<pipe, in, got>>
  PROVE  LinkTypes' /\ Puts(l, data) /\ OthersStay(l)
<1>1. /\ out' \in [Links -> Seq(Seq(Byte))] /\ \A m \in Links : Portions(out'[m])
      /\ \A m \in Links \ {l} : out'[m] = out[m]
      /\ out[l] = <<>> /\ out'[l] = <<Bytes(Len(data), SizeT), data>>
  BY SendPieces
<1>2. LinkTypes'
  BY <1>1 DEF LinkTypes
<1>3. OthersStay(l)
  BY <1>1, LeftAlone DEF OthersStay
<1>4. LinkBytes(in[l], pipe[l], <<>>) /\ Framed(in[l], pipe[l], <<>>)
  BY <1>1, LinkTypesAt DEF FramedLink
<1>5. Framed(in[l], pipe[l], out'[l]) /\
      Messages[Ways(in[l], pipe[l], out'[l])] = Append(Messages[Ways(in[l], pipe[l], <<>>)], data)
  BY <1>1, <1>4, SendOne
<1>6. Puts(l, data)
  BY <1>1, <1>5 DEF Puts, Queue, FramedLink
<1> QED BY <1>2, <1>3, <1>6

LEMMA TakeBytes ==
  ASSUME LinkTypes, NEW l \in Links, Take(l)
  PROVE  /\ IsWhole(in[l]) /\ Message(l) = Body(in[l]) /\ Message(l) \in Data
         /\ in' \in [Links -> Seq(Byte)] /\ in'[l] = <<>> /\ \A m \in Links \ {l} : in'[m] = in[m]
         /\ got' \in [Links -> Data \cup {NULL}] /\ got'[l] = Message(l)
         /\ \A m \in Links \ {l} : got'[m] = got[m]
<1>1. IsWhole(in[l]) /\ Message(l) = Body(in[l])
  <2>1. Len(in[l]) >= SizeT /\ Len(in[l]) = Wanted(in[l])
    BY DEF Take, Received
  <2>2. Len(in[l]) \in Nat /\ SizeT \in Nat
    BY OrderDataAssumption DEF LinkTypes
  <2>3. Wanted(in[l]) = SizeT + FirstLength(in[l])
    BY <2>1, <2>2 DEF Wanted, FirstLength
  <2> QED BY <2>1, <2>3 DEF IsWhole, Message, Body
<1>2. Message(l) \in Data
  <2>1. in[l] \in Seq(Byte)
    BY DEF LinkTypes
  <2>2. Messages[in[l]] = <<Body(in[l])>>
    BY <1>1, <2>1, WholeAlone
  <2>3. Messages[in[l]] \in Seq(Data)
    BY <2>1, MessagesType
  <2> DEFINE q == <<Body(in[l])>>
  <2>4. q \in Seq(Data) /\ 1 \in 1 .. Len(q) /\ q[1] = Body(in[l])
    BY <2>2, <2>3
  <2> HIDE DEF q
  <2>5. q[1] \in Data
    BY <2>4, ElementOfSeq
  <2> QED BY <1>1, <2>4, <2>5
<1>3. in' = [in EXCEPT ![l] = <<>>] /\ got' = [got EXCEPT ![l] = Message(l)]
  BY DEF Take
<1>4. <<>> \in Seq(Byte)
  OBVIOUS
<1> HIDE DEF Message
<1> QED BY <1>1, <1>2, <1>3, <1>4 DEF LinkTypes

LEMMA TakeLink ==
  ASSUME LinkTypes, NEW l \in Links, Take(l), pipe'[l] = pipe[l], out'[l] = out[l]
  PROVE  Takes(l)
<1>1. LinkBytes(in[l], pipe[l], out[l])
  BY LinkTypesAt
<1>2. IsWhole(in[l]) /\ Message(l) = Body(in[l]) /\ in'[l] = <<>> /\ got'[l] = Message(l)
  BY TakeBytes
<1>3. /\ Messages[Ways(in[l], pipe[l], out[l])] = <<Body(in[l])>> \o Messages[Ways(<<>>, pipe[l], out[l])]
      /\ Framed(in[l], pipe[l], out[l]) => Framed(<<>>, pipe[l], out[l])
  BY <1>1, <1>2, TakeOne
<1> QED BY <1>2, <1>3 DEF Takes, Queue, FramedLink

LEMMA TakeAction ==
  ASSUME LinkTypes, NEW l \in Links, Take(l), UNCHANGED <<out, pipe>>
  PROVE  LinkTypes' /\ Takes(l) /\ OthersStay(l) /\ Message(l) \in Data
<1>1. /\ Message(l) \in Data
      /\ in' \in [Links -> Seq(Byte)] /\ \A m \in Links \ {l} : in'[m] = in[m]
      /\ got' \in [Links -> Data \cup {NULL}]
      /\ \A m \in Links \ {l} : got'[m] = got[m]
  BY TakeBytes
<1>2. LinkTypes'
  BY <1>1 DEF LinkTypes
<1>3. OthersStay(l)
  BY <1>1, LeftAlone DEF OthersStay
<1>4. Takes(l)
  BY TakeLink
<1> QED BY <1>1, <1>2, <1>3, <1>4

\* A message comes from one link, and another is sent on another.
LEMMA ForwardAction ==
  ASSUME LinkTypes, NEW l \in Links, NEW k \in Links, l # k, FramedLink(k),
         NEW data \in Seq(Byte), data # <<>>, Take(l), Send(k, data), UNCHANGED pipe
  PROVE  /\ LinkTypes' /\ Takes(l) /\ Puts(k, data)
         /\ \A m \in Links \ {l, k} : Stays(m)
<1>1. /\ in' \in [Links -> Seq(Byte)] /\ \A m \in Links \ {l} : in'[m] = in[m]
      /\ got' \in [Links -> Data \cup {NULL}]
      /\ \A m \in Links \ {l} : got'[m] = got[m]
  BY TakeBytes
<1>2. /\ out' \in [Links -> Seq(Seq(Byte))] /\ \A m \in Links : Portions(out'[m])
      /\ \A m \in Links \ {k} : out'[m] = out[m]
      /\ out[k] = <<>> /\ out'[k] = <<Bytes(Len(data), SizeT), data>>
  BY SendPieces
<1>3. LinkTypes'
  BY <1>1, <1>2 DEF LinkTypes
<1>4. \A m \in Links \ {l, k} : Stays(m)
  BY <1>1, <1>2, LeftAlone
<1>5. Takes(l)
  BY <1>2, TakeLink
<1>6. LinkBytes(in[k], pipe[k], <<>>) /\ Framed(in[k], pipe[k], <<>>)
  BY <1>2, LinkTypesAt DEF FramedLink
<1>7. Framed(in[k], pipe[k], out'[k]) /\
      Messages[Ways(in[k], pipe[k], out'[k])] = Append(Messages[Ways(in[k], pipe[k], <<>>)], data)
  BY <1>2, <1>6, SendOne
<1>8. Puts(k, data)
  BY <1>1, <1>2, <1>7 DEF Puts, Queue, FramedLink
<1> QED BY <1>3, <1>4, <1>5, <1>8

\* What is left to write is a sequence of sequences of bytes.
LEMMA PortionsAreSequences ==
  ASSUME NEW o, Portions(o)
  PROVE  o \in Seq(Seq(Byte))
<1>1. CASE o = <<>>
  BY <1>1
<1>2. ASSUME NEW a, Portion(a), o = <<a>> PROVE o \in Seq(Seq(Byte))
  BY <1>2 DEF Portion
<1>3. ASSUME NEW a, NEW b, Portion(a), Portion(b), o = <<a, b>> PROVE o \in Seq(Seq(Byte))
  BY <1>3 DEF Portion
<1> QED BY <1>1, <1>2, <1>3 DEF Portions

LEMMA WriteAction ==
  ASSUME LinkTypes, NEW l \in Links, Write(l)
  PROVE  LinkTypes' /\ \A m \in Links : Stays(m)
<1>1. PICK n \in 1 .. Len(Head(out[l])) :
        /\ pipe' = [pipe EXCEPT ![l] = pipe[l] \o Taken(out[l], n)]
        /\ out' = [out EXCEPT ![l] = Left(out[l], n)]
  BY DEF Write, Taken, Left
<1>2. out[l] # <<>> /\ UNCHANGED <<in, got>>
  BY DEF Write, Idle
<1> DEFINE p == pipe[l] \o Taken(out[l], n)
           o == Left(out[l], n)
<1>3. LinkBytes(in[l], pipe[l], out[l])
  BY LinkTypesAt
<1>4. /\ LinkBytes(in[l], p, o)
      /\ Ways(in[l], p, o) = Ways(in[l], pipe[l], out[l])
      /\ Framed(in[l], pipe[l], out[l]) => Framed(in[l], p, o)
  BY <1>1, <1>2, <1>3, WriteOne
<1> HIDE DEF p, o
<1>5. p \in Seq(Byte) /\ Portions(o) /\ o \in Seq(Seq(Byte))
  BY <1>4, PortionsAreSequences DEF LinkBytes
<1>6. pipe'[l] = p /\ out'[l] = o /\ \A m \in Links \ {l} : pipe'[m] = pipe[m] /\ out'[m] = out[m]
  BY <1>1 DEF p, o, LinkTypes
<1>7. LinkTypes'
  BY <1>1, <1>2, <1>5, <1>6 DEF LinkTypes, p, o
<1>8. Stays(l)
  BY <1>2, <1>4, <1>6 DEF Stays, Queue, FramedLink
<1>9. \A m \in Links \ {l} : Stays(m)
  BY <1>2, <1>6, LeftAlone
<1> QED BY <1>7, <1>8, <1>9

LEMMA ReadAction ==
  ASSUME LinkTypes, NEW l \in Links, Read(l)
  PROVE  LinkTypes' /\ \A m \in Links : Stays(m)
<1>1. PICK n \in 1 .. Len(pipe[l]) :
        /\ in' = [in EXCEPT ![l] = in[l] \o SubSeq(pipe[l], 1, n)]
        /\ pipe' = [pipe EXCEPT ![l] = SubSeq(pipe[l], n + 1, Len(pipe[l]))]
  BY DEF Read
<1>2. UNCHANGED <<out, got>>
  BY DEF Read
<1> DEFINE i == in[l] \o SubSeq(pipe[l], 1, n)
           p == SubSeq(pipe[l], n + 1, Len(pipe[l]))
<1>3. LinkBytes(in[l], pipe[l], out[l])
  BY LinkTypesAt
<1>4. /\ LinkBytes(i, p, out[l])
      /\ Ways(i, p, out[l]) = Ways(in[l], pipe[l], out[l])
      /\ Framed(in[l], pipe[l], out[l]) => Framed(i, p, out[l])
  BY <1>1, <1>3, ReadOne
<1> HIDE DEF i, p
<1>5. i \in Seq(Byte) /\ p \in Seq(Byte)
  BY <1>4 DEF LinkBytes
<1>6. in'[l] = i /\ pipe'[l] = p /\ \A m \in Links \ {l} : in'[m] = in[m] /\ pipe'[m] = pipe[m]
  BY <1>1 DEF i, p, LinkTypes
<1>7. LinkTypes'
  BY <1>1, <1>2, <1>5, <1>6 DEF LinkTypes, i, p
<1>8. Stays(l)
  BY <1>2, <1>4, <1>6 DEF Stays, Queue, FramedLink
<1>9. \A m \in Links \ {l} : Stays(m)
  BY <1>2, <1>6, LeftAlone
<1> QED BY <1>7, <1>8, <1>9

LEMMA BreakAction ==
  ASSUME LinkTypes, NEW l \in Links, FramedLink(l), Break(l), UNCHANGED <<pipe, in, got>>
  PROVE  LinkTypes' /\ Loses(l) /\ OthersStay(l)
<1>1. out' = [out EXCEPT ![l] = <<>>]
  BY DEF Break
<1>2. <<>> \in Seq(Seq(Byte)) /\ Portions(<<>>)
  BY DEF Portions
<1>3. out'[l] = <<>> /\ \A m \in Links \ {l} : out'[m] = out[m]
  BY <1>1 DEF LinkTypes
<1>4. LinkTypes'
  BY <1>1, <1>2 DEF LinkTypes
<1>5. OthersStay(l)
  BY <1>3, LeftAlone DEF OthersStay
<1>6. Loses(l)
  <2>1. CASE out[l] = <<>>
    BY <1>3, <2>1 DEF Loses, Queue
  <2>2. CASE out[l] # <<>>
    <3>1. LinkBytes(in[l], pipe[l], out[l])
      BY LinkTypesAt
    <3>2. \E data \in Seq(Byte) :
            Messages[Ways(in[l], pipe[l], out[l])] = Append(Messages[Ways(in[l], pipe[l], <<>>)], data)
      BY <2>2, <3>1, BreakOne DEF FramedLink
    <3> QED BY <1>3, <3>2 DEF Loses, Queue, Data
  <2> QED BY <2>1, <2>2
<1> QED BY <1>4, <1>5, <1>6
==============================================================================
