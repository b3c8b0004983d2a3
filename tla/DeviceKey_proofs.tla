-------------------------- MODULE DeviceKey_proofs --------------------------
(***************************************************************************)
(* Proofs about DeviceKey, for any project keys and lengths: what a sealed *)
(* text looks like, byte by byte, and that it is opened if it is whole and *)
(* ours, and only then.                                                    *)
(***************************************************************************)
EXTENDS DeviceKey, SequenceTheorems, TLAPS

(* Sequences of any bytes, as functions.                                   *)

OfLength(f, n) == f = [i \in 1 .. n |-> f[i]]

\* A function on 1 .. n is a sequence of length n.
LEMMA OfLengthSeq ==
    ASSUME NEW n \in Nat, NEW f, OfLength(f, n)
    PROVE  /\ f \in Seq({f[i] : i \in 1 .. n})
           /\ Len(f) = n /\ DOMAIN f = 1 .. n
<1> DEFINE S == {f[i] : i \in 1 .. n}
<1>1. f \in [1 .. n -> S]
  BY DEF OfLength
<1>2. f \in Seq(S) /\ DOMAIN f = 1 .. n
  BY <1>1, SeqDef
<1> HIDE DEF S
<1>3. Len(f) = n
  BY <1>2
<1> QED
  BY <1>2, <1>3 DEF S

\* A sequence is a function on 1 .. Len.
LEMMA SeqOfLength ==
    ASSUME NEW S, NEW f \in Seq(S)
    PROVE  OfLength(f, Len(f))
BY DEF OfLength

\* Bytes that agree one by one are the same.
LEMMA SameBytes ==
    ASSUME NEW n \in Nat, NEW f, NEW g, OfLength(f, n), OfLength(g, n),
           \A i \in 1 .. n : f[i] = g[i]
    PROVE  f = g
BY DEF OfLength

\* One sequence after the other.
IsConcat(h, f, g) == h = f \o g

\* What the bytes of two joined sequences are.
LEMMA Joined ==
    ASSUME NEW m \in Nat, NEW n \in Nat, NEW f, NEW g, OfLength(f, m), OfLength(g, n),
           NEW h, IsConcat(h, f, g)
    PROVE  /\ OfLength(h, m + n)
           /\ \A i \in 1 .. m : h[i] = f[i]
           /\ \A i \in 1 .. n : h[m + i] = g[i]
<1> DEFINE S == {f[i] : i \in 1 .. m} \cup {g[i] : i \in 1 .. n}
<1>1. f \in [1 .. m -> S] /\ g \in [1 .. n -> S]
  BY DEF OfLength
<1> HIDE DEF S
<1>2. f \in Seq(S) /\ g \in Seq(S) /\ Len(f) = m /\ Len(g) = n
  BY <1>1, SeqDef
<1>3. /\ h \in Seq(S) /\ Len(h) = m + n
      /\ \A i \in 1 .. m + n : h[i] = IF i <= m THEN f[i] ELSE g[i - m]
  BY <1>2, ConcatProperties DEF IsConcat
<1>4. OfLength(h, m + n)
  BY <1>3 DEF OfLength
<1>5. \A i \in 1 .. m : h[i] = f[i]
  BY <1>3
<1>6. ASSUME NEW i \in 1 .. n
      PROVE  h[m + i] = g[i]
  <2>1. m + i \in 1 .. m + n /\ ~(m + i <= m) /\ (m + i) - m = i
    OBVIOUS
  <2> QED
    BY <1>3, <2>1
<1> QED
  BY <1>4, <1>5, <1>6

\* A part of a sequence.
IsPart(h, f, a, b) == h = SubSeq(f, a, b)

\* What the bytes of a part of a sequence are.
LEMMA Part ==
    ASSUME NEW n \in Nat, NEW f, OfLength(f, n), NEW a \in 1 .. n + 1, NEW b \in a - 1 .. n,
           NEW h, IsPart(h, f, a, b)
    PROVE  /\ OfLength(h, b - a + 1)
           /\ \A i \in 1 .. b - a + 1 : h[i] = f[a + i - 1]
<1> DEFINE S == {f[i] : i \in 1 .. n}
<1>1. \A i \in a .. b : f[i] \in S
  OBVIOUS
<1> HIDE DEF S
<1>2. /\ h \in Seq(S) /\ Len(h) = IF a <= b THEN b - a + 1 ELSE 0
      /\ \A i \in 1 .. b - a + 1 : h[i] = f[a + i - 1]
  BY <1>1, SubSeqProperties DEF IsPart
<1>3. Len(h) = b - a + 1
  BY <1>2
<1>4. OfLength(h, b - a + 1)
  BY <1>2, <1>3 DEF OfLength
<1> QED
  BY <1>2, <1>4

----------------------------------------------------------------------------
(* What a sealed text looks like.                                          *)

\* Padding keeps the bytes, and adds some unless they fill their blocks.
LEMMA PaddedShape ==
    ASSUME NEW n \in Nat, NEW f, OfLength(f, n)
    PROVE  /\ OfLength(Padded(f), PaddedLength(n))
           /\ PaddedLength(n) \in Nat /\ PaddedLength(n) >= n
           /\ PaddedLength(n) > n <=> n % Block # 0
           /\ \A i \in 1 .. n : Padded(f)[i] = f[i]
<1>1. Len(f) = n
  BY OfLengthSeq
<1>2. n % 16 \in 0 .. 15
  OBVIOUS
<1>3. /\ PaddedLength(n) \in Nat /\ PaddedLength(n) >= n
      /\ PaddedLength(n) > n <=> n % Block # 0
  BY <1>2 DEF PaddedLength, Block
<1>4. Padded(f) = [i \in 1 .. PaddedLength(n) |-> IF i <= n THEN f[i] ELSE Zero]
  BY <1>1 DEF Padded
<1>5. OfLength(Padded(f), PaddedLength(n))
  BY <1>4 DEF OfLength
<1>6. \A i \in 1 .. n : i \in 1 .. PaddedLength(n) /\ i <= n
  BY <1>3
<1>7. \A i \in 1 .. n : Padded(f)[i] = f[i]
  BY <1>4, <1>6
<1> QED
  BY <1>3, <1>5, <1>7

\* The data that is sealed: bytes of data, as many as were asked for.
LEMMA DataShape ==
    ASSUME NEW l \in Nat
    PROVE  /\ OfLength(Data(l), l) /\ Len(Data(l)) = l
           /\ \A i \in 1 .. l : Data(l)[i].is = "data"
<1>1. OfLength(Data(l), l)
  BY DEF OfLength, Data
<1> QED
  BY <1>1, OfLengthSeq DEF Data

Stream(key, i) == [key |-> key, iv |-> Padded(Vector), n |-> i]

Low(l, key) == Header(key) \o PerformCrypto(Padded(Data(l)), l, key, Padded(Vector))

\* A lead byte, the four bytes of the signature and the eight of the vector.
LEMMA HeaderShape ==
    ASSUME NEW key
    PROVE  /\ OfLength(Header(key), 13) /\ Header(key)[1] = Zero
           /\ \A i \in 1 .. 4 : Header(key)[1 + i] = Sign(key)[i]
           /\ \A i \in 1 .. 8 : Header(key)[5 + i] = Vector[i]
<1>1. PICK lead : lead = << Zero >> /\ OfLength(lead, 1) /\ lead[1] = Zero
  <2>1. << Zero >> \in Seq({Zero}) /\ Len(<< Zero >>) = 1 /\ << Zero >>[1] = Zero
    OBVIOUS
  <2>2. OfLength(<< Zero >>, Len(<< Zero >>))
    BY <2>1, SeqOfLength
  <2> QED
    BY <2>1, <2>2, Zenon
<1>n. 1 \in Nat /\ 4 \in Nat /\ 5 \in Nat /\ 8 \in Nat
  OBVIOUS
<1>2. OfLength(Sign(key), 4) /\ OfLength(Vector, 8)
  BY DEF OfLength, Sign, Vector
<1>3. PICK front : IsConcat(front, lead, Sign(key))
  BY DEF IsConcat
<1>4. /\ OfLength(front, 5) /\ front[1] = Zero
      /\ \A i \in 1 .. 4 : front[1 + i] = Sign(key)[i]
  <2>1. /\ OfLength(front, 1 + 4)
        /\ \A i \in 1 .. 1 : front[i] = lead[i]
        /\ \A i \in 1 .. 4 : front[1 + i] = Sign(key)[i]
    BY <1>1, <1>2, <1>3, <1>n, Joined
  <2> QED
    BY <1>1, <2>1
<1>5. PICK whole : IsConcat(whole, front, Vector)
  BY DEF IsConcat
<1>6. /\ OfLength(whole, 5 + 8)
      /\ \A i \in 1 .. 5 : whole[i] = front[i]
      /\ \A i \in 1 .. 8 : whole[5 + i] = Vector[i]
  BY <1>2, <1>4, <1>5, <1>n, Joined
<1>7. Header(key) = whole
  BY <1>1, <1>3, <1>5 DEF Header, IsConcat
<1>8. 5 + 8 = 13 /\ 1 \in 1 .. 5 /\ \A i \in 1 .. 4 : 1 + i \in 1 .. 5
  OBVIOUS
<1> QED
  BY Zenon, <1>4, <1>6, <1>7, <1>8

\* What the MAC is made over: a lead byte, a signature, a vector and the masked data.
LEMMA LowShape ==
    ASSUME NEW l \in Nat, NEW key
    PROVE  /\ OfLength(Low(l, key), 13 + l) /\ Low(l, key)[1] = Zero
           /\ \A i \in 1 .. 4 : Low(l, key)[1 + i] = Sign(key)[i]
           /\ \A i \in 1 .. 8 : Low(l, key)[5 + i] = Vector[i]
           /\ \A i \in 1 .. l : Low(l, key)[13 + i]
                  = [is |-> "masked", byte |-> Data(l)[i], with |-> Stream(key, i)]
<1> DEFINE masked == PerformCrypto(Padded(Data(l)), l, key, Padded(Vector))
<1>1. OfLength(masked, l)
  BY DEF OfLength, PerformCrypto
<1>2. ASSUME NEW i \in 1 .. l
      PROVE  masked[i] = [is |-> "masked", byte |-> Data(l)[i], with |-> Stream(key, i)]
  <2>1. masked[i] = Mask(Padded(Data(l))[i], Stream(key, i))
    BY DEF PerformCrypto, Stream
  <2>2. Padded(Data(l))[i] = Data(l)[i] /\ Data(l)[i].is # "masked"
    BY DataShape, PaddedShape
  <2> QED
    BY <2>1, <2>2 DEF Mask
<1> HIDE DEF masked
<1>3. PICK whole : IsConcat(whole, Header(key), masked)
  BY DEF IsConcat
<1>4. /\ OfLength(whole, 13 + l)
      /\ \A i \in 1 .. 13 : whole[i] = Header(key)[i]
      /\ \A i \in 1 .. l : whole[13 + i] = masked[i]
  <2>1. 13 \in Nat
    OBVIOUS
  <2> QED
    BY <1>1, <1>3, <2>1, HeaderShape, Joined
<1>5. Low(l, key) = whole
  BY <1>3 DEF Low, masked, IsConcat
<1>6. /\ 1 \in 1 .. 13
      /\ \A i \in 1 .. 4 : 1 + i \in 1 .. 13
      /\ \A i \in 1 .. 8 : 5 + i \in 1 .. 13
  OBVIOUS
<1> QED
  BY Zenon, <1>2, <1>4, <1>5, <1>6, HeaderShape

\* A sealed text is what the MAC is made over and the four bytes of the MAC.
LEMMA FrameShape ==
    ASSUME NEW l \in Nat, NEW key
    PROVE  /\ OfLength(Frame(Data(l), key), 17 + l) /\ Len(Frame(Data(l), key)) = 17 + l
           /\ \A i \in 1 .. 13 + l : Frame(Data(l), key)[i] = Low(l, key)[i]
           /\ \A i \in 1 .. 4 : Frame(Data(l), key)[13 + l + i] = MAC(key, Low(l, key))[i]
<1>1. Frame(Data(l), key) = Low(l, key) \o MAC(key, Low(l, key))
  BY DataShape DEF Frame, Low
<1>2. OfLength(MAC(key, Low(l, key)), 4)
  BY DEF OfLength, MAC, HMACLength
<1>3. PICK whole : IsConcat(whole, Low(l, key), MAC(key, Low(l, key)))
  BY DEF IsConcat
<1>4. /\ OfLength(whole, (13 + l) + 4)
      /\ \A i \in 1 .. 13 + l : whole[i] = Low(l, key)[i]
      /\ \A i \in 1 .. 4 : whole[13 + l + i] = MAC(key, Low(l, key))[i]
  <2>1. 13 + l \in Nat /\ 4 \in Nat /\ OfLength(Low(l, key), 13 + l)
    BY LowShape
  <2> QED
    BY <1>2, <1>3, <2>1, Joined
<1>5. OfLength(whole, 17 + l)
  <2>1. (13 + l) + 4 = 17 + l
    OBVIOUS
  <2> QED
    BY Zenon, <1>4, <2>1
<1>6. Len(whole) = 17 + l
  <2>1. 17 + l \in Nat
    OBVIOUS
  <2> QED
    BY Zenon, <1>5, <2>1, OfLengthSeq
<1>7. Frame(Data(l), key) = whole
  BY <1>1, <1>3 DEF IsConcat
<1> QED
  BY Zenon, <1>4, <1>5, <1>6, <1>7

----------------------------------------------------------------------------
(* What is accepted.                                                       *)

\* Nothing before the MAC is a byte of one, or of none.
LEMMA LowKinds ==
    ASSUME NEW l \in Nat, NEW key, NEW i \in 1 .. 13 + l
    PROVE  Low(l, key)[i].is \in {"zero", "sign", "vector", "masked"}
<1>1. CASE i = 1
  <2>1. Low(l, key)[1] = Zero
    BY Zenon, LowShape
  <2> QED
    BY <1>1, <2>1 DEF Zero
<1>2. CASE i \in 2 .. 5
  <2>1. i - 1 \in 1 .. 4 /\ 1 + (i - 1) = i
    BY <1>2
  <2>2. Low(l, key)[i] = Sign(key)[i - 1]
    <3>1. Low(l, key)[1 + (i - 1)] = Sign(key)[i - 1]
      BY Zenon, <2>1, LowShape
    <3> QED
      BY Zenon, <2>1, <3>1
  <2> QED
    BY <2>1, <2>2 DEF Sign
<1>3. CASE i \in 6 .. 13
  <2>1. i - 5 \in 1 .. 8 /\ 5 + (i - 5) = i
    BY <1>3
  <2>2. Low(l, key)[i] = Vector[i - 5]
    <3>1. Low(l, key)[5 + (i - 5)] = Vector[i - 5]
      BY Zenon, <2>1, LowShape
    <3> QED
      BY Zenon, <2>1, <3>1
  <2> QED
    BY <2>1, <2>2 DEF Vector
<1>4. CASE i \in 14 .. 13 + l
  <2>1. i - 13 \in 1 .. l /\ 13 + (i - 13) = i
    BY <1>4
  <2>2. Low(l, key)[i]
            = [is |-> "masked", byte |-> Data(l)[i - 13], with |-> Stream(key, i - 13)]
    <3>1. Low(l, key)[13 + (i - 13)]
              = [is |-> "masked", byte |-> Data(l)[i - 13], with |-> Stream(key, i - 13)]
      BY Zenon, <2>1, LowShape
    <3> QED
      BY Zenon, <2>1, <3>1
  <2> QED
    BY <2>2
<1> QED
  BY <1>1, <1>2, <1>3, <1>4

\* The bytes of a MAC.
IsMAC(byte, key, low, i) == byte.is = "mac" /\ byte.key = key /\ byte.over = low /\ byte.n = i

\* Each byte of a MAC tells its key and what it is over, which makes it ideal.
LEMMA MACBytes ==
    ASSUME NEW key, NEW low, NEW i \in 1 .. 4
    PROVE  IsMAC(MAC(key, low)[i], key, low, i)
<1>1. MAC(key, low)[i] = [is |-> "mac", key |-> key, over |-> low, n |-> i]
  BY DEF MAC, HMACLength
<1> QED
  BY <1>1 DEF IsMAC

\* The end of a sealed text is a MAC.
LEMMA FrameEnd ==
    ASSUME NEW l \in Nat, NEW key
    PROVE  \A i \in 1 .. 4 : IsMAC(Frame(Data(l), key)[13 + l + i], key, Low(l, key), i)
<1> TAKE i \in 1 .. 4
<1>1. Frame(Data(l), key)[13 + l + i] = MAC(key, Low(l, key))[i]
  BY Zenon, FrameShape
<1>2. IsMAC(MAC(key, Low(l, key))[i], key, Low(l, key), i)
  BY Zenon, MACBytes
<1> QED
  BY Zenon, <1>1, <1>2

\* What is accepted ends in the MAC of all before it, under our key.
LEMMA AcceptedEnd ==
    ASSUME NEW m \in Int, NEW b, m + 4 \in Nat, OfLength(b, m + 4), Accepted(b)
    PROVE  /\ m >= 13
           /\ \E low : /\ IsPart(low, b, 1, m)
                       /\ \A i \in 1 .. 4 : IsMAC(b[m + i], OurKey, low, i)
<1>1. Len(b) = m + 4
  BY Zenon, OfLengthSeq
<1>2. m >= 13
  BY <1>1 DEF Accepted, Size, HMACLength
<1>3. PICK low : low = SubSeq(b, 1, m)
  OBVIOUS
<1>4. PICK mac : mac = MAC(OurKey, low) /\ IsPart(mac, b, m + 1, m + 4)
  <2>1. Len(b) - HMACLength = m
    BY <1>1 DEF HMACLength
  <2>2. SubSeq(b, m + 1, m + 4) = MAC(OurKey, low)
    BY Zenon, <1>1, <1>3, <2>1 DEF Accepted, Verified
  <2> QED
    BY Zenon, <2>2 DEF IsPart
<1>5. /\ m + 1 \in 1 .. (m + 4) + 1 /\ m + 4 \in (m + 1) - 1 .. m + 4
      /\ (m + 4) - (m + 1) + 1 = 4 /\ \A i \in 1 .. 4 : (m + 1) + i - 1 = m + i
  BY <1>2
<1>6. \A i \in 1 .. (m + 4) - (m + 1) + 1 : mac[i] = b[(m + 1) + i - 1]
  BY <1>4, <1>5, Part
<1>7. \A i \in 1 .. 4 : mac[i] = b[m + i]
  BY Zenon, <1>5, <1>6
<1>8. \A i \in 1 .. 4 : IsMAC(b[m + i], OurKey, low, i)
  BY Zenon, <1>4, <1>7, MACBytes
<1> QED
  BY Zenon, <1>2, <1>3, <1>8 DEF IsPart

\* A text that was cut is refused: its last byte is not the last of a MAC.
LEMMA CutRefused ==
    ASSUME NEW l \in Nat, NEW key, NEW n \in 0 .. 16 + l
    PROVE  ~Accepted(SubSeq(Frame(Data(l), key), 1, n))
<1>1. PICK f : f = Frame(Data(l), key)
  OBVIOUS
<1>2. PICK b : b = SubSeq(f, 1, n) /\ IsPart(b, f, 1, n)
  BY DEF IsPart
<1>3. /\ OfLength(f, 17 + l)
      /\ \A i \in 1 .. 13 + l : f[i] = Low(l, key)[i]
      /\ \A i \in 1 .. 4 : IsMAC(f[13 + l + i], key, Low(l, key), i)
  BY Zenon, <1>1, FrameShape, FrameEnd
<1>4. OfLength(b, n) /\ \A i \in 1 .. n : b[i] = f[i]
  <2>1. 1 \in 1 .. (17 + l) + 1 /\ n \in 1 - 1 .. 17 + l /\ n - 1 + 1 = n /\ 17 + l \in Nat
        /\ \A i \in 1 .. n : 1 + i - 1 = i
    OBVIOUS
  <2>2. OfLength(b, n - 1 + 1) /\ \A i \in 1 .. n - 1 + 1 : b[i] = f[1 + i - 1]
    BY <1>2, <1>3, <2>1, Part
  <2> QED
    BY <2>1, <2>2
<1>5. ASSUME Accepted(b)
      PROVE  FALSE
  <2>1. n - 4 \in Int /\ (n - 4) + 4 = n /\ n \in Nat /\ 4 \in 1 .. 4
    OBVIOUS
  <2>2. (n - 4) + 4 \in Nat /\ OfLength(b, (n - 4) + 4)
    BY Zenon, <1>4, <2>1
  <2>3. n - 4 >= 13 /\ \E low : \A i \in 1 .. 4 : IsMAC(b[(n - 4) + i], OurKey, low, i)
    BY Zenon, <1>5, <2>1, <2>2, AcceptedEnd
  <2>4. PICK low : IsMAC(b[(n - 4) + 4], OurKey, low, 4)
    BY Zenon, <2>1, <2>3
  <2>5. n \in 1 .. n
    BY <2>3
  <2>6. f[n].is = "mac" /\ f[n].n = 4
    BY Zenon, <1>4, <2>1, <2>4, <2>5 DEF IsMAC
  <2>7. CASE n \in 1 .. 13 + l
    <3>1. Low(l, key)[n].is = "mac"
      BY Zenon, <1>3, <2>6, <2>7
    <3>2. Low(l, key)[n].is \in {"zero", "sign", "vector", "masked"}
      BY Zenon, <2>7, LowKinds
    <3> QED
      BY <3>1, <3>2
  <2>8. CASE n > 13 + l
    <3>1. n - (13 + l) \in 1 .. 4 /\ n - (13 + l) # 4 /\ 13 + l + (n - (13 + l)) = n
      BY <2>8
    <3>2. IsMAC(f[13 + l + (n - (13 + l))], key, Low(l, key), n - (13 + l))
      BY Zenon, <1>3, <3>1
    <3>3. f[n].n = n - (13 + l)
      BY Zenon, <3>1, <3>2 DEF IsMAC
    <3> QED
      BY Zenon, <2>6, <3>1, <3>3
  <2>9. n \in 1 .. 13 + l \/ n > 13 + l
    BY <2>5
  <2> QED
    BY Zenon, <2>7, <2>8, <2>9
<1> QED
  BY Zenon, <1>1, <1>2, <1>5

\* A text with a byte changed is refused: in the MAC it is no byte of one, and anywhere
\* else the MAC is over other bytes.
LEMMA ChangedRefused ==
    ASSUME NEW l \in Nat, NEW key, NEW n \in 1 .. 17 + l
    PROVE  ~Accepted([Frame(Data(l), key) EXCEPT ![n] = Junk])
<1>1. PICK f : f = Frame(Data(l), key)
  OBVIOUS
<1>2. PICK b : b = [f EXCEPT ![n] = Junk]
  OBVIOUS
<1>3. /\ OfLength(f, 17 + l)
      /\ \A i \in 1 .. 13 + l : f[i] = Low(l, key)[i]
      /\ \A i \in 1 .. 4 : IsMAC(f[13 + l + i], key, Low(l, key), i)
  BY Zenon, <1>1, FrameShape, FrameEnd
<1>4. OfLength(b, 17 + l) /\ b[n].is = "junk" /\ \A i \in 1 .. 17 + l : i # n => b[i] = f[i]
  <2>1. DOMAIN f = 1 .. 17 + l
    BY <1>3 DEF OfLength
  <2>2. b[n] = Junk
    BY <1>2, <2>1
  <2>3. b[n].is = "junk"
    BY <2>2 DEF Junk
  <2> QED
    BY <1>2, <2>1, <2>3 DEF OfLength
<1>5. ASSUME Accepted(b)
      PROVE  FALSE
  <2>1. /\ 13 + l \in Int /\ (13 + l) + 4 = 17 + l /\ 17 + l \in Nat
        /\ 4 \in 1 .. 4 /\ 17 + l \in 1 .. 17 + l
    OBVIOUS
  <2>2. PICK low : /\ IsPart(low, b, 1, 13 + l)
                   /\ \A i \in 1 .. 4 : IsMAC(b[13 + l + i], OurKey, low, i)
    <3>1. (13 + l) + 4 \in Nat /\ OfLength(b, (13 + l) + 4)
      BY Zenon, <1>4, <2>1
    <3> QED
      BY Zenon, <1>5, <2>1, <3>1, AcceptedEnd
  <2>3. CASE n > 13 + l
    <3>1. n - (13 + l) \in 1 .. 4 /\ 13 + l + (n - (13 + l)) = n
      BY <2>3
    <3>2. IsMAC(b[13 + l + (n - (13 + l))], OurKey, low, n - (13 + l))
      BY Zenon, <2>2, <3>1
    <3>3. b[n].is = "mac"
      BY Zenon, <3>1, <3>2 DEF IsMAC
    <3> QED
      BY <1>4, <3>3
  <2>4. CASE n \in 1 .. 13 + l
    <3>1. 17 + l # n
      BY <2>4
    <3>2. low = Low(l, key)
      <4>1. IsMAC(b[17 + l], OurKey, low, 4) /\ IsMAC(f[17 + l], key, Low(l, key), 4)
        BY Zenon, <1>3, <2>1, <2>2
      <4>2. b[17 + l] = f[17 + l]
        BY Zenon, <1>4, <2>1, <3>1
      <4> QED
        BY Zenon, <4>1, <4>2 DEF IsMAC
    <3>3. low[n] = b[n]
      <4>1. /\ 1 \in 1 .. (17 + l) + 1 /\ 13 + l \in 1 - 1 .. 17 + l
            /\ n \in 1 .. (13 + l) - 1 + 1 /\ 1 + n - 1 = n
        BY <2>4
      <4>2. \A i \in 1 .. (13 + l) - 1 + 1 : low[i] = b[1 + i - 1]
        BY <1>4, <2>1, <2>2, <4>1, Part
      <4> QED
        BY Zenon, <4>1, <4>2
    <3>4. b[n].is \in {"zero", "sign", "vector", "masked"}
      BY Zenon, <2>4, <3>2, <3>3, LowKinds
    <3> QED
      BY <1>4, <3>4
  <2>5. n > 13 + l \/ n \in 1 .. 13 + l
    OBVIOUS
  <2> QED
    BY Zenon, <2>3, <2>4, <2>5
<1> QED
  BY Zenon, <1>1, <1>2, <1>5

\* What was sealed under another key is refused.
LEMMA OursOnly ==
    ASSUME NEW l \in Nat, NEW key, Accepted(Frame(Data(l), key))
    PROVE  key = OurKey
<1>1. /\ 13 + l \in Int /\ (13 + l) + 4 = 17 + l /\ 17 + l \in Nat /\ 4 \in 1 .. 4
  OBVIOUS
<1>2. (13 + l) + 4 \in Nat /\ OfLength(Frame(Data(l), key), (13 + l) + 4)
  BY Zenon, <1>1, FrameShape
<1>3. PICK low : \A i \in 1 .. 4 : IsMAC(Frame(Data(l), key)[13 + l + i], OurKey, low, i)
  BY Zenon, <1>1, <1>2, AcceptedEnd
<1>4. IsMAC(Frame(Data(l), key)[13 + l + 4], key, Low(l, key), 4)
  BY Zenon, <1>1, FrameEnd
<1> QED
  BY Zenon, <1>1, <1>3, <1>4 DEF IsMAC

----------------------------------------------------------------------------
(* What is opened.                                                         *)

\* In f, g follows the first d bytes: that part of f is g.
Follows(f, d, k, g) == \A i \in 1 .. k : f[d + i] = g[i]

\* g is that part of f.
LEMMA PartIs ==
    ASSUME NEW n \in Nat, NEW f, OfLength(f, n), NEW d \in Nat, NEW k \in Nat, d + k <= n,
           NEW g, OfLength(g, k), Follows(f, d, k, g)
    PROVE  SubSeq(f, d + 1, d + k) = g
<1>0. PICK a \in Int, b \in Int : a = d + 1 /\ b = d + k
  OBVIOUS
<1>1. PICK h : h = SubSeq(f, a, b) /\ IsPart(h, f, a, b)
  BY DEF IsPart
<1>2. /\ a \in 1 .. n + 1 /\ b \in a - 1 .. n /\ b - a + 1 = k
      /\ \A i \in 1 .. k : a + i - 1 = d + i
  BY <1>0
<1>3. OfLength(h, k) /\ \A i \in 1 .. k : h[i] = f[d + i]
  <2>1. OfLength(h, b - a + 1) /\ \A i \in 1 .. b - a + 1 : h[i] = f[a + i - 1]
    BY <1>1, <1>2, Part
  <2> QED
    BY Zenon, <1>2, <2>1
<1>4. h = g
  BY Zenon, <1>3, SameBytes DEF Follows
<1> QED
  BY Zenon, <1>0, <1>1, <1>4

\* The parts of a sealed text: the signature, the vector, what is before the MAC, and it.
LEMMA Parts ==
    ASSUME NEW l \in Nat, NEW key
    PROVE  /\ Len(Frame(Data(l), key)) = 17 + l /\ Frame(Data(l), key)[1] = Zero
           /\ SubSeq(Frame(Data(l), key), 2, 5) = Sign(key)
           /\ SubSeq(Frame(Data(l), key), 6, 13) = Vector
           /\ SubSeq(Frame(Data(l), key), 1, 13 + l) = Low(l, key)
           /\ SubSeq(Frame(Data(l), key), 14 + l, 17 + l) = MAC(key, Low(l, key))
<1>1. PICK f : f = Frame(Data(l), key)
  OBVIOUS
<1>2. /\ OfLength(f, 17 + l) /\ Len(f) = 17 + l
      /\ \A i \in 1 .. 13 + l : f[i] = Low(l, key)[i]
      /\ \A i \in 1 .. 4 : f[13 + l + i] = MAC(key, Low(l, key))[i]
  BY Zenon, <1>1, FrameShape
<1>3. /\ OfLength(Low(l, key), 13 + l) /\ Low(l, key)[1] = Zero
      /\ \A i \in 1 .. 4 : Low(l, key)[1 + i] = Sign(key)[i]
      /\ \A i \in 1 .. 8 : Low(l, key)[5 + i] = Vector[i]
  BY Zenon, LowShape
<1>4. OfLength(Sign(key), 4) /\ OfLength(Vector, 8) /\ OfLength(MAC(key, Low(l, key)), 4)
  BY DEF OfLength, Sign, Vector, MAC, HMACLength
<1>5. /\ 17 + l \in Nat /\ 13 + l \in Nat /\ 4 \in Nat /\ 8 \in Nat /\ 1 \in Nat /\ 5 \in Nat
      /\ 0 \in Nat /\ 1 + 4 <= 17 + l /\ 5 + 8 <= 17 + l /\ 0 + (13 + l) <= 17 + l
      /\ (13 + l) + 4 <= 17 + l
      /\ 1 \in 1 .. 13 + l
  OBVIOUS
<1>6. /\ \A i \in 1 .. 4 : 1 + i \in 1 .. 13 + l
      /\ \A i \in 1 .. 8 : 5 + i \in 1 .. 13 + l
      /\ \A i \in 1 .. 13 + l : 0 + i = i
  OBVIOUS
<1>7. /\ f[1] = Zero
      /\ \A i \in 1 .. 4 : f[1 + i] = Sign(key)[i]
      /\ \A i \in 1 .. 8 : f[5 + i] = Vector[i]
      /\ \A i \in 1 .. 13 + l : f[0 + i] = Low(l, key)[i]
  BY Zenon, <1>2, <1>3, <1>5, <1>6
<1>8. SubSeq(f, 2, 5) = Sign(key)
  <2>1. PICK d \in Nat, k \in Nat : d = 1 /\ k = 4
    BY <1>5
  <2>2. OfLength(f, 17 + l) /\ OfLength(Sign(key), k) /\ Follows(f, d, k, Sign(key))
    BY Zenon, <1>2, <1>4, <1>7, <2>1 DEF Follows
  <2>3. d \in Nat /\ k \in Nat /\ 17 + l \in Nat /\ d + k <= 17 + l
    BY <2>1
  <2>4. SubSeq(f, d + 1, d + k) = Sign(key)
    BY <2>2, <2>3, PartIs
  <2>5. d + 1 = 2 /\ d + k = 5
    BY <2>1
  <2> QED
    BY Zenon, <2>4, <2>5
<1>9. SubSeq(f, 6, 13) = Vector
  <2>1. PICK d \in Nat, k \in Nat : d = 5 /\ k = 8
    BY <1>5
  <2>2. OfLength(f, 17 + l) /\ OfLength(Vector, k) /\ Follows(f, d, k, Vector)
    BY Zenon, <1>2, <1>4, <1>7, <2>1 DEF Follows
  <2>3. d \in Nat /\ k \in Nat /\ 17 + l \in Nat /\ d + k <= 17 + l
    BY <2>1
  <2>4. SubSeq(f, d + 1, d + k) = Vector
    BY <2>2, <2>3, PartIs
  <2>5. d + 1 = 6 /\ d + k = 13
    BY <2>1
  <2> QED
    BY Zenon, <2>4, <2>5
<1>10. SubSeq(f, 1, 13 + l) = Low(l, key)
  <2>1. PICK d \in Nat, k \in Nat : d = 0 /\ k = 13 + l
    BY <1>5
  <2>2. OfLength(f, 17 + l) /\ OfLength(Low(l, key), k) /\ Follows(f, d, k, Low(l, key))
    BY Zenon, <1>2, <1>3, <1>7, <2>1 DEF Follows
  <2>3. d \in Nat /\ k \in Nat /\ 17 + l \in Nat /\ d + k <= 17 + l
    BY <2>1
  <2>4. SubSeq(f, d + 1, d + k) = Low(l, key)
    BY <2>2, <2>3, PartIs
  <2>5. d + 1 = 1 /\ d + k = 13 + l
    BY <2>1
  <2> QED
    BY Zenon, <2>4, <2>5
<1>11. SubSeq(f, 14 + l, 17 + l) = MAC(key, Low(l, key))
  <2>1. PICK d \in Nat, k \in Nat : d = 13 + l /\ k = 4
    BY <1>5
  <2>2. OfLength(f, 17 + l) /\ OfLength(MAC(key, Low(l, key)), k) /\ Follows(f, d, k, MAC(key, Low(l, key)))
    BY Zenon, <1>2, <1>4, <2>1 DEF Follows
  <2>3. d \in Nat /\ k \in Nat /\ 17 + l \in Nat /\ d + k <= 17 + l
    BY <2>1
  <2>4. SubSeq(f, d + 1, d + k) = MAC(key, Low(l, key))
    BY <2>2, <2>3, PartIs
  <2>5. d + 1 = 14 + l /\ d + k = 17 + l
    BY <2>1
  <2> QED
    BY Zenon, <2>4, <2>5
<1> QED
  BY Zenon, <1>1, <1>2, <1>7, <1>8, <1>9, <1>10, <1>11

\* What was sealed under our key is accepted, and its data found where it is.
LEMMA WholeAccepted ==
    ASSUME NEW l \in Nat
    PROVE  /\ Accepted(Frame(Data(l), OurKey)) /\ Size(Frame(Data(l), OurKey)) = l
<1>1. PICK f : f = Frame(Data(l), OurKey)
  OBVIOUS
<1>2. /\ Len(f) = 17 + l /\ f[1] = Zero /\ SubSeq(f, 2, 5) = Sign(OurKey)
      /\ SubSeq(f, 1, 13 + l) = Low(l, OurKey)
      /\ SubSeq(f, 14 + l, 17 + l) = MAC(OurKey, Low(l, OurKey))
  BY Zenon, <1>1, Parts
<1>3. /\ (17 + l) - 4 = 13 + l /\ (13 + l) + 1 = 14 + l /\ (17 + l) - 4 - 13 = l
      /\ 17 + l > 12 /\ l >= 0
  OBVIOUS
<1>4. Size(f) = l
  BY Zenon, <1>2, <1>3 DEF Size, HMACLength
<1>5. Verified(f)
  BY Zenon, <1>2, <1>3 DEF Verified, HMACLength
<1> QED
  BY Zenon, <1>1, <1>2, <1>3, <1>4, <1>5 DEF Accepted

\* The data found is as many masked bytes, and opened they are what was sealed.
LEMMA WholeOpened ==
    ASSUME NEW l \in Nat
    PROVE  /\ Opened(Frame(Data(l), OurKey)) = Data(l)
           /\ Len(Masked(Frame(Data(l), OurKey))) = PaddedLength(l)
<1>1. PICK f : f = Frame(Data(l), OurKey)
  OBVIOUS
<1>2. /\ OfLength(f, 17 + l) /\ SubSeq(f, 6, 13) = Vector
      /\ \A i \in 1 .. 13 + l : f[i] = Low(l, OurKey)[i]
  BY Zenon, <1>1, FrameShape, Parts
<1>3. Size(f) = l
  BY Zenon, <1>1, WholeAccepted
<1>4. PICK d : d = SubSeq(f, 14, 13 + l) /\ IsPart(d, f, 14, 13 + l)
  BY DEF IsPart
<1>5. /\ OfLength(d, l)
      /\ \A i \in 1 .. l : d[i] = [is |-> "masked", byte |-> Data(l)[i], with |-> Stream(OurKey, i)]
  <2>1. /\ 14 \in 1 .. (17 + l) + 1 /\ 13 + l \in 14 - 1 .. 17 + l /\ (13 + l) - 14 + 1 = l
        /\ \A i \in 1 .. l : 14 + i - 1 = 13 + i /\ 13 + i \in 1 .. 13 + l
        /\ 17 + l \in Nat
    OBVIOUS
  <2>2. /\ OfLength(d, (13 + l) - 14 + 1)
        /\ \A i \in 1 .. (13 + l) - 14 + 1 : d[i] = f[14 + i - 1]
    <3>1. /\ 14 \in 1 .. (17 + l) + 1 /\ 13 + l \in 14 - 1 .. 17 + l /\ 17 + l \in Nat
      OBVIOUS
    <3>2. OfLength(f, 17 + l) /\ IsPart(d, f, 14, 13 + l)
      BY Zenon, <1>2, <1>4
    <3> QED
      BY <3>1, <3>2, Part
  <2>3. OfLength(d, l) /\ \A i \in 1 .. l : d[i] = Low(l, OurKey)[13 + i]
    BY Zenon, <1>2, <2>1, <2>2
  <2> QED
    BY Zenon, <2>3, LowShape
<1>6. Masked(f) = Padded(d)
  BY Zenon, <1>3, <1>4 DEF Masked
<1>7. /\ OfLength(Padded(d), PaddedLength(l)) /\ PaddedLength(l) \in Nat
      /\ \A i \in 1 .. l : Padded(d)[i] = d[i]
  BY Zenon, <1>5, PaddedShape
<1>8. Len(Masked(f)) = PaddedLength(l)
  BY Zenon, <1>6, <1>7, OfLengthSeq
<1>9. PICK o : o = Opened(f) /\ o = PerformCrypto(Padded(d), l, OurKey, Padded(Vector))
  BY Zenon, <1>2, <1>3, <1>6 DEF Opened
<1>10. OfLength(o, l)
  BY <1>9 DEF OfLength, PerformCrypto
<1>11. ASSUME NEW i \in 1 .. l
       PROVE  o[i] = Data(l)[i]
  <2>1. o[i] = Mask(Padded(d)[i], Stream(OurKey, i))
    BY <1>9 DEF PerformCrypto, Stream
  <2>2. Padded(d)[i] = [is |-> "masked", byte |-> Data(l)[i], with |-> Stream(OurKey, i)]
    BY Zenon, <1>5, <1>7
  <2> QED
    BY <2>1, <2>2 DEF Mask
<1>12. o = Data(l)
  BY Zenon, <1>10, <1>11, DataShape, SameBytes
<1> QED
  BY Zenon, <1>1, <1>8, <1>9, <1>12

----------------------------------------------------------------------------
(* The decoding of the text.                                               *)

\* A text decodes to its bytes or to none, and to its bytes when its padding is whole.
LEMMA DecodedIs ==
    ASSUME NEW t, NEW n \in Nat, Len(t.bytes) = n
    PROVE  /\ Decoded(t) \in {t.bytes, << >>}
           /\ t.pads = FullPadding(n) => Decoded(t) = t.bytes
<1>1. Decoded(t) \in {t.bytes, << >>}
  BY Zenon DEF Decoded
<1>2. ASSUME t.pads = FullPadding(n)
      PROVE  t.pads + AddedPadding(Characters(n) + t.pads) = FullPadding(n)
  <2>1. PICK q \in Nat : n = 3 * q \/ n = 3 * q + 1 \/ n = 3 * q + 2
    <3>1. n \div 3 \in Nat /\ (n = 3 * (n \div 3) \/ n = 3 * (n \div 3) + 1 \/ n = 3 * (n \div 3) + 2)
      OBVIOUS
    <3> QED
      BY <3>1
  <2>2. AddedPadding(Characters(n) + t.pads) = 0
    <3>1. CASE n = 3 * q
      <4>1. FullPadding(n) = 0 /\ Characters(n) = 4 * q
        BY <3>1 DEF FullPadding, Characters
      <4> QED
        BY <1>2, <4>1 DEF AddedPadding
    <3>2. CASE n = 3 * q + 1
      <4>1. FullPadding(n) = 2 /\ Characters(n) = 4 * q + 2
        BY <3>2 DEF FullPadding, Characters
      <4> QED
        BY <1>2, <4>1 DEF AddedPadding
    <3>3. CASE n = 3 * q + 2
      <4>1. FullPadding(n) = 1 /\ Characters(n) = 4 * q + 3
        BY <3>3 DEF FullPadding, Characters
      <4> QED
        BY <1>2, <4>1 DEF AddedPadding
    <3> QED
      BY <2>1, <3>1, <3>2, <3>3
  <2>3. FullPadding(n) \in Nat
    BY DEF FullPadding
  <2> QED
    BY <1>2, <2>2, <2>3
<1> QED
  BY Zenon, <1>1, <1>2 DEF Decoded

\* A reply that decodes to nothing is refused.
LEMMA NothingRefused == ~Accepted(<< >>)
BY DEF Accepted

----------------------------------------------------------------------------
(* The invariant.                                                          *)

\* How many "=" there may be.
LEMMA PaddingRange == \A n \in Nat : FullPadding(n) \in 0 .. 2
BY DEF FullPadding

\* Sealing raises on data of whole blocks, in a build with assertions, and so does opening it.
LEMMA RaisedOn ==
    ASSUME NEW l \in Nat, NEW bytes, Len(bytes) = PaddedLength(l), Raises(bytes, l)
    PROVE  Assertions /\ l % Block = 0
<1>1. OfLength(Data(l), l)
  BY Zenon, DataShape
<1>2. PaddedLength(l) > l <=> l % Block # 0
  BY Zenon, <1>1, PaddedShape
<1> QED
  BY Zenon, <1>2 DEF Raises

\* A text that was cut, or one byte of it changed, is a sequence of bytes like the whole.
LEMMA CutText ==
    ASSUME NEW l \in Nat, NEW key, NEW n \in 0 .. 16 + l
    PROVE  Len(SubSeq(Frame(Data(l), key), 1, n)) = n
<1>1. PICK f : f = Frame(Data(l), key)
  OBVIOUS
<1>2. OfLength(f, 17 + l)
  BY Zenon, <1>1, FrameShape
<1>3. PICK h : h = SubSeq(f, 1, n) /\ IsPart(h, f, 1, n)
  BY DEF IsPart
<1>4. /\ 1 \in 1 .. (17 + l) + 1 /\ n \in 1 - 1 .. 17 + l /\ n - 1 + 1 = n
      /\ n \in Nat /\ 17 + l \in Nat
  OBVIOUS
<1>5. OfLength(h, n - 1 + 1)
  BY <1>2, <1>3, <1>4, Part
<1>6. Len(h) = n
  BY Zenon, <1>4, <1>5, OfLengthSeq
<1> QED
  BY Zenon, <1>1, <1>3, <1>6

\* The same for a byte changed, which leaves the length.
LEMMA ChangedText ==
    ASSUME NEW l \in Nat, NEW key, NEW n \in 1 .. 17 + l
    PROVE  Len([Frame(Data(l), key) EXCEPT ![n] = Junk]) = 17 + l
<1>1. PICK f : f = Frame(Data(l), key)
  OBVIOUS
<1>2. OfLength(f, 17 + l)
  BY Zenon, <1>1, FrameShape
<1>3. PICK h : h = [f EXCEPT ![n] = Junk]
  OBVIOUS
<1>4. OfLength(h, 17 + l)
  <2>1. DOMAIN f = 1 .. 17 + l
    BY <1>2 DEF OfLength
  <2> QED
    BY <1>3, <2>1 DEF OfLength
<1>5. 17 + l \in Nat
  OBVIOUS
<1> QED
  BY Zenon, <1>1, <1>3, <1>4, <1>5, OfLengthSeq

\* What is accepted was sealed under our key and came unchanged, and its data is opened.
LEMMA AcceptedIs ==
    ASSUME KeyInv, NEW t \in text, Accepted(Decoded(t))
    PROVE  /\ ~changed
           /\ \E s \in sealed : /\ s.key = OurKey /\ s.length \in Lengths
                                /\ Opened(Decoded(t)) = Data(s.length)
                                /\ Size(Decoded(t)) = s.length
                                /\ Len(Masked(Decoded(t))) = PaddedLength(s.length)
<1>1. PICK s \in sealed : Sent(t, s)
  BY Zenon DEF KeyInv, TextInv
<1>2. s.length \in Lengths /\ s.length \in Nat /\ s.key \in ProjectKeys
  BY LengthAssumption DEF KeyInv, TypeOK
<1>3. Decoded(t) = t.bytes
  <2>1. Len(t.bytes) \in Nat
    BY Zenon DEF KeyInv, TypeOK
  <2>2. Decoded(t) \in {t.bytes, << >>}
    BY Zenon, <2>1, DecodedIs
  <2> QED
    BY Zenon, <2>2, NothingRefused
<1>4. Len(Frame(Data(s.length), s.key)) = 17 + s.length
  BY Zenon, <1>2, FrameShape
<1>5. ~changed
  <2>1. SUFFICES ASSUME changed PROVE FALSE
    BY Zenon
  <2>2. \/ \E n \in 0 .. 16 + s.length : t.bytes = SubSeq(Frame(Data(s.length), s.key), 1, n)
        \/ \E n \in 1 .. 17 + s.length : t.bytes = [Frame(Data(s.length), s.key) EXCEPT ![n] = Junk]
    <3>1. (17 + s.length) - 1 = 16 + s.length
      BY <1>2
    <3> QED
      BY Zenon, <1>1, <1>4, <2>1, <3>1 DEF Sent
  <2>3. PICK l \in Nat : l = s.length
    BY <1>2
  <2>4. ASSUME NEW n \in 0 .. 16 + l, t.bytes = SubSeq(Frame(Data(l), s.key), 1, n)
        PROVE  FALSE
    BY Zenon, <1>3, <2>4, CutRefused
  <2>5. ASSUME NEW n \in 1 .. 17 + l, t.bytes = [Frame(Data(l), s.key) EXCEPT ![n] = Junk]
        PROVE  FALSE
    <3>1. PICK c : c = [Frame(Data(l), s.key) EXCEPT ![n] = Junk]
      OBVIOUS
    <3>2. ~Accepted(c)
      BY <3>1, ChangedRefused
    <3> QED
      BY Zenon, <1>3, <2>5, <3>1, <3>2
  <2> QED
    BY Zenon, <2>2, <2>3, <2>4, <2>5
<1>6. t.bytes = Frame(Data(s.length), s.key)
  BY Zenon, <1>1, <1>5 DEF Sent
<1>7. s.key = OurKey
  BY Zenon, <1>2, <1>3, <1>6, OursOnly
<1> QED
  BY Zenon, <1>2, <1>3, <1>5, <1>6, <1>7, WholeAccepted, WholeOpened

\* What is refused though it came unchanged was not ours, or had not its padding.
LEMMA RefusedIs ==
    ASSUME KeyInv, NEW t \in text, ~Accepted(Decoded(t)), ~changed
    PROVE  \/ \E s \in sealed : s.key # OurKey
           \/ t.pads # FullPadding(Len(t.bytes))
<1>1. PICK s \in sealed : Sent(t, s)
  BY Zenon DEF KeyInv, TextInv
<1>2. s.length \in Nat
  BY LengthAssumption DEF KeyInv, TypeOK
<1>3. t.bytes = Frame(Data(s.length), s.key)
  BY Zenon, <1>1 DEF Sent
<1>4. SUFFICES ASSUME s.key = OurKey, t.pads = FullPadding(Len(t.bytes))
               PROVE  FALSE
  BY Zenon
<1>5. Len(t.bytes) \in Nat
  BY Zenon DEF KeyInv, TypeOK
<1>6. Decoded(t) = t.bytes
  BY Zenon, <1>4, <1>5, DecodedIs
<1> QED
  BY Zenon, <1>2, <1>3, <1>4, <1>6, WholeAccepted

\* LMApiaryDeviceCrypto.h 37-39 promises that data which was encrypted will always decrypt
\* to itself.  Where the program raises instead, the data was of whole blocks and the build
\* has assertions: the one of performCrypto: (.m 114) wants a cut that is always shorter.
RaisesOnBlocks ==
    (outcome = "raised" /\ sealed # {}) => Assertions /\ \E s \in sealed : s.length % Block = 0

DeviceInv == KeyInv /\ OpensOnlyWhatWasSealed /\ WholeTextOpens /\ RaisesOnBlocks

\* Before anything is sealed.
LEMMA DeviceInvInit == Init => DeviceInv
BY DEF Init, DeviceInv, KeyInv, TypeOK, TextInv, OpensOnlyWhatWasSealed, WholeTextOpens, RaisesOnBlocks

\* Sealing in this program: whole blocks raise, and other data gives a text.
LEMMA EncryptKeeps ==
    ASSUME DeviceInv, NEW l \in Lengths, Encrypt(l)
    PROVE  DeviceInv'
<1> DEFINE s == [length |-> l, key |-> OurKey]
           f == Frame(Data(l), OurKey)
<1>1. /\ l \in Nat /\ s \in [length : Lengths, key : ProjectKeys]
      /\ s.length = l /\ s.key = OurKey
  BY LengthAssumption, KeyAssumption
<1>2. /\ sealed' = {s} /\ sealed = {} /\ outcome = "none"
      /\ changed' = changed /\ deviceKey' = deviceKey /\ deviceID' = deviceID
  BY DEF Encrypt
<1>3. Len(f) \in Nat /\ FullPadding(Len(f)) \in 0 .. 2
  <2>1. Len(f) = 17 + l
    BY Zenon, <1>1, FrameShape
  <2> QED
    BY <1>1, <2>1, PaddingRange
<1>4. text = {} /\ ~changed
  BY <1>2 DEF DeviceInv, KeyInv, TextInv
<1>5. CASE Raises(Padded(Data(l)), l)
  <2>1. outcome' = "raised" /\ text' = {}
    BY <1>4, <1>5 DEF Encrypt
  <2>2. Assertions /\ l % Block = 0
    <3>1. OfLength(Padded(Data(l)), PaddedLength(l)) /\ PaddedLength(l) \in Nat
      BY Zenon, <1>1, DataShape, PaddedShape
    <3>2. Len(Padded(Data(l))) = PaddedLength(l)
      BY Zenon, <3>1, OfLengthSeq
    <3> QED
      BY Zenon, <1>1, <1>5, <3>2, RaisedOn
  <2>3. RaisesOnBlocks'
    BY <1>1, <1>2, <2>2 DEF RaisesOnBlocks
  <2>4. KeyInv'
    <3> HIDE DEF s
    <3> QED
      BY <1>1, <1>2, <2>1 DEF DeviceInv, KeyInv, TypeOK, TextInv
  <2> QED
    BY <2>1, <2>3, <2>4 DEF DeviceInv, OpensOnlyWhatWasSealed, WholeTextOpens
<1>6. CASE ~Raises(Padded(Data(l)), l)
  <2> DEFINE t == [bytes |-> f, pads |-> FullPadding(Len(f))]
  <2>1. outcome' = "none" /\ text' = {t}
    BY <1>2, <1>6 DEF Encrypt
  <2>2. t.bytes = f /\ t.pads \in 0 .. 2 /\ DOMAIN t = {"bytes", "pads"}
    BY <1>3
  <2>3. Sent(t, s)'
    BY <1>1, <1>2, <1>4, <2>2 DEF Sent
  <2> HIDE DEF f, s, t
  <2>4. TextInv'
    BY Zenon, <1>2, <2>1, <2>2, <2>3 DEF TextInv
  <2>5. TypeOK'
    BY <1>1, <1>2, <1>3, <2>1, <2>2 DEF DeviceInv, KeyInv, TypeOK
  <2> QED
    BY <2>1, <2>4, <2>5 DEF DeviceInv, KeyInv, OpensOnlyWhatWasSealed, WholeTextOpens, RaisesOnBlocks
<1> QED
  BY Zenon, <1>5, <1>6

\* Sealing at the server, with or without the padding.
LEMMA ServerSealsKeeps ==
    ASSUME DeviceInv, NEW l \in Lengths, NEW key \in ProjectKeys, ServerSeals(l, key)
    PROVE  DeviceInv'
<1> DEFINE s == [length |-> l, key |-> key]
           f == Frame(Data(l), key)
<1>1. /\ l \in Nat /\ s \in [length : Lengths, key : ProjectKeys]
      /\ s.length = l /\ s.key = key
  BY LengthAssumption
<1>2. /\ sealed' = {s} /\ sealed = {} /\ outcome = "none" /\ outcome' = "none"
      /\ changed' = changed /\ deviceKey' = deviceKey /\ deviceID' = deviceID
  BY DEF ServerSeals
<1>3. Len(f) \in Nat /\ FullPadding(Len(f)) \in 0 .. 2
  <2>1. Len(f) = 17 + l
    BY Zenon, <1>1, FrameShape
  <2> QED
    BY <1>1, <2>1, PaddingRange
<1>4. text = {} /\ ~changed
  BY <1>2 DEF DeviceInv, KeyInv, TextInv
<1>5. PICK pads \in {0, FullPadding(Len(f))} : text' = {[bytes |-> f, pads |-> pads]}
  BY DEF ServerSeals
<1> DEFINE t == [bytes |-> f, pads |-> pads]
<1>6. t.bytes = f /\ t.pads \in 0 .. 2 /\ DOMAIN t = {"bytes", "pads"} /\ text' = {t}
  BY <1>3, <1>5
<1>7. Sent(t, s)'
  BY <1>1, <1>2, <1>4, <1>6 DEF Sent
<1> HIDE DEF f, s, t
<1>8. TextInv'
  BY Zenon, <1>2, <1>6, <1>7 DEF TextInv
<1>9. TypeOK'
  BY <1>1, <1>2, <1>3, <1>6 DEF DeviceInv, KeyInv, TypeOK
<1> QED
  BY <1>2, <1>8, <1>9 DEF DeviceInv, KeyInv, OpensOnlyWhatWasSealed, WholeTextOpens, RaisesOnBlocks

\* A text cut or changed is no longer claimed to be whole.
LEMMA ChangeKeeps ==
    ASSUME DeviceInv, Change
    PROVE  DeviceInv'
<1>1. /\ sealed' = sealed /\ outcome = "none" /\ outcome' = "none" /\ ~changed /\ changed' = TRUE
      /\ deviceKey' = deviceKey /\ deviceID' = deviceID
  BY DEF Change
<1>2. PICK t \in text :
          \/ \E n \in 0 .. Len(t.bytes) - 1 :
                 \E pads \in {0, FullPadding(n)} :
                     text' = {[bytes |-> SubSeq(t.bytes, 1, n), pads |-> pads]}
          \/ \E n \in 1 .. Len(t.bytes) : text' = {[t EXCEPT !.bytes[n] = Junk]}
  BY DEF Change
<1>3. PICK s \in sealed : Sent(t, s)
  BY Zenon DEF DeviceInv, KeyInv, TextInv
<1>4. PICK l \in Nat : l = s.length
  BY LengthAssumption DEF DeviceInv, KeyInv, TypeOK
<1>5. PICK f : f = Frame(Data(l), s.key)
  OBVIOUS
<1>6. t.bytes = f
  BY Zenon, <1>1, <1>3, <1>4, <1>5 DEF Sent
<1>7. Len(f) = 17 + l
  BY Zenon, <1>5, FrameShape
<1>8. PICK u : /\ text' = {u} /\ DOMAIN u = {"bytes", "pads"} /\ Sent(u, s)'
               /\ Len(u.bytes) \in Nat /\ u.pads \in 0 .. 2
  <2>1. ASSUME NEW n \in 0 .. Len(t.bytes) - 1, NEW pads \in {0, FullPadding(n)},
               text' = {[bytes |-> SubSeq(t.bytes, 1, n), pads |-> pads]}
        PROVE  \E u : /\ text' = {u} /\ DOMAIN u = {"bytes", "pads"} /\ Sent(u, s)'
                      /\ Len(u.bytes) \in Nat /\ u.pads \in 0 .. 2
    <3> DEFINE u == [bytes |-> SubSeq(t.bytes, 1, n), pads |-> pads]
    <3>1. n \in 0 .. Len(f) - 1 /\ n \in 0 .. 16 + l /\ n \in Nat
      BY <1>6, <1>7
    <3>2. u.bytes = SubSeq(f, 1, n) /\ DOMAIN u = {"bytes", "pads"} /\ u.pads = pads
      BY <1>6
    <3>3. Len(u.bytes) = n
      BY Zenon, <1>5, <3>1, <3>2, CutText
    <3>4. pads \in 0 .. 2
      BY <3>1, PaddingRange
    <3> HIDE DEF u
    <3>5. Sent(u, s)'
      BY Zenon, <1>1, <1>4, <1>5, <3>1, <3>2 DEF Sent
    <3>6. text' = {u}
      BY <2>1 DEF u
    <3> QED
      BY Zenon, <3>1, <3>2, <3>3, <3>4, <3>5, <3>6
  <2>2. ASSUME NEW n \in 1 .. Len(t.bytes), text' = {[t EXCEPT !.bytes[n] = Junk]}
        PROVE  \E u : /\ text' = {u} /\ DOMAIN u = {"bytes", "pads"} /\ Sent(u, s)'
                      /\ Len(u.bytes) \in Nat /\ u.pads \in 0 .. 2
    <3> DEFINE u == [t EXCEPT !.bytes[n] = Junk]
    <3>0. DOMAIN t = {"bytes", "pads"} /\ t.pads \in 0 .. 2
      BY Zenon DEF DeviceInv, KeyInv, TextInv, TypeOK
    <3>1. n \in 1 .. Len(f) /\ n \in 1 .. 17 + l /\ 17 + l \in Nat
      BY <1>6, <1>7
    <3>2. u.bytes = [f EXCEPT ![n] = Junk] /\ DOMAIN u = {"bytes", "pads"} /\ u.pads = t.pads
      BY <1>6, <3>0
    <3>3. Len(u.bytes) = 17 + l
      BY Zenon, <1>5, <3>1, <3>2, ChangedText
    <3> HIDE DEF u
    <3>4. Sent(u, s)'
      BY Zenon, <1>1, <1>4, <1>5, <3>1, <3>2 DEF Sent
    <3>5. text' = {u}
      BY <2>2 DEF u
    <3> QED
      BY Zenon, <3>0, <3>1, <3>2, <3>3, <3>4, <3>5
  <2> QED
    BY Zenon, <1>2, <2>1, <2>2
<1>9. TextInv'
  BY Zenon, <1>1, <1>8 DEF TextInv
<1>10. TypeOK'
  BY <1>1, <1>8 DEF DeviceInv, KeyInv, TypeOK
<1> QED
  BY <1>1, <1>9, <1>10 DEF DeviceInv, KeyInv, OpensOnlyWhatWasSealed, WholeTextOpens, RaisesOnBlocks

\* Opening: the text is judged as AcceptedIs and RefusedIs say.
LEMMA SetDeviceIDKeeps ==
    ASSUME DeviceInv, SetDeviceID
    PROVE  DeviceInv'
<1>1. sealed' = sealed /\ text' = text /\ changed' = changed /\ outcome = "none"
  BY DEF SetDeviceID
<1>2. KeyInv
  BY DEF DeviceInv
<1>3. PICK t \in text :
          \/ /\ ~Accepted(Decoded(t))
             /\ deviceKey' = {} /\ outcome' = "refused" /\ UNCHANGED deviceID
          \/ /\ Accepted(Decoded(t)) /\ Raises(Masked(Decoded(t)), Size(Decoded(t)))
             /\ outcome' = "raised" /\ UNCHANGED <<deviceKey, deviceID>>
          \/ /\ Accepted(Decoded(t)) /\ ~Raises(Masked(Decoded(t)), Size(Decoded(t)))
             /\ deviceKey' = {Opened(Decoded(t))} /\ deviceID' = TRUE /\ outcome' = "set"
  BY Zenon DEF SetDeviceID
<1>5. TextInv'
  <2>1. outcome' # "none"
    BY <1>3
  <2>2. \A u \in text : DOMAIN u = {"bytes", "pads"} /\ \E s \in sealed : Sent(u, s)'
    BY Zenon, <1>1, <1>2 DEF KeyInv, TextInv, Sent
  <2> QED
    BY Zenon, <1>1, <2>1, <2>2 DEF TextInv
<1>6. CASE ~Accepted(Decoded(t))
  <2>1. deviceKey' = {} /\ outcome' = "refused" /\ deviceID' = deviceID
    BY <1>3, <1>6
  <2>2. WholeTextOpens'
    <3>1. ~changed => (\E s \in sealed : s.key # OurKey) \/ t.pads # FullPadding(Len(t.bytes))
      BY Zenon, <1>2, <1>6, RefusedIs
    <3> QED
      BY Zenon, <1>1, <3>1 DEF WholeTextOpens
  <2>3. TypeOK'
    BY <1>1, <1>2, <2>1 DEF KeyInv, TypeOK
  <2> QED
    BY <1>5, <2>1, <2>2, <2>3 DEF DeviceInv, KeyInv, OpensOnlyWhatWasSealed, RaisesOnBlocks
<1>7. CASE Accepted(Decoded(t))
  <2>1. /\ ~changed
        /\ \E s \in sealed : /\ s.key = OurKey /\ s.length \in Lengths
                             /\ Opened(Decoded(t)) = Data(s.length)
                             /\ Size(Decoded(t)) = s.length
                             /\ Len(Masked(Decoded(t))) = PaddedLength(s.length)
    BY Zenon, <1>2, <1>7, AcceptedIs
  <2>2. PICK s \in sealed : /\ s.key = OurKey /\ s.length \in Lengths
                            /\ Opened(Decoded(t)) = Data(s.length)
                            /\ Size(Decoded(t)) = s.length
                            /\ Len(Masked(Decoded(t))) = PaddedLength(s.length)
    BY Zenon, <2>1
  <2>3. s.length \in Nat
    BY <2>2, LengthAssumption
  <2>4. CASE Raises(Masked(Decoded(t)), Size(Decoded(t)))
    <3>1. outcome' = "raised" /\ deviceKey' = deviceKey /\ deviceID' = deviceID
      BY <1>3, <1>7, <2>4
    <3>2. Assertions /\ s.length % Block = 0
      BY Zenon, <2>2, <2>3, <2>4, RaisedOn
    <3>3. RaisesOnBlocks'
      BY Zenon, <1>1, <3>2 DEF RaisesOnBlocks
    <3>4. TypeOK'
      BY <1>1, <1>2, <3>1 DEF KeyInv, TypeOK
    <3> QED
      BY <1>5, <3>1, <3>3, <3>4 DEF DeviceInv, KeyInv, OpensOnlyWhatWasSealed, WholeTextOpens
  <2>5. CASE ~Raises(Masked(Decoded(t)), Size(Decoded(t)))
    <3>1. outcome' = "set" /\ deviceKey' = {Data(s.length)} /\ deviceID' = TRUE
      BY <1>3, <1>7, <2>2, <2>5
    <3>2. Len(Data(s.length)) = s.length
      BY Zenon, <2>3, DataShape
    <3>3. OpensOnlyWhatWasSealed'
      BY Zenon, <1>1, <2>1, <2>2, <3>1 DEF OpensOnlyWhatWasSealed
    <3>4. TypeOK'
      BY <1>1, <1>2, <2>2, <3>1, <3>2 DEF KeyInv, TypeOK
    <3> QED
      BY <1>5, <3>1, <3>3, <3>4 DEF DeviceInv, KeyInv, RaisesOnBlocks, WholeTextOpens
  <2> QED
    BY Zenon, <2>4, <2>5
<1> QED
  BY Zenon, <1>6, <1>7

\* A reply without a key raises though nothing was sealed.
LEMMA KeyMissingKeeps ==
    ASSUME DeviceInv, KeyMissing
    PROVE  DeviceInv'
<1>1. /\ sealed' = sealed /\ text' = text /\ changed' = changed /\ deviceKey' = deviceKey
      /\ deviceID' = deviceID /\ outcome = "none" /\ outcome' = "raised" /\ text = {}
  BY DEF KeyMissing
<1>2. sealed = {}
  BY <1>1 DEF DeviceInv, KeyInv, TextInv
<1> QED
  BY <1>1, <1>2 DEF DeviceInv, KeyInv, TypeOK, TextInv, OpensOnlyWhatWasSealed, WholeTextOpens,
                    RaisesOnBlocks

\* The four hold together.
LEMMA DeviceInvariant == Spec => []DeviceInv
<1>1. DeviceInv /\ [Next]_vars => DeviceInv'
  <2> SUFFICES ASSUME DeviceInv, [Next]_vars PROVE DeviceInv'
    OBVIOUS
  <2>1. CASE Next
    BY Zenon, <2>1, EncryptKeeps, ServerSealsKeeps, ChangeKeeps, SetDeviceIDKeeps, KeyMissingKeeps
       DEF Next
  <2>2. CASE UNCHANGED vars
    BY <2>2 DEF vars, DeviceInv, KeyInv, TypeOK, TextInv, Sent, OpensOnlyWhatWasSealed,
                WholeTextOpens, RaisesOnBlocks
  <2> QED
    BY Zenon, <2>1, <2>2
<1> QED
  BY DeviceInvInit, <1>1, PTL DEF Spec

\* The variables have their types, and a text on its way is what was sealed, the beginning
\* of it or all but a byte: encryptAndEncodeData: and what may happen to its result, for
\* any project keys and lengths.
THEOREM KeyInvariant == Spec => []KeyInv
<1>1. DeviceInv => KeyInv
  BY DEF DeviceInv
<1> QED
  BY DeviceInvariant, <1>1, PTL

\* setDeviceID:deviceKey:error: takes for a device key only what was sealed under the key
\* of this instance and came as it was sent, and the data it takes is the data sealed.
THEOREM OnlySealedIsOpened == Spec => []OpensOnlyWhatWasSealed
<1>1. DeviceInv => OpensOnlyWhatWasSealed
  BY DEF DeviceInv
<1> QED
  BY DeviceInvariant, <1>1, PTL

\* decryptEncodedString: refuses nothing that was sealed under our key, came as it was sent
\* and has the padding it should have, at whatever length.
THEOREM WholeIsOpened == Spec => []WholeTextOpens
<1>1. DeviceInv => WholeTextOpens
  BY DEF DeviceInv
<1> QED
  BY DeviceInvariant, <1>1, PTL

\* How far that goes: the promise is broken, on sealing or on opening, for whole blocks
\* under assertions and for nothing else, whatever the keys and lengths.
THEOREM OnlyBlocksRaise == Spec => []RaisesOnBlocks
<1>1. DeviceInv => RaisesOnBlocks
  BY DEF DeviceInv
<1> QED
  BY DeviceInvariant, <1>1, PTL
=============================================================================
