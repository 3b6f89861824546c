---------------------------- MODULE FramingProofs ----------------------------
(***************************************************************************)
(* Proofs about Framing, for bytes of any number of values, all ids and    *)
(* payloads that fit their fields, any number of packets, and however the  *)
(* stream is cut.                                                          *)
(***************************************************************************)
EXTENDS FramingInvariant, SequenceTheorems, TLAPS

\* Division with remainder.
LEMMA Remainder ==
  ASSUME NEW a \in Nat, NEW c \in Nat \ {0}
  PROVE  a \div c \in Nat /\ a % c \in 0 .. c - 1 /\ a = c * (a \div c) + (a % c)
<1>1. a \div c \in Int /\ a % c \in 0 .. c - 1 /\ a = c * (a \div c) + (a % c)
  OBVIOUS
<1> QED
  BY <1>1

\* Taking the first k elements off b takes them off b \o w.
LEMMA DropPrefix ==
  ASSUME NEW S, NEW b \in Seq(S), NEW w \in Seq(S), NEW k \in 1 .. Len(b)
  PROVE  /\ SubSeq(b, k + 1, Len(b)) \in Seq(S)
         /\ Len(SubSeq(b, k + 1, Len(b))) = Len(b) - k
         /\ SubSeq(b, k + 1, Len(b)) \o w = SubSeq(b \o w, k + 1, Len(b \o w))
<1> DEFINE t == b \o w
           c == SubSeq(b, k + 1, Len(b))
           u == c \o w
           v == SubSeq(t, k + 1, Len(t))
<1>1. /\ t \in Seq(S) /\ Len(t) = Len(b) + Len(w)
      /\ \A i \in 1 .. Len(b) + Len(w) :
           t[i] = IF i <= Len(b) THEN b[i] ELSE w[i - Len(b)]
  BY ConcatProperties
<1>2. Len(b) \in Nat /\ Len(w) \in Nat /\ k \in Nat /\ k <= Len(b) /\ k >= 1
  OBVIOUS
<1>3. /\ c \in Seq(S)
      /\ Len(c) = IF k + 1 <= Len(b) THEN Len(b) - (k + 1) + 1 ELSE 0
      /\ \A i \in 1 .. Len(b) - (k + 1) + 1 : c[i] = b[k + 1 + i - 1]
  <2>1. k + 1 \in Int /\ Len(b) \in Int /\ \A i \in k + 1 .. Len(b) : b[i] \in S
    BY <1>2
  <2> QED
    BY <2>1, SubSeqProperties
<1> HIDE DEF c, t
<1>4. Len(c) = Len(b) - k /\ \A i \in 1 .. Len(b) - k : c[i] = b[k + i]
  BY <1>2, <1>3
<1>5. /\ u \in Seq(S) /\ Len(u) = Len(c) + Len(w)
      /\ \A i \in 1 .. Len(c) + Len(w) :
           u[i] = IF i <= Len(c) THEN c[i] ELSE w[i - Len(c)]
  BY <1>3, ConcatProperties
<1>6. /\ v \in Seq(S)
      /\ Len(v) = IF k + 1 <= Len(t) THEN Len(t) - (k + 1) + 1 ELSE 0
      /\ \A i \in 1 .. Len(t) - (k + 1) + 1 : v[i] = t[k + 1 + i - 1]
  <2>1. k + 1 \in Int /\ Len(t) \in Int /\ \A i \in k + 1 .. Len(t) : t[i] \in S
    BY <1>1, <1>2, ElementOfSeq
  <2> QED
    BY <2>1, SubSeqProperties
<1> HIDE DEF u, v
<1>7. /\ Len(u) = Len(b) - k + Len(w) /\ Len(v) = Len(b) - k + Len(w)
      /\ Len(b) - k \in Nat
  BY <1>1, <1>2, <1>4, <1>5, <1>6
<1>8. ASSUME NEW i \in 1 .. Len(b) - k + Len(w)
      PROVE  u[i] = v[i]
  <2>1. v[i] = t[k + i] /\ k + i \in 1 .. Len(b) + Len(w)
    BY <1>1, <1>2, <1>6
  <2>2. CASE i <= Len(b) - k
    <3>1. u[i] = c[i] /\ c[i] = b[k + i]
      BY <1>2, <1>4, <1>5, <2>2
    <3>2. t[k + i] = b[k + i]
      BY <1>1, <1>2, <2>1, <2>2
    <3> QED
      BY <2>1, <3>1, <3>2
  <2>3. CASE ~(i <= Len(b) - k)
    <3>1. u[i] = w[i - Len(c)] /\ i - Len(c) = k + i - Len(b)
      BY <1>2, <1>4, <1>5, <2>3
    <3>2. t[k + i] = w[k + i - Len(b)]
      BY <1>1, <1>2, <2>1, <2>3
    <3> QED
      BY <2>1, <3>1, <3>2
  <2> QED
    BY <2>2, <2>3
<1>9. u = v
  BY <1>5, <1>6, <1>7, <1>8, SeqEqual
<1> QED
  BY <1>3, <1>4, <1>9 DEF c, t, u, v

\* Where three sequences are joined first makes no difference.
Associates(b, x, y) == (b \o x) \o y = b \o (x \o y)

LEMMA Regroup ==
  ASSUME NEW S, NEW b \in Seq(S), NEW x \in Seq(S), NEW y \in Seq(S)
  PROVE  Associates(b, x, y)
BY ConcatAssociative DEF Associates

\* Moving the first n elements of w behind b changes nothing in b \o w.
LEMMA MovePrefix ==
  ASSUME NEW S, NEW b \in Seq(S), NEW w \in Seq(S), NEW n \in 1 .. Len(w)
  PROVE  /\ b \o SubSeq(w, 1, n) \in Seq(S)
         /\ SubSeq(w, n + 1, Len(w)) \in Seq(S)
         /\ (b \o SubSeq(w, 1, n)) \o SubSeq(w, n + 1, Len(w)) = b \o w
<1> DEFINE x == SubSeq(w, 1, n)
           y == SubSeq(w, n + 1, Len(w))
<1>1. x \in Seq(S) /\ y \in Seq(S)
  <2>1. \A i \in 1 .. n : w[i] \in S
    OBVIOUS
  <2>2. \A i \in n + 1 .. Len(w) : w[i] \in S
    OBVIOUS
  <2>3. Len(w) \in Nat /\ n \in Int
    OBVIOUS
  <2>4. 1 \in Int /\ n \in Int /\ n + 1 \in Int /\ Len(w) \in Int
    <3> HIDE DEF x, y
    <3> QED
      BY <2>3
  <2> QED
    BY <2>1, <2>2, <2>4, SubSeqProperties
<1>2. x \o y = w
  <2>1. 1 \in 1 .. Len(w) + 1 /\ n \in 1 - 1 .. Len(w) /\ Len(w) \in n .. Len(w)
    OBVIOUS
  <2>2. x \o y = SubSeq(w, 1, Len(w))
    BY <2>1, ConcatAdjacentSubSeq
  <2>3. SubSeq(w, 1, Len(w)) = w
    BY SubSeqFull
  <2> QED
    BY <2>2, <2>3, Zenon
<1> HIDE DEF x, y
<1>3. b \o x \in Seq(S)
  BY <1>1, ConcatProperties
<1>4. Associates(b, x, y)
  BY <1>1, Regroup, Zenon
<1>5. (b \o x) \o y = b \o (x \o y)
  BY <1>4 DEF Associates
<1> QED
  BY <1>1, <1>2, <1>3, <1>5 DEF x, y

\* Two fields of four elements and the rest are where they belong in e.
LaidOut(S, a, b, d, e) ==
  /\ e \in Seq(S) /\ Len(e) = 8 + Len(d)
  /\ e[1] = a[1] /\ e[2] = a[2] /\ e[3] = a[3] /\ e[4] = a[4]
  /\ e[5] = b[1] /\ e[6] = b[2] /\ e[7] = b[3] /\ e[8] = b[4]
  /\ SubSeq(e, 9, Len(e)) = d

\* Concatenation lays them out that way.
LEMMA Layout ==
  ASSUME NEW S, NEW a \in Seq(S), NEW b \in Seq(S), NEW d \in Seq(S),
         Len(a) = 4, Len(b) = 4
  PROVE  LaidOut(S, a, b, d, a \o b \o d)
<1> DEFINE h == a \o b
<1>1. /\ h \in Seq(S) /\ Len(h) = Len(a) + Len(b)
      /\ \A i \in 1 .. Len(a) + Len(b) :
           h[i] = IF i <= Len(a) THEN a[i] ELSE b[i - Len(a)]
  BY ConcatProperties
<1>2. a \o b \o d = h \o d
  OBVIOUS
<1> HIDE DEF h
<1>3. Len(h) = 8 /\ Len(d) \in Nat
  BY <1>1
<1>4. /\ h[1] = a[1] /\ h[2] = a[2] /\ h[3] = a[3] /\ h[4] = a[4]
      /\ h[5] = b[1] /\ h[6] = b[2] /\ h[7] = b[3] /\ h[8] = b[4]
  BY <1>1
<1> DEFINE f == h \o d
<1>5. /\ f \in Seq(S) /\ Len(f) = Len(h) + Len(d)
      /\ \A i \in 1 .. Len(h) + Len(d) :
           f[i] = IF i <= Len(h) THEN h[i] ELSE d[i - Len(h)]
  <2>1. h \in Seq(S)
    BY <1>1
  <2> QED
    BY <2>1, ConcatProperties
<1>6. a \o b \o d = f
  BY <1>2
<1> HIDE DEF f
<1>7. /\ Len(f) = 8 + Len(d) /\ \A i \in 1 .. 8 : f[i] = h[i]
      /\ \A i \in 9 .. 8 + Len(d) : f[i] = d[i - 8]
  <2>1. /\ Len(f) = 8 + Len(d)
        /\ \A i \in 1 .. 8 + Len(d) : f[i] = IF i <= 8 THEN h[i] ELSE d[i - 8]
    BY <1>3, <1>5
  <2>2. Len(d) \in Nat
    BY <1>3
  <2>3. ASSUME NEW i \in 1 .. 8 PROVE f[i] = h[i]
    BY <2>1, <2>2
  <2>4. ASSUME NEW i \in 9 .. 8 + Len(d) PROVE f[i] = d[i - 8]
    BY <2>1, <2>2
  <2> QED
    BY <2>1, <2>3, <2>4
<1>8. SubSeq(f, 9, Len(f)) = d
  <2> DEFINE s == SubSeq(f, 9, Len(f))
  <2>1. 9 \in Int /\ Len(f) \in Int /\ \A i \in 9 .. Len(f) : f[i] \in S
    BY <1>3, <1>5, <1>7, ElementOfSeq
  <2>2. /\ s \in Seq(S)
        /\ Len(s) = IF 9 <= Len(f) THEN Len(f) - 9 + 1 ELSE 0
        /\ \A i \in 1 .. Len(f) - 9 + 1 : s[i] = f[9 + i - 1]
    BY <2>1, SubSeqProperties
  <2> HIDE DEF s
  <2>3. Len(s) = Len(d) /\ \A i \in 1 .. Len(d) : s[i] = d[i]
    BY <1>3, <1>7, <2>2
  <2> QED
    BY <2>2, <2>3, SeqEqual DEF s
<1>9. /\ f[1] = a[1] /\ f[2] = a[2] /\ f[3] = a[3] /\ f[4] = a[4]
      /\ f[5] = b[1] /\ f[6] = b[2] /\ f[7] = b[3] /\ f[8] = b[4]
  BY <1>4, <1>7
<1>10. LaidOut(S, a, b, d, f)
  BY <1>5, <1>7, <1>8, <1>9 DEF LaidOut
<1> QED
  BY <1>6, <1>10

USE FormatAssumption

-----------------------------------------------------------------------------
(***************************************************************************)
(* The fields of a header.                                                 *)
(***************************************************************************)

\* Radix times a product is below Radix times a larger one.
LEMMA TimesBound ==
  ASSUME NEW a \in Nat, NEW b \in Nat, Radix * a < Radix * b
  PROVE  a < b
<1> SUFFICES ASSUME b <= a PROVE FALSE
  OBVIOUS
<1>1. a - b \in Nat
  OBVIOUS
<1>2. Radix * (a - b) \in Nat
  BY <1>1
<1>3. Radix * a = Radix * b + Radix * (a - b)
  OBVIOUS
<1>4. Radix * a \in Nat /\ Radix * b \in Nat
  OBVIOUS
<1> QED
  BY <1>2, <1>3, <1>4

\* Dividing by Radix takes the last digit off.
LEMMA LastDigit ==
  ASSUME NEW v \in Nat, NEW w \in Nat, v < Radix * w
  PROVE  /\ v \div Radix \in Nat
         /\ v \div Radix < w
         /\ v % Radix \in Bytes
         /\ v = (v % Radix) + Radix * (v \div Radix)
<1> DEFINE q == v \div Radix
           d == v % Radix
<1>1. q \in Nat /\ d \in 0 .. Radix - 1 /\ v = Radix * q + d
  BY Remainder
<1> HIDE DEF q, d
<1>2. Radix * q \in Nat /\ Radix * q <= v
  BY <1>1
<1>3. Radix * q < Radix * w
  BY <1>2
<1>4. q < w
  BY <1>1, <1>3, TimesBound
<1> QED
  BY <1>1, <1>2, <1>4 DEF q, d, Bytes

\* The four bytes of a uint32_t are bytes and have its value.
LEMMA FourDigits ==
  ASSUME NEW v \in UInt32
  PROVE  /\ LittleEndian(v) \in Seq(Bytes) /\ Len(LittleEndian(v)) = 4
         /\ Value(LittleEndian(v)[1], LittleEndian(v)[2], LittleEndian(v)[3],
                  LittleEndian(v)[4]) = v
<1> DEFINE v1 == v \div Radix
           v2 == v1 \div Radix
           v3 == v2 \div Radix
<1>0. /\ Radix \in Nat /\ Radix * Radix \in Nat /\ Radix * (Radix * Radix) \in Nat
      /\ Word \in Nat
  BY DEF Word
<1>1. v \in Nat /\ v < Radix * (Radix * (Radix * Radix))
  BY <1>0 DEF UInt32, Word
<1>2. /\ v1 \in Nat /\ v1 < Radix * (Radix * Radix)
      /\ v % Radix \in Bytes /\ v = (v % Radix) + Radix * v1
  BY <1>0, <1>1, LastDigit
<1> HIDE DEF v1
<1>3. /\ v2 \in Nat /\ v2 < Radix * Radix
      /\ v1 % Radix \in Bytes /\ v1 = (v1 % Radix) + Radix * v2
  BY <1>0, <1>2, LastDigit
<1> HIDE DEF v2
<1>4. /\ v3 \in Nat /\ v3 < Radix
      /\ v2 % Radix \in Bytes /\ v2 = (v2 % Radix) + Radix * v3
  BY <1>0, <1>3, LastDigit
<1> HIDE DEF v3
<1>5. v3 % Radix = v3 /\ v3 \in Bytes
  BY <1>4 DEF Bytes
<1>6. LittleEndian(v) = <<v % Radix, v1 % Radix, v2 % Radix, v3 % Radix>>
  BY DEF LittleEndian, v1, v2, v3
<1>7. /\ LittleEndian(v)[1] = v % Radix /\ LittleEndian(v)[2] = v1 % Radix
      /\ LittleEndian(v)[3] = v2 % Radix /\ LittleEndian(v)[4] = v3
      /\ LittleEndian(v) \in Seq(Bytes) /\ Len(LittleEndian(v)) = 4
  BY <1>2, <1>3, <1>4, <1>5, <1>6
<1>8. Value(v % Radix, v1 % Radix, v2 % Radix, v3) = v
  BY <1>2, <1>3, <1>4 DEF Value
<1> QED
  BY <1>7, <1>8

LEMMA FourDigitsReversed ==
  ASSUME NEW v \in UInt32
  PROVE  /\ BigEndian(v) \in Seq(Bytes) /\ Len(BigEndian(v)) = 4
         /\ Value(BigEndian(v)[4], BigEndian(v)[3], BigEndian(v)[2],
                  BigEndian(v)[1]) = v
<1> DEFINE b == LittleEndian(v)
<1>1. /\ b \in Seq(Bytes) /\ Len(b) = 4 /\ Value(b[1], b[2], b[3], b[4]) = v
  BY FourDigits
<1>2. BigEndian(v) = <<b[4], b[3], b[2], b[1]>>
  BY DEF BigEndian
<1> HIDE DEF b
<1>3. b[1] \in Bytes /\ b[2] \in Bytes /\ b[3] \in Bytes /\ b[4] \in Bytes
  BY <1>1, SMTT(30)
<1> QED
  BY <1>1, <1>2, <1>3

\* A number that fits a uint32_t is not changed by the conversion.
LEMMA Fits ==
  ASSUME NEW v \in UInt32
  PROVE  v % Word = v
<1>1. Word \in Nat
  BY DEF Word
<1>2. v \in 0 .. Word - 1
  BY DEF UInt32
<1> HIDE FormatAssumption
<1> QED
  BY <1>1, <1>2

-----------------------------------------------------------------------------
(***************************************************************************)
(* Packets as bytes.                                                       *)
(***************************************************************************)

\* What a packet is written as, the decoder reads as that packet, in both
\* formats.
LEMMA RoundTrip ==
  ASSUME format \in {"TLD", "LTD"}, NEW p \in Packets
  PROVE  /\ Encode(format, p) \in Seq(Bytes)
         /\ Len(Encode(format, p)) = kHeaderLength + Len(p.payload)
         /\ kHeaderLength + Len(p.payload) \in UInt32
         /\ GetPayloadLength(Encode(format, p)) = Len(p.payload)
         /\ GetId(Encode(format, p)) = p.id
         /\ GetPayload(Encode(format, p)) = p.payload
<1>1. /\ p.id \in UInt32 /\ p.payload \in Seq(Bytes)
      /\ kHeaderLength + Len(p.payload) \in UInt32
  BY PayloadAssumption DEF Packets
<1>2. Len(p.payload) \in UInt32
  <2>1. Word \in Nat /\ Len(p.payload) \in Nat
    BY <1>1 DEF Word
  <2> QED
    BY <1>1, <2>1 DEF UInt32, kHeaderLength
<1>3. Len(p.payload) % Word = Len(p.payload)
  BY <1>2, Fits
<1>4. CASE format = "LTD"
  <2> DEFINE a == LittleEndian(Len(p.payload))
             b == LittleEndian(p.id)
  <2>1. /\ a \in Seq(Bytes) /\ Len(a) = 4
        /\ Value(a[1], a[2], a[3], a[4]) = Len(p.payload)
        /\ b \in Seq(Bytes) /\ Len(b) = 4 /\ Value(b[1], b[2], b[3], b[4]) = p.id
    BY <1>1, <1>2, FourDigits
  <2>2. Encode(format, p) = a \o b \o p.payload
    BY <1>3, <1>4 DEF Encode, EncodeLTD
  <2> HIDE DEF a, b
  <2> DEFINE e == Encode(format, p)
  <2>3. e = a \o b \o p.payload
    BY <2>2
  <2> HIDE DEF e
  <2>4. /\ e \in Seq(Bytes) /\ Len(e) = 8 + Len(p.payload)
        /\ SubSeq(e, 9, Len(e)) = p.payload
        /\ e[1] = a[1] /\ e[2] = a[2] /\ e[3] = a[3] /\ e[4] = a[4]
        /\ e[5] = b[1] /\ e[6] = b[2] /\ e[7] = b[3] /\ e[8] = b[4]
    <3>1. /\ a \in Seq(Bytes) /\ b \in Seq(Bytes) /\ p.payload \in Seq(Bytes)
          /\ Len(a) = 4 /\ Len(b) = 4
      BY <1>1, <2>1
    <3> HIDE FormatAssumption
    <3>2. LaidOut(Bytes, a, b, p.payload, a \o b \o p.payload)
      BY <3>1, Layout
    <3>3. LaidOut(Bytes, a, b, p.payload, e)
      BY <2>3, <3>2
    <3> QED
      BY <3>3 DEF LaidOut
  <2>5. GetPayloadLength(e) = Len(p.payload) /\ GetId(e) = p.id
    <3>1. /\ FromLittle(e, 1) = Value(a[1], a[2], a[3], a[4])
          /\ FromLittle(e, 5) = Value(b[1], b[2], b[3], b[4])
      BY <2>4 DEF FromLittle
    <3>2. GetPayloadLength(e) = FromLittle(e, 1) /\ GetId(e) = FromLittle(e, 5)
      BY <1>4 DEF GetPayloadLength, GetId
    <3> QED
      BY <2>1, <3>1, <3>2
  <2>6. /\ e \in Seq(Bytes) /\ Len(e) = kHeaderLength + Len(p.payload)
        /\ GetPayload(e) = p.payload
    BY <2>4 DEF kHeaderLength, GetPayload
  <2> QED
    BY <1>1, <2>5, <2>6 DEF e
<1>5. CASE format = "TLD"
  <2> DEFINE a == BigEndian(p.id)
             b == BigEndian(Len(p.payload))
  <2>1. /\ b \in Seq(Bytes) /\ Len(b) = 4
        /\ Value(b[4], b[3], b[2], b[1]) = Len(p.payload)
        /\ a \in Seq(Bytes) /\ Len(a) = 4 /\ Value(a[4], a[3], a[2], a[1]) = p.id
    BY <1>1, <1>2, FourDigitsReversed
  <2>2. Encode(format, p) = a \o b \o p.payload
    BY <1>3, <1>5 DEF Encode, EncodeTLD
  <2> HIDE DEF a, b
  <2> DEFINE e == Encode(format, p)
  <2>3. e = a \o b \o p.payload
    BY <2>2
  <2> HIDE DEF e
  <2>4. /\ e \in Seq(Bytes) /\ Len(e) = 8 + Len(p.payload)
        /\ SubSeq(e, 9, Len(e)) = p.payload
        /\ e[1] = a[1] /\ e[2] = a[2] /\ e[3] = a[3] /\ e[4] = a[4]
        /\ e[5] = b[1] /\ e[6] = b[2] /\ e[7] = b[3] /\ e[8] = b[4]
    <3>1. /\ a \in Seq(Bytes) /\ b \in Seq(Bytes) /\ p.payload \in Seq(Bytes)
          /\ Len(a) = 4 /\ Len(b) = 4
      BY <1>1, <2>1
    <3> HIDE FormatAssumption
    <3>2. LaidOut(Bytes, a, b, p.payload, a \o b \o p.payload)
      BY <3>1, Layout
    <3>3. LaidOut(Bytes, a, b, p.payload, e)
      BY <2>3, <3>2
    <3> QED
      BY <3>3 DEF LaidOut
  <2>5. GetPayloadLength(e) = Len(p.payload) /\ GetId(e) = p.id
    <3>1. /\ FromBig(e, 1) = Value(a[4], a[3], a[2], a[1])
          /\ FromBig(e, 5) = Value(b[4], b[3], b[2], b[1])
      BY <2>4 DEF FromBig
    <3>2. GetPayloadLength(e) = FromBig(e, 5) /\ GetId(e) = FromBig(e, 1)
      BY <1>5 DEF GetPayloadLength, GetId
    <3> QED
      BY <2>1, <3>1, <3>2
  <2>6. /\ e \in Seq(Bytes) /\ Len(e) = kHeaderLength + Len(p.payload)
        /\ GetPayload(e) = p.payload
    BY <2>4 DEF kHeaderLength, GetPayload
  <2> QED
    BY <1>1, <2>5, <2>6 DEF e
<1> QED
  BY <1>4, <1>5

\* The length field is read off the first eight bytes.
LEMMA LengthInHeader ==
  ASSUME NEW b, NEW e, \A i \in 1 .. kHeaderLength : b[i] = e[i]
  PROVE  GetPayloadLength(b) = GetPayloadLength(e)
<1>1. /\ b[1] = e[1] /\ b[2] = e[2] /\ b[3] = e[3] /\ b[4] = e[4]
      /\ b[5] = e[5] /\ b[6] = e[6] /\ b[7] = e[7] /\ b[8] = e[8]
  BY DEF kHeaderLength
<1> QED
  BY <1>1 DEF GetPayloadLength, FromLittle, FromBig

-----------------------------------------------------------------------------
(***************************************************************************)
(* The stream.                                                             *)
(***************************************************************************)

\* The counters and the offsets are natural numbers, and grow.
LEMMA Offsets ==
  ASSUME TypeOK, Consecutive, RoutedSent
  PROVE  /\ routed \in Nat /\ Len(sent) \in Nat /\ routed <= Len(sent)
         /\ Offset(routed + 1) = 0
         /\ Offset(Len(sent) + 1) \in Nat
         /\ \A i \in routed + 1 .. Len(sent) :
              /\ sent[i] \in Packets
              /\ Offset(i) \in Nat /\ Offset(i + 1) \in Nat
              /\ Offset(i + 1) = Offset(i) + Len(Encode(format, sent[i]))
              /\ Len(Encode(format, sent[i])) \in Nat
              /\ Len(Encode(format, sent[i])) >= kHeaderLength
              /\ Offset(i + 1) <= Offset(Len(sent) + 1)
<1>1. routed \in Nat /\ Len(sent) \in Nat /\ routed <= Len(sent)
  BY DEF TypeOK, routed, RoutedSent
<1>2. Len(start) = Len(sent) + 1 /\ \A i \in 1 .. Len(sent) + 1 : start[i] \in Nat
  BY DEF TypeOK, Consecutive
<1>3. \A i \in 1 .. Len(sent) + 1 : \A j \in i .. Len(sent) + 1 : start[i] <= start[j]
  BY <1>2 DEF Consecutive
<1>4. Offset(routed + 1) = 0
  BY <1>1, <1>2 DEF Offset
<1>5. ASSUME NEW i \in routed + 1 .. Len(sent) + 1
      PROVE  Offset(i) \in Nat
  <2>1. routed + 1 \in 1 .. Len(sent) + 1 /\ i \in routed + 1 .. Len(sent) + 1
    BY <1>1
  <2>2. start[routed + 1] \in Nat /\ start[i] \in Nat /\ start[routed + 1] <= start[i]
    BY <1>1, <1>2, <1>3, <2>1
  <2> QED
    BY <2>2 DEF Offset
<1>6. ASSUME NEW i \in routed + 1 .. Len(sent)
      PROVE  /\ sent[i] \in Packets
             /\ Offset(i) \in Nat /\ Offset(i + 1) \in Nat
             /\ Offset(i + 1) = Offset(i) + Len(Encode(format, sent[i]))
             /\ Len(Encode(format, sent[i])) \in Nat
             /\ Len(Encode(format, sent[i])) >= kHeaderLength
             /\ Offset(i + 1) <= Offset(Len(sent) + 1)
  <2>1. /\ i \in 1 .. Len(sent) /\ i + 1 \in 1 .. Len(sent) + 1
        /\ routed + 1 \in 1 .. Len(sent) + 1
    BY <1>1
  <2>2. sent[i] \in Packets
    BY <2>1 DEF TypeOK
  <2>3. Len(Encode(format, sent[i])) \in Nat /\ Len(Encode(format, sent[i])) >= kHeaderLength
    <3>1. Len(Encode(format, sent[i])) = kHeaderLength + Len(sent[i].payload)
      BY <2>2, RoundTrip DEF TypeOK
    <3>2. Len(sent[i].payload) \in Nat
      BY <2>2, PayloadAssumption DEF Packets
    <3> QED
      BY <3>1, <3>2 DEF kHeaderLength
  <2>4. start[i + 1] = start[i] + Len(Encode(format, sent[i]))
    BY <2>1 DEF Consecutive
  <2>5. start[i + 1] <= start[Len(sent) + 1]
    BY <1>1, <1>3, <2>1
  <2>6. /\ start[i] \in Nat /\ start[i + 1] \in Nat /\ start[Len(sent) + 1] \in Nat
        /\ start[routed + 1] \in Nat
    BY <1>1, <1>2, <2>1
  <2>7. Offset(i + 1) = Offset(i) + Len(Encode(format, sent[i]))
    BY <2>3, <2>4, <2>6 DEF Offset
  <2>8. Offset(i + 1) <= Offset(Len(sent) + 1)
    BY <2>5, <2>6 DEF Offset
  <2>9. Offset(i) \in Nat /\ Offset(i + 1) \in Nat
    BY <1>1, <1>5, <2>1
  <2> QED
    BY <2>2, <2>3, <2>7, <2>8, <2>9
<1>7. Offset(Len(sent) + 1) \in Nat
  BY <1>1, <1>5
<1> QED
  BY <1>1, <1>4, <1>6, <1>7

\* The bytes a connection holds, those in the buffer first.
LEMMA Stream ==
  ASSUME TypeOK
  PROVE  /\ buf \o wire \in Seq(Bytes)
         /\ Len(buf) \in Nat /\ Len(wire) \in Nat
         /\ Len(buf \o wire) = Len(buf) + Len(wire)
         /\ \A i \in 1 .. Len(buf) : (buf \o wire)[i] = buf[i] /\ buf[i] \in Bytes
         /\ \A i \in 1 .. Len(wire) : (buf \o wire)[Len(buf) + i] = wire[i]
<1>1. buf \in Seq(Bytes) /\ wire \in Seq(Bytes)
  BY DEF TypeOK
<1> HIDE FormatAssumption
<1> QED
  BY <1>1, ConcatProperties

\* What the buffer holds begins with the next packet to be routed.
LEMMA NextPacket ==
  ASSUME TypeOK, Consecutive, RoutedSent, InStep, up, buf # <<>>
  PROVE  /\ routed < Len(sent)
         /\ sent[routed + 1] \in Packets
         /\ Len(Encode(format, sent[routed + 1])) <= Len(buf \o wire)
         /\ \A j \in 1 .. Len(Encode(format, sent[routed + 1])) :
              (buf \o wire)[j] = Encode(format, sent[routed + 1])[j]
<1>1. /\ Len(buf) \in Nat \ {0} /\ Len(wire) \in Nat
      /\ Len(buf \o wire) = Len(buf) + Len(wire)
  BY Stream, EmptySeq DEF TypeOK
<1>2. Offset(Len(sent) + 1) = Len(buf \o wire)
  BY DEF InStep
<1>3. routed \in Nat /\ Len(sent) \in Nat /\ routed <= Len(sent) /\ Offset(routed + 1) = 0
  BY Offsets
<1>4. routed < Len(sent)
  BY <1>1, <1>2, <1>3
<1> DEFINE k == routed + 1
           e == Encode(format, sent[k])
           t == buf \o wire
<1>5. k \in routed + 1 .. Len(sent)
  BY <1>3, <1>4
<1>6. /\ sent[k] \in Packets /\ Offset(k + 1) = Offset(k) + Len(e)
      /\ Len(e) \in Nat /\ Len(e) >= kHeaderLength
      /\ Offset(k + 1) <= Offset(Len(sent) + 1)
  BY <1>5, Offsets
<1>7. SubSeq(t, Offset(k) + 1, Offset(k + 1)) = e
  BY <1>5 DEF InStep
<1>8. Offset(k) = 0 /\ t \in Seq(Bytes) /\ Len(t) \in Nat /\ Len(t) = Offset(Len(sent) + 1)
  BY <1>1, <1>2, <1>3, Stream
<1> HIDE DEF e, k, t
<1>9. Offset(k) + 1 = 1 /\ Offset(k + 1) = Len(e) /\ Len(e) <= Len(t)
  BY <1>6, <1>8
<1>10. SubSeq(t, 1, Len(e)) = e
  BY <1>7, <1>9
<1>11. \A j \in 1 .. Len(e) : t[j] = e[j]
  <2>1. \A j \in 1 .. Len(e) : t[j] \in Bytes
    BY <1>6, <1>8, <1>9, ElementOfSeq
  <2>2. 1 \in Int /\ Len(e) \in Int
    BY <1>6
  <2>3. \A j \in 1 .. Len(e) - 1 + 1 : SubSeq(t, 1, Len(e))[j] = t[1 + j - 1]
    BY <2>1, <2>2, SubSeqProperties
  <2> QED
    BY <1>6, <1>10, <2>3
<1> QED
  BY <1>4, <1>6, <1>9, <1>11 DEF e, k, t

\* A buffer that holds a header gives away the length of the packet, and when it
\* holds that many bytes they are the packet.
LEMMA Decodes ==
  ASSUME TypeOK, Consecutive, RoutedSent, InStep, up, Len(buf) >= kHeaderLength
  PROVE  /\ PacketLength(buf) = Len(Encode(format, sent[routed + 1]))
         /\ Complete(buf) => SubSeq(buf, 1, PacketLength(buf)) = Encode(format, sent[routed + 1])
<1> DEFINE p == sent[routed + 1]
           e == Encode(format, p)
<1>0. /\ Len(buf) \in Nat
      /\ \A i \in 1 .. Len(buf) : (buf \o wire)[i] = buf[i] /\ buf[i] \in Bytes
  BY Stream
<1>1. buf # <<>>
  BY <1>0 DEF kHeaderLength
<1>2. p \in Packets /\ \A j \in 1 .. Len(e) : (buf \o wire)[j] = e[j]
  BY <1>1, NextPacket
<1>3. /\ e \in Seq(Bytes) /\ Len(e) = kHeaderLength + Len(p.payload)
      /\ kHeaderLength + Len(p.payload) \in UInt32
      /\ GetPayloadLength(e) = Len(p.payload)
  BY <1>2, RoundTrip DEF TypeOK
<1>4. Len(p.payload) \in Nat
  BY <1>2, PayloadAssumption DEF Packets
<1> HIDE DEF p, e
<1>5. \A i \in 1 .. kHeaderLength : buf[i] = e[i]
  <2>1. kHeaderLength \in Nat /\ kHeaderLength <= Len(e)
    BY <1>3, <1>4 DEF kHeaderLength
  <2> QED
    BY <1>0, <1>2, <2>1
<1>6. GetPayloadLength(buf) = Len(p.payload)
  BY <1>3, <1>5, LengthInHeader
<1>7. PacketLength(buf) = Len(e)
  BY <1>3, <1>6, Fits DEF PacketLength
<1>8. ASSUME Complete(buf)
      PROVE  SubSeq(buf, 1, Len(e)) = e
  <2>1. Len(e) \in Nat /\ Len(e) <= Len(buf)
    BY <1>3, <1>7, <1>8 DEF Complete
  <2>2. 1 \in Int /\ Len(e) \in Int /\ \A i \in 1 .. Len(e) : buf[i] \in Bytes
    BY <1>0, <2>1
  <2> DEFINE s == SubSeq(buf, 1, Len(e))
  <2>3. /\ s \in Seq(Bytes) /\ Len(s) = IF 1 <= Len(e) THEN Len(e) - 1 + 1 ELSE 0
        /\ \A i \in 1 .. Len(e) - 1 + 1 : s[i] = buf[1 + i - 1]
    BY <2>2, SubSeqProperties
  <2> HIDE DEF s
  <2>4. Len(s) = Len(e) /\ \A i \in 1 .. Len(e) : s[i] = e[i]
    <3>1. \A i \in 1 .. Len(e) : i \in 1 .. Len(buf) /\ s[i] = buf[i]
      BY <1>0, <2>1, <2>3
    <3> QED
      BY <1>0, <1>2, <2>1, <2>3, <3>1
  <2> QED
    BY <1>3, <2>3, <2>4, SeqEqual DEF s
<1> QED
  BY <1>7, <1>8 DEF p, e

-----------------------------------------------------------------------------
(***************************************************************************)
(* Steps.                                                                  *)
(***************************************************************************)

\* A step that neither sends nor routes, and only moves bytes within the
\* connection, keeps the stream in step.
LEMMA StreamKept ==
  ASSUME FramingInv, UNCHANGED <<format, sent, start, handled, unhandled, up>>,
         buf' \o wire' = buf \o wire
  PROVE  Consecutive' /\ RoutedSent' /\ InStep'
<1>1. routed' = routed
  BY DEF routed
<1>2. Consecutive' /\ RoutedSent'
  BY <1>1 DEF FramingInv, Consecutive, RoutedSent
<1>3. ASSUME NEW i
      PROVE  Offset(i)' = Offset(i)
  BY <1>1 DEF Offset
<1>4. InStep'
  BY <1>1, <1>3 DEF FramingInv, InStep
<1> QED
  BY <1>2, <1>4

\* The peer sends a packet: its bytes come last.
LEMMA SendKeeps ==
  ASSUME TypeOK, FramingInv, NEW p \in Packets, Send(p)
  PROVE  TypeOK' /\ FramingInv'
<1> DEFINE e == Encode(format, p)
           t == buf \o wire
<1>0. PICK n \in Nat : n = Len(sent)
  BY DEF TypeOK
<1>1. /\ e \in Seq(Bytes) /\ Len(e) \in Nat /\ Len(e) >= kHeaderLength
  <2>1. e \in Seq(Bytes) /\ Len(e) = kHeaderLength + Len(p.payload)
    BY RoundTrip DEF TypeOK
  <2>2. Len(p.payload) \in Nat
    BY PayloadAssumption DEF Packets
  <2> QED
    BY <2>1, <2>2 DEF kHeaderLength
<1>2. /\ wire' = wire \o e /\ sent' = Append(sent, p)
      /\ start' = Append(start, start[Len(start)] + Len(e))
      /\ up /\ Len(sent) < MaxPackets
      /\ UNCHANGED <<format, buf, pc, up, handled, unhandled>>
  BY DEF Send
<1> HIDE DEF e
<1>3. routed' = routed /\ Consecutive /\ RoutedSent /\ InStep /\ DownAtRest /\ LessThanAPacket
  BY <1>2 DEF routed, FramingInv
<1>4. /\ n \in Nat /\ sent' \in Seq(Packets) /\ Len(sent') = n + 1
      /\ \A i \in 1 .. n : sent'[i] = sent[i]
      /\ sent'[n + 1] = p
  BY <1>0, <1>2, AppendProperties DEF TypeOK
<1>5. Len(start) = n + 1 /\ \A i \in 1 .. n + 1 : start[i] \in Nat
  BY <1>0, <1>3 DEF Consecutive, TypeOK
<1>6. /\ start' \in Seq(Nat) /\ Len(start') = n + 2
      /\ \A i \in 1 .. n + 1 : start'[i] = start[i]
      /\ start'[n + 2] = start[n + 1] + Len(e)
  <2>1. start \in Seq(Nat) /\ start[n + 1] + Len(e) \in Nat
    BY <1>1, <1>4, <1>5, SMTT(30) DEF TypeOK
  <2>2. start' = Append(start, start[n + 1] + Len(e))
    BY <1>2, <1>5
  <2>3. /\ start' \in Seq(Nat) /\ Len(start') = Len(start) + 1
        /\ \A i \in 1 .. Len(start) : start'[i] = start[i]
        /\ start'[Len(start) + 1] = start[n + 1] + Len(e)
    BY <2>1, <2>2, AppendProperties
  <2> QED
    BY <1>4, <1>5, <2>3
<1>7. t \in Seq(Bytes) /\ buf' \o wire' = t \o e /\ wire' \in Seq(Bytes)
  <2>1. buf \in Seq(Bytes) /\ wire \in Seq(Bytes)
    BY DEF TypeOK
  <2>2. buf' = buf /\ wire' = wire \o e
    BY <1>2
  <2>3. e \in Seq(Bytes)
    BY <1>1
  <2> HIDE FormatAssumption
  <2>4. t \in Seq(Bytes) /\ wire \o e \in Seq(Bytes)
    BY <2>1, <2>3, ConcatProperties
  <2>5. Associates(buf, wire, e)
    BY <2>1, <2>3, Regroup, Zenon
  <2>6. (buf \o wire) \o e = buf \o (wire \o e)
    BY <2>5 DEF Associates
  <2> QED
    BY <2>2, <2>4, <2>6
<1>8. Len(t) \in Nat /\ Len(t \o e) = Len(t) + Len(e) /\ Len(t) = Offset(n + 1)
  BY <1>0, <1>1, <1>2, <1>3, <1>7, ConcatProperties DEF InStep
<1> HIDE DEF t
<1>9. TypeOK'
  BY <1>0, <1>2, <1>4, <1>6, <1>7 DEF TypeOK
<1>10. Consecutive'
  <2>1. \A i \in 1 .. n + 1 : start'[i + 1] = start'[i] + Len(Encode(format, sent'[i]))
    <3> SUFFICES ASSUME NEW i \in 1 .. n + 1
                 PROVE  start'[i + 1] = start'[i] + Len(Encode(format, sent'[i]))
      OBVIOUS
    <3>1. CASE i = n + 1
      BY <1>0, <1>4, <1>6, <3>1 DEF e
    <3>2. CASE i \in 1 .. n
      <4>1. sent'[i] = sent[i] /\ start'[i] = start[i] /\ start'[i + 1] = start[i + 1]
        BY <1>4, <1>6, <3>2
      <4>2. start[i + 1] = start[i] + Len(Encode(format, sent[i]))
        BY <1>0, <1>3, <3>2 DEF Consecutive
      <4> QED
        BY <4>1, <4>2
    <3> QED
      BY <1>0, <1>4, <3>1, <3>2
  <2>2. \A i \in 1 .. n + 2 : \A j \in i .. n + 2 : start'[i] <= start'[j]
    <3> SUFFICES ASSUME NEW i \in 1 .. n + 2, NEW j \in i .. n + 2
                 PROVE  start'[i] <= start'[j]
      OBVIOUS
    <3>1. CASE j \in 1 .. n + 1
      <4>1. i \in 1 .. n + 1
        BY <1>0, <1>4, <3>1
      <4>2. start[i] <= start[j]
        BY <1>0, <1>3, <1>5, <3>1, <4>1 DEF Consecutive
      <4> QED
        BY <1>0, <1>6, <3>1, <4>1, <4>2
    <3>2. CASE i \in 1 .. n + 1 /\ j = n + 2
      <4>1. start[i] <= start[n + 1]
        BY <1>0, <1>3, <1>4, <1>5, <3>2 DEF Consecutive
      <4>2. start[i] \in Nat /\ start[n + 1] \in Nat
        BY <1>0, <1>4, <1>5, <3>2
      <4> QED
        BY <1>0, <1>1, <1>6, <3>2, <4>1, <4>2
    <3>3. CASE i = n + 2 /\ j = n + 2
      <4>1. start'[n + 2] \in Nat
        BY <1>0, <1>4, <1>6, ElementOfSeq
      <4> QED
        BY <3>3, <4>1
    <3> QED
      BY <1>0, <1>4, <3>1, <3>2, <3>3
  <2>3. Len(start') = Len(sent') + 1 /\ Len(sent') = n + 1 /\ Len(start') = n + 2
    BY <1>4, <1>6
  <2>4. format' = format
    BY <1>2
  <2> QED
    BY <2>1, <2>2, <2>3, <2>4 DEF Consecutive
<1>11. RoutedSent' /\ DownAtRest'
  BY <1>0, <1>2, <1>3, <1>4, SMTT(30) DEF RoutedSent, DownAtRest, routed, TypeOK
<1>12. routed \in Nat /\ routed <= n
  BY <1>0, <1>3, Offsets
<1>13. InStep'
  <2>0. start'[routed' + 1] = start[routed + 1] /\ start[routed + 1] \in Nat
    BY <1>3, <1>5, <1>6, <1>12
  <2>1. \A i \in routed + 1 .. n + 1 : Offset(i)' = Offset(i)
    <3>1. \A i \in routed + 1 .. n + 1 : start'[i] = start[i]
      BY <1>6, <1>12
    <3> QED
      BY <2>0, <3>1 DEF Offset
  <2>2. Offset(n + 2)' = Offset(n + 1) + Len(e)
    <3>1. start'[n + 2] = start[n + 1] + Len(e) /\ start[n + 1] \in Nat
      BY <1>5, <1>6
    <3>2. Offset(n + 2)' = start'[n + 2] - start[routed + 1]
      BY <2>0 DEF Offset
    <3>3. Offset(n + 1) = start[n + 1] - start[routed + 1]
      BY DEF Offset
    <3> QED
      BY <1>1, <2>0, <3>1, <3>2, <3>3
  <2>3. ASSUME NEW i \in routed + 1 .. n
        PROVE  SubSeq(t \o e, Offset(i)' + 1, Offset(i + 1)') = Encode(format, sent'[i])
    <3>1. /\ Offset(i) \in Nat /\ Offset(i + 1) \in Nat /\ Offset(i + 1) <= Len(t)
          /\ Offset(i + 1) = Offset(i) + Len(Encode(format, sent[i]))
          /\ Len(Encode(format, sent[i])) \in Nat
          /\ Len(Encode(format, sent[i])) >= kHeaderLength
      BY <1>0, <1>3, <1>8, Offsets
    <3>2. Offset(i) + 1 \in 1 .. Len(t) /\ Offset(i + 1) \in 1 .. Len(t)
      BY <1>0, <1>8, <3>1, SMTT(30) DEF kHeaderLength
    <3>3. SubSeq(t \o e, Offset(i) + 1, Offset(i + 1)) = SubSeq(t, Offset(i) + 1, Offset(i + 1))
      BY <1>0, <1>1, <1>7, <3>2, SubSeqOfConcat1
    <3>4. SubSeq(t, Offset(i) + 1, Offset(i + 1)) = Encode(format, sent[i])
      BY <1>0, <1>2, <1>3 DEF InStep, t
    <3>5. Offset(i)' = Offset(i) /\ Offset(i + 1)' = Offset(i + 1) /\ sent'[i] = sent[i]
      BY <1>0, <1>4, <1>12, <2>1
    <3> QED
      BY <3>3, <3>4, <3>5
  <2>4. SubSeq(t \o e, Offset(n + 1)' + 1, Offset(n + 2)') = Encode(format, sent'[n + 1])
    <3>1. Offset(n + 1)' = Len(t) /\ Offset(n + 2)' = Len(t) + Len(e)
      BY <1>0, <1>4, <1>8, <1>12, <2>1, <2>2
    <3>2. /\ Len(t) + 1 \in Len(t) + 1 .. Len(t) + Len(e)
          /\ Len(t) + Len(e) \in Len(t) + 1 .. Len(t) + Len(e)
      BY <1>0, <1>1, <1>8 DEF kHeaderLength
    <3>3. SubSeq(t \o e, Len(t) + 1, Len(t) + Len(e))
            = SubSeq(e, Len(t) + 1 - Len(t), Len(t) + Len(e) - Len(t))
      BY <1>0, <1>1, <1>7, <3>2, SubSeqOfConcat2
    <3>4. Len(t) + 1 - Len(t) = 1 /\ Len(t) + Len(e) - Len(t) = Len(e)
      BY <1>0, <1>1, <1>8
    <3>5. SubSeq(e, 1, Len(e)) = e
      BY <1>0, <1>1, SubSeqFull
    <3>6. Encode(format, sent'[n + 1]) = e
      BY <1>0, <1>4 DEF e
    <3> QED
      BY <3>1, <3>3, <3>4, <3>5, <3>6
  <2>5. Len(buf' \o wire') = Offset(n + 2)'
    BY <1>0, <1>7, <1>8, <2>2
  <2>6. ASSUME NEW i \in routed' + 1 .. Len(sent')
        PROVE  SubSeq(buf' \o wire', Offset(i)' + 1, Offset(i + 1)') = Encode(format, sent'[i])
    <3>1. CASE i = n + 1
      <4>1. i + 1 = n + 2
        BY <1>0, <1>4, <3>1
      <4> QED
        BY <1>0, <1>7, <2>4, <3>1, <4>1
    <3>2. CASE i \in routed + 1 .. n
      BY <1>0, <1>7, <2>3, <3>2
    <3>3. i = n + 1 \/ i \in routed + 1 .. n
      BY <1>3, <1>4, <1>12
    <3> QED
      BY <3>1, <3>2, <3>3
  <2>7. Len(sent') + 1 = n + 2
    BY <1>0, <1>4
  <2> QED
    BY <1>0, <1>2, <2>5, <2>6, <2>7 DEF InStep
<1>14. LessThanAPacket'
  <2>1. CASE routed < n
    <3>1. sent'[routed + 1] = sent[routed + 1]
      BY <1>0, <1>4, <1>12, <2>1
    <3> QED
      BY <1>0, <1>2, <1>3, <2>1, <3>1 DEF LessThanAPacket
  <2>2. CASE routed = n
    <3>1. Len(t) = 0
      BY <1>0, <1>3, <1>8, <2>2, Offsets
    <3>2. Len(buf) = 0
      BY <3>1, Stream DEF t
    <3>3. Encode(format, sent'[routed + 1]) = e
      BY <1>0, <1>4, <2>2 DEF e
    <3> QED
      BY <1>0, <1>1, <1>2, <1>3, <3>2, <3>3 DEF LessThanAPacket, kHeaderLength
  <2> QED
    BY <1>0, <1>4, <1>12, <2>1, <2>2
<1> QED
  BY <1>0, <1>9, <1>10, <1>11, <1>13, <1>14 DEF FramingInv

\* A read event moves bytes from the wire to the end of the buffer.
LEMMA ReadKeeps ==
  ASSUME TypeOK, FramingInv, NEW n \in 1 .. Len(wire), Read(n)
  PROVE  TypeOK' /\ FramingInv'
<1>1. /\ buf' = buf \o SubSeq(wire, 1, n) /\ wire' = SubSeq(wire, n + 1, Len(wire))
      /\ up /\ pc' = "decode"
      /\ UNCHANGED <<format, up, handled, unhandled, sent, start>>
  BY DEF Read
<1>2. buf' \o wire' = buf \o wire /\ buf' \in Seq(Bytes) /\ wire' \in Seq(Bytes)
  <2>1. buf \in Seq(Bytes) /\ wire \in Seq(Bytes)
    BY DEF TypeOK
  <2> HIDE FormatAssumption
  <2> QED
    BY <1>1, <2>1, MovePrefix, ZenonT(30)
<1>3. TypeOK'
  BY <1>1, <1>2 DEF TypeOK
<1>4. Consecutive' /\ RoutedSent' /\ InStep'
  BY <1>1, <1>2, StreamKept
<1>5. DownAtRest' /\ LessThanAPacket'
  BY <1>1 DEF DownAtRest, LessThanAPacket
<1> QED
  BY <1>3, <1>4, <1>5 DEF FramingInv

\* Decode finds no packet: then the buffer holds less than the next one.
LEMMA WaitKeeps ==
  ASSUME TypeOK, FramingInv, WaitForMore
  PROVE  TypeOK' /\ FramingInv'
<1>1. /\ ~Complete(buf) /\ pc = "decode" /\ pc' = "poll"
      /\ UNCHANGED <<format, wire, buf, up, handled, unhandled, sent, start>>
  BY DEF WaitForMore
<1>2. TypeOK'
  BY <1>1 DEF TypeOK
<1>3. Consecutive' /\ RoutedSent' /\ InStep' /\ up
  BY <1>1, StreamKept DEF FramingInv, DownAtRest
<1>4. routed < Len(sent) => Len(buf) < Len(Encode(format, sent[routed + 1]))
  <2> SUFFICES ASSUME routed < Len(sent)
               PROVE  Len(buf) < Len(Encode(format, sent[routed + 1]))
    OBVIOUS
  <2>1. Len(buf) \in Nat
    BY DEF TypeOK
  <2>2. /\ Len(Encode(format, sent[routed + 1])) \in Nat
        /\ Len(Encode(format, sent[routed + 1])) >= kHeaderLength
    <3>1. routed + 1 \in routed + 1 .. Len(sent)
      BY Offsets DEF FramingInv
    <3> QED
      BY <3>1, Offsets DEF FramingInv
  <2>3. CASE Len(buf) >= kHeaderLength
    <3>1. PacketLength(buf) = Len(Encode(format, sent[routed + 1]))
      BY <1>3, <2>3, Decodes DEF FramingInv
    <3> QED
      BY <1>1, <2>1, <2>2, <2>3, <3>1 DEF Complete
  <2>4. CASE ~(Len(buf) >= kHeaderLength)
    BY <2>1, <2>2, <2>4 DEF kHeaderLength
  <2> QED
    BY <2>3, <2>4
<1>5. LessThanAPacket'
  BY <1>1, <1>4 DEF LessThanAPacket, routed
<1>6. DownAtRest'
  BY <1>1 DEF DownAtRest
<1> QED
  BY <1>2, <1>3, <1>5, <1>6 DEF FramingInv

\* The connection goes down.
LEMMA CloseKeeps ==
  ASSUME TypeOK, FramingInv, Close
  PROVE  TypeOK' /\ FramingInv'
<1>1. /\ up' = FALSE /\ wire' = <<>> /\ buf' = <<>> /\ pc = "poll"
      /\ UNCHANGED <<format, pc, handled, unhandled, sent, start>>
  BY DEF Close
<1>2. TypeOK'
  BY <1>1, EmptySeq DEF TypeOK
<1>3. Consecutive' /\ RoutedSent'
  BY <1>1 DEF FramingInv, Consecutive, RoutedSent, routed
<1>4. DownAtRest' /\ InStep' /\ LessThanAPacket'
  BY <1>1 DEF DownAtRest, InStep, LessThanAPacket
<1> QED
  BY <1>2, <1>3, <1>4 DEF FramingInv

\* What HandleOnMessage routes is the next packet that was sent, and exactly its
\* bytes leave the buffer.
LEMMA HandlesNext ==
  ASSUME TypeOK, FramingInv, HandlePacket
  PROVE  /\ up /\ routed < Len(sent) /\ sent[routed + 1] \in Packets
         /\ RouteAndHandle(sent[routed + 1])
         /\ Len(Encode(format, sent[routed + 1])) \in 1 .. Len(buf)
         /\ buf' = SubSeq(buf, Len(Encode(format, sent[routed + 1])) + 1, Len(buf))
<1>1. Complete(buf) /\ pc = "decode"
  BY DEF HandlePacket
<1>2. up /\ Consecutive /\ RoutedSent /\ InStep
  BY <1>1 DEF FramingInv, DownAtRest
<1>3. Len(buf) \in Nat /\ Len(buf) >= kHeaderLength /\ buf # <<>>
  BY <1>1 DEF Complete, TypeOK, kHeaderLength
<1> DEFINE p == sent[routed + 1]
           e == Encode(format, p)
<1>4. routed < Len(sent) /\ p \in Packets
  BY <1>2, <1>3, NextPacket
<1>5. PacketLength(buf) = Len(e) /\ SubSeq(buf, 1, PacketLength(buf)) = e
  BY <1>1, <1>2, <1>3, Decodes
<1>6. /\ GetId(e) = p.id /\ GetPayload(e) = p.payload
      /\ Len(e) = kHeaderLength + Len(p.payload)
  BY <1>4, RoundTrip DEF TypeOK
<1>7. [id |-> p.id, payload |-> p.payload] = p
  BY <1>4 DEF Packets
<1> HIDE DEF p, e
<1>8. /\ buf' = SubSeq(buf, PacketLength(buf) + 1, Len(buf))
      /\ RouteAndHandle([id |-> GetId(SubSeq(buf, 1, PacketLength(buf))),
                         payload |-> GetPayload(SubSeq(buf, 1, PacketLength(buf)))])
  BY DEF HandlePacket
<1>9. RouteAndHandle(p)
  BY <1>5, <1>6, <1>7, <1>8
<1>10. Len(e) \in 1 .. Len(buf)
  <2>1. Len(p.payload) \in Nat
    BY <1>4, PayloadAssumption DEF Packets
  <2> QED
    BY <1>1, <1>3, <1>5, <1>6, <2>1 DEF Complete, kHeaderLength
<1> QED
  BY <1>2, <1>4, <1>5, <1>8, <1>9, <1>10 DEF p, e

\* One more packet is routed, to its handler or to none.
LEMMA RoutesOne ==
  ASSUME TypeOK, NEW p \in Packets, RouteAndHandle(p)
  PROVE  /\ routed' = routed + 1
         /\ handled' \in Seq(Packets) /\ unhandled' \in Nat
         /\ handled' = IF p.id \in Registered THEN Append(handled, p) ELSE handled
         /\ unhandled' <= routed'
<1>1. handled \in Seq(Packets) /\ Len(handled) \in Nat /\ unhandled \in Nat
  BY DEF TypeOK
<1>2. CASE p.id \in Registered
  <2>1. handled' = Append(handled, p) /\ unhandled' = unhandled
    BY <1>2 DEF RouteAndHandle
  <2>2. handled' \in Seq(Packets) /\ Len(handled') = Len(handled) + 1
    BY <1>1, <2>1, AppendProperties
  <2> QED
    BY <1>1, <1>2, <2>1, <2>2 DEF routed
<1>3. CASE p.id \notin Registered
  <2>1. handled' = handled /\ unhandled' = unhandled + 1
    BY <1>3 DEF RouteAndHandle
  <2> QED
    BY <1>1, <1>3, <2>1 DEF routed
<1> QED
  BY <1>2, <1>3

\* Taking a packet off the buffer leaves the bytes of the following ones.
LEMMA HandleKeeps ==
  ASSUME TypeOK, FramingInv, HandlePacket
  PROVE  TypeOK' /\ FramingInv'
<1> DEFINE p == sent[routed + 1]
           e == Encode(format, p)
           t == buf \o wire
<1>0. PICK r \in Nat : r = routed
  BY DEF TypeOK, routed
<1>1. /\ up /\ routed < Len(sent) /\ p \in Packets /\ RouteAndHandle(p)
      /\ Len(e) \in 1 .. Len(buf)
      /\ buf' = SubSeq(buf, Len(e) + 1, Len(buf))
  BY HandlesNext
<1>2. pc = "decode" /\ UNCHANGED <<format, wire, pc, up, sent, start>>
  BY DEF HandlePacket
<1>3. Consecutive /\ RoutedSent /\ InStep /\ DownAtRest
  BY DEF FramingInv
<1>4. PICK k \in Nat : k = Len(e)
  BY <1>1
<1>5. Offset(r + 2) = k /\ Offset(r + 1) = 0
  <2>1. r + 1 \in routed + 1 .. Len(sent) /\ r + 1 + 1 = r + 2
    BY <1>0, <1>1, <1>3, Offsets
  <2>2. Offset(r + 1 + 1) = Offset(r + 1) + Len(e)
    BY <1>0, <1>3, <2>1, Offsets
  <2>3. Offset(r + 1) = 0
    BY <1>0, <1>3, Offsets
  <2> QED
    BY <1>4, <2>1, <2>2, <2>3
<1>6. /\ routed' = r + 1 /\ handled' \in Seq(Packets) /\ unhandled' \in Nat
      /\ unhandled' <= routed'
  BY <1>0, <1>1, RoutesOne
<1>7. /\ Len(sent) \in Nat /\ r + 1 <= Len(sent) /\ Len(sent) <= MaxPackets
      /\ buf' = SubSeq(buf, k + 1, Len(buf)) /\ k \in 1 .. Len(buf)
  BY <1>0, <1>1, <1>3, <1>4, Offsets DEF RoutedSent
<1> HIDE DEF p, e
<1>8. /\ buf \in Seq(Bytes) /\ wire \in Seq(Bytes) /\ t \in Seq(Bytes)
      /\ Len(buf) \in Nat /\ Len(wire) \in Nat /\ Len(t) = Len(buf) + Len(wire)
  <2>1. buf \in Seq(Bytes) /\ wire \in Seq(Bytes)
    BY DEF TypeOK
  <2> HIDE FormatAssumption
  <2> QED
    BY <2>1, ConcatProperties
<1>9. buf' \in Seq(Bytes) /\ Len(buf') = Len(buf) - k
  <2> HIDE FormatAssumption
  <2> QED
    BY <1>7, <1>8, DropPrefix, ZenonT(30)
<1>10. buf' \o wire' = SubSeq(t, k + 1, Len(t))
  <2>1. wire' = wire
    BY <1>2
  <2> HIDE FormatAssumption
  <2> QED
    BY <1>7, <1>8, <2>1, DropPrefix, ZenonT(30)
<1>11. TypeOK'
  BY <1>2, <1>6, <1>7, <1>9 DEF TypeOK
<1>12. Consecutive' /\ RoutedSent' /\ DownAtRest' /\ LessThanAPacket'
  BY <1>2, <1>3, <1>6, <1>7
  DEF Consecutive, RoutedSent, DownAtRest, LessThanAPacket
<1>13. InStep'
  <2>0. Len(t) \in Nat /\ k <= Len(t) /\ Len(t) = Offset(Len(sent) + 1)
    BY <1>1, <1>3, <1>7, <1>8 DEF InStep
  <2> HIDE DEF t
  <2>1. /\ start[r + 1] \in Nat /\ start[r + 2] \in Nat /\ start[r + 2] - start[r + 1] = k
        /\ \A i \in r + 1 .. Len(sent) + 1 : start[i] \in Nat
    <3>1. Len(start) = Len(sent) + 1 /\ \A i \in 1 .. Len(start) : start[i] \in Nat
      BY <1>3 DEF Consecutive, TypeOK
    <3>2. \A i \in r + 1 .. Len(sent) + 1 : start[i] \in Nat
      BY <1>7, <3>1
    <3>3. start[r + 2] - start[r + 1] = k
      BY <1>0, <1>5 DEF Offset
    <3> QED
      BY <1>7, <3>2, <3>3
  <2>2. ASSUME NEW i \in r + 1 .. Len(sent) + 1
        PROVE  Offset(i)' = Offset(i) - k /\ Offset(i) \in Int
    <3>1. Offset(i)' = start[i] - start[r + 2]
      BY <1>2, <1>6 DEF Offset
    <3>2. Offset(i) = start[i] - start[r + 1]
      BY <1>0 DEF Offset
    <3>3. start[i] \in Nat
      BY <2>1
    <3> QED
      BY <2>1, <3>1, <3>2, <3>3
  <2>3. Len(buf' \o wire') = Len(t) - k
    <3>1. Len(buf' \o wire') = Len(buf') + Len(wire)
      BY <1>2, <1>8, <1>9, ConcatProperties
    <3>2. Len(buf') + Len(wire) = Len(t) - k
      BY <1>8, <1>9
    <3> QED
      BY <3>1, <3>2
  <2>4. PICK n \in Nat : n = Len(sent)
    BY <1>7
  <2>5. Len(buf' \o wire') = Offset(n + 1)' /\ Len(sent') = n
    <3>1. n + 1 \in r + 1 .. Len(sent) + 1 /\ Len(sent') = n
      BY <1>2, <1>7, <2>4
    <3> QED
      BY <2>0, <2>2, <2>3, <2>4, <3>1
  <2>6. ASSUME NEW i \in r + 2 .. n
        PROVE  SubSeq(buf' \o wire', Offset(i)' + 1, Offset(i + 1)') = Encode(format, sent[i])
    <3>1. /\ i \in routed + 1 .. Len(sent) /\ i \in r + 1 .. Len(sent) + 1
          /\ i + 1 \in r + 1 .. Len(sent) + 1
      BY <1>0, <2>4
    <3>2. /\ Offset(i) \in Nat /\ Offset(i + 1) \in Nat
          /\ Offset(i + 1) = Offset(i) + Len(Encode(format, sent[i]))
          /\ Len(Encode(format, sent[i])) \in Nat
          /\ Len(Encode(format, sent[i])) >= kHeaderLength
          /\ Offset(i + 1) <= Len(t)
      BY <1>3, <2>0, <3>1, Offsets
    <3>3. Offset(i) >= k
      <4>1. start[r + 2] <= start[i]
        <5>1. Len(start) = Len(sent) + 1 /\ r + 2 \in 1 .. Len(start) /\ i \in r + 2 .. Len(start)
          BY <1>3, <1>7, <2>4 DEF Consecutive
        <5> QED
          BY <1>3, <5>1 DEF Consecutive
      <4>2. Offset(i) = start[i] - start[r + 1] /\ start[i] \in Nat
        BY <1>0, <2>1, <3>1 DEF Offset
      <4> QED
        BY <2>1, <4>1, <4>2
    <3>4. SubSeq(t, Offset(i) + 1, Offset(i + 1)) = Encode(format, sent[i])
      BY <1>1, <1>3, <3>1 DEF InStep, t
    <3> DEFINE x == Offset(i) - k + 1
               y == Offset(i + 1) - k
    <3>5. Offset(i)' + 1 = x /\ Offset(i + 1)' = y
      BY <2>2, <3>1
    <3>6. /\ k + 1 \in 1 .. Len(t) /\ Len(t) \in 1 .. Len(t)
          /\ x \in 1 .. Len(t) - (k + 1) + 1 /\ y \in 1 .. Len(t) - (k + 1) + 1
          /\ k + 1 + x - 1 = Offset(i) + 1 /\ k + 1 + y - 1 = Offset(i + 1)
      <4> DEFINE a == Offset(i)
                 b == Offset(i + 1)
                 l == Len(t)
      <4>1. a \in Nat /\ b \in Nat /\ l \in Nat /\ a >= k /\ b >= a + 8 /\ b <= l
        BY <2>0, <3>2, <3>3 DEF kHeaderLength
      <4> HIDE DEF a, b, l
      <4>2. /\ k + 1 \in 1 .. l /\ l \in 1 .. l
            /\ a - k + 1 \in 1 .. l - (k + 1) + 1 /\ b - k \in 1 .. l - (k + 1) + 1
            /\ k + 1 + (a - k + 1) - 1 = a + 1 /\ k + 1 + (b - k) - 1 = b
        BY <4>1
      <4> QED
        BY <4>2 DEF a, b, l
    <3> HIDE DEF x, y
    <3>7. SubSeq(SubSeq(t, k + 1, Len(t)), x, y) = SubSeq(t, k + 1 + x - 1, k + 1 + y - 1)
      <4>1. t \in Seq(Bytes)
        BY <1>8
      <4> HIDE FormatAssumption
      <4> QED
        BY <3>6, <4>1, SubSeqOfSubSeq
    <3> QED
      BY <1>10, <3>4, <3>5, <3>6, <3>7
  <2>7. ASSUME NEW i \in routed' + 1 .. Len(sent')
        PROVE  SubSeq(buf' \o wire', Offset(i)' + 1, Offset(i + 1)') = Encode(format, sent'[i])
    <3>1. i \in r + 2 .. n /\ sent'[i] = sent[i]
      BY <1>2, <1>6, <2>4
    <3> QED
      BY <2>6, <3>1
  <2>8. up' /\ format' = format
    BY <1>1, <1>2
  <2> QED
    BY <2>5, <2>7, <2>8 DEF InStep
<1> QED
  BY <1>11, <1>12, <1>13 DEF FramingInv

-----------------------------------------------------------------------------
(***************************************************************************)
(* The theorems.                                                           *)
(***************************************************************************)

\* The invariant holds on a new connection, ...
LEMMA FramingInit == Init => TypeOK /\ FramingInv
<1> SUFFICES ASSUME Init PROVE TypeOK /\ FramingInv
  OBVIOUS
<1>1. /\ wire = <<>> /\ buf = <<>> /\ handled = <<>> /\ sent = <<>> /\ start = <<0>>
      /\ unhandled = 0 /\ up = TRUE /\ pc = "poll" /\ format \in {"TLD", "LTD"}
  BY DEF Init
<1>2. /\ Len(sent) = 0 /\ Len(handled) = 0 /\ Len(buf) = 0 /\ Len(start) = 1
      /\ start[1] = 0 /\ start \in Seq(Nat)
  BY <1>1
<1>3. TypeOK
  BY <1>1, <1>2 DEF TypeOK
<1>4. routed = 0
  BY <1>1, <1>2 DEF routed
<1>5. Consecutive /\ RoutedSent /\ DownAtRest /\ LessThanAPacket
  BY <1>1, <1>2, <1>4 DEF Consecutive, RoutedSent, DownAtRest, LessThanAPacket
<1>6. InStep
  <2>1. Len(buf \o wire) = 0
    BY <1>1, <1>2, <1>3, Stream
  <2> QED
    BY <1>2, <1>4, <2>1 DEF InStep, Offset
<1> QED
  BY <1>3, <1>5, <1>6 DEF FramingInv

\* ... and every step keeps it.
LEMMA FramingStep ==
  ASSUME TypeOK, FramingInv, [Next]_vars
  PROVE  TypeOK' /\ FramingInv'
<1>1. CASE UNCHANGED vars
  <2>1. UNCHANGED <<format, wire, buf, pc, up, handled, unhandled, sent, start>>
    BY <1>1 DEF vars
  <2>2. TypeOK'
    BY <2>1 DEF TypeOK
  <2>3. Consecutive' /\ RoutedSent' /\ InStep'
    BY <2>1, StreamKept
  <2>4. DownAtRest' /\ LessThanAPacket'
    BY <2>1 DEF FramingInv, DownAtRest, LessThanAPacket, routed
  <2> QED
    BY <2>2, <2>3, <2>4 DEF FramingInv
<1> QED
  BY <1>1, SendKeeps, ReadKeeps, HandleKeeps, WaitKeeps, CloseKeeps DEF Next

\* For every size of a byte and every choice of packets that fit their fields,
\* the types are right and the inductive invariant holds.
THEOREM FramingInvariance == Spec => [](TypeOK /\ FramingInv)
<1>1. Init => TypeOK /\ FramingInv
  BY FramingInit
<1>2. TypeOK /\ FramingInv /\ [Next]_vars => TypeOK' /\ FramingInv'
  BY FramingStep
<1> QED
  BY <1>1, <1>2, PTL DEF Spec

\* The variables of a connection hold values of their types: what is decoded is
\* a packet somebody may have sent.
THEOREM TypeCorrect == Spec => []TypeOK
BY FramingInvariance, PTL

\* However TCP cuts the bytes, the decoder never gets out of step with the
\* stream.
THEOREM AlwaysInStep == Spec => []InStep
<1>1. FramingInv => InStep
  BY DEF FramingInv
<1> QED
  BY <1>1, FramingInvariance, PTL

\* The elements of a sequence from place r + 1 on.
LEMMA Rest ==
  ASSUME NEW s \in Seq(Packets), NEW r \in Nat, r <= Len(s)
  PROVE  /\ SubSeq(s, r + 1, Len(s)) \in Seq(Packets)
         /\ Len(SubSeq(s, r + 1, Len(s))) = Len(s) - r
         /\ \A i \in 1 .. Len(s) - r : SubSeq(s, r + 1, Len(s))[i] = s[r + i]
<1>1. r + 1 \in Int /\ Len(s) \in Nat /\ \A i \in r + 1 .. Len(s) : s[i] \in Packets
  OBVIOUS
<1> DEFINE w == SubSeq(s, r + 1, Len(s))
<1>2. /\ w \in Seq(Packets)
      /\ Len(w) = IF r + 1 <= Len(s) THEN Len(s) - (r + 1) + 1 ELSE 0
      /\ \A i \in 1 .. Len(s) - (r + 1) + 1 : w[i] = s[r + 1 + i - 1]
  BY <1>1, SubSeqProperties
<1> HIDE DEF w
<1>3. /\ w \in Seq(Packets) /\ Len(w) = Len(s) - r
      /\ \A i \in 1 .. Len(s) - r : w[i] = s[r + i]
  <2>1. \A i \in 1 .. Len(s) - r : r + 1 + i - 1 = r + i
    BY <1>1
  <2>2. Len(s) - (r + 1) + 1 = Len(s) - r
    BY <1>1
  <2>3. Len(w) = Len(s) - r
    BY <1>1, <1>2
  <2> QED
    BY <1>2, <2>1, <2>2, <2>3
<1> QED
  BY <1>3 DEF w

\* What is still to be routed, before a step ...
LEMMA AwaitedIs ==
  ASSUME TypeOK, FramingInv, up
  PROVE  /\ Awaited \in Seq(Packets)
         /\ Len(Awaited) = Len(sent) - routed
         /\ \A i \in 1 .. Len(sent) - routed : Awaited[i] = sent[routed + i]
         /\ routed \in Nat /\ Len(sent) \in Nat /\ routed <= Len(sent)
<1>1. routed \in Nat /\ Len(sent) \in Nat /\ routed <= Len(sent)
  BY Offsets DEF FramingInv
<1>2. Awaited = SubSeq(sent, routed + 1, Len(sent)) /\ sent \in Seq(Packets)
  BY DEF Awaited, TypeOK
<1> QED
  BY <1>1, <1>2, Rest

\* ... and after it.
LEMMA AwaitedNext ==
  ASSUME up', sent' \in Seq(Packets), routed' \in Nat, routed' <= Len(sent')
  PROVE  /\ Awaited' \in Seq(Packets)
         /\ Len(Awaited') = Len(sent') - routed'
         /\ \A i \in 1 .. Len(sent') - routed' : Awaited'[i] = sent'[routed' + i]
<1>1. Awaited' = SubSeq(sent', routed' + 1, Len(sent'))
  BY DEF Awaited
<1> QED
  BY <1>1, Rest

\* HandleOnMessage never leaves a complete packet in the buffer.
THEOREM NothingEverLeftWaiting == Spec => []NothingLeftWaiting
<1>1. ASSUME TypeOK, FramingInv
      PROVE  NothingLeftWaiting
  <2> SUFFICES ASSUME pc = "poll", Awaited # <<>>
               PROVE  Len(buf) < Len(Encode(format, Awaited[1]))
    BY DEF NothingLeftWaiting
  <2>1. up
    BY DEF Awaited
  <2>2. /\ Awaited \in Seq(Packets) /\ Len(Awaited) = Len(sent) - routed
        /\ \A i \in 1 .. Len(sent) - routed : Awaited[i] = sent[routed + i]
        /\ routed \in Nat /\ Len(sent) \in Nat /\ routed <= Len(sent)
    BY <1>1, <2>1, AwaitedIs
  <2>3. Len(Awaited) \in Nat \ {0}
    BY <2>2, EmptySeq
  <2>4. routed < Len(sent) /\ Awaited[1] = sent[routed + 1]
    BY <2>2, <2>3
  <2> QED
    BY <1>1, <2>1, <2>4 DEF FramingInv, LessThanAPacket
<1> QED
  BY <1>1, FramingInvariance, PTL

-----------------------------------------------------------------------------
(***************************************************************************)
(* The byte stream implements the packet channel.                          *)
(***************************************************************************)

\* Sending a packet appends it to the queue of the channel.
LEMMA SendRefines ==
  ASSUME TypeOK, FramingInv, NEW p \in Packets, Send(p)
  PROVE  Channel!Send(p)
<1>1. /\ up /\ sent' = Append(sent, p) /\ UNCHANGED <<up, handled, unhandled>>
  BY DEF Send
<1>2. up' /\ routed' = routed
  BY <1>1 DEF routed
<1>3. /\ Awaited \in Seq(Packets) /\ Len(Awaited) = Len(sent) - routed
      /\ \A i \in 1 .. Len(sent) - routed : Awaited[i] = sent[routed + i]
      /\ routed \in Nat /\ Len(sent) \in Nat /\ routed <= Len(sent)
  BY <1>1, AwaitedIs
<1>4. /\ sent' \in Seq(Packets) /\ Len(sent') = Len(sent) + 1
      /\ sent'[Len(sent) + 1] = p
      /\ \A i \in 1 .. Len(sent) : sent'[i] = sent[i]
  BY <1>1, AppendProperties DEF TypeOK
<1>5. /\ Awaited' \in Seq(Packets) /\ Len(Awaited') = Len(sent') - routed'
      /\ \A i \in 1 .. Len(sent') - routed' : Awaited'[i] = sent'[routed' + i]
  <2>1. routed' \in Nat /\ routed' <= Len(sent')
    BY <1>2, <1>3, <1>4
  <2> QED
    BY <1>2, <1>4, <2>1, AwaitedNext
<1> DEFINE q == Append(Awaited, p)
<1>6. /\ q \in Seq(Packets) /\ Len(q) = Len(Awaited) + 1
      /\ \A i \in 1 .. Len(Awaited) : q[i] = Awaited[i]
      /\ q[Len(Awaited) + 1] = p
  <2>1. Awaited \in Seq(Packets)
    BY <1>3
  <2> HIDE FormatAssumption
  <2> QED
    BY <2>1, AppendProperties
<1> HIDE DEF q
<1>7. Len(Awaited') = Len(q)
  <2>1. routed' = routed /\ Len(sent') = Len(sent) + 1 /\ Len(Awaited') = Len(sent') - routed'
    BY <1>2, <1>4, <1>5
  <2>2. Len(q) = Len(Awaited) + 1 /\ Len(Awaited) = Len(sent) - routed
    BY <1>3, <1>6
  <2>3. routed \in Nat /\ Len(sent) \in Nat
    BY <1>3
  <2> QED
    BY <2>1, <2>2, <2>3
<1>8. ASSUME NEW i \in 1 .. Len(Awaited')
      PROVE  Awaited'[i] = q[i]
  <2>1. i \in 1 .. Len(sent) - routed + 1 /\ Awaited'[i] = sent'[routed + i]
    BY <1>2, <1>3, <1>5, <1>4
  <2>2. CASE i \in 1 .. Len(sent) - routed
    <3>1. routed + i \in 1 .. Len(sent)
      BY <1>3, <2>2
    <3> QED
      BY <1>3, <1>4, <1>6, <2>1, <2>2, <3>1
  <2>3. CASE i = Len(sent) - routed + 1
    <3>1. routed + i = Len(sent) + 1 /\ i = Len(Awaited) + 1
      BY <1>3, <2>3
    <3> QED
      BY <1>4, <1>6, <2>1, <3>1
  <2> QED
    BY <1>3, <2>1, <2>2, <2>3
<1>9. Awaited' = q
  BY <1>5, <1>6, <1>7, <1>8, SeqEqual
<1> QED
  BY <1>1, <1>9 DEF Channel!Send, q

\* Handling a packet takes the first one off that queue and hands it over.
LEMMA HandleRefines ==
  ASSUME TypeOK, FramingInv, HandlePacket
  PROVE  Channel!Route
<1> DEFINE p == sent[routed + 1]
<1>1. up /\ routed < Len(sent) /\ p \in Packets /\ RouteAndHandle(p)
  BY HandlesNext
<1>2. UNCHANGED <<sent, up>>
  BY DEF HandlePacket
<1>3. /\ routed' = routed + 1
      /\ handled' = IF p.id \in Registered THEN Append(handled, p) ELSE handled
  BY <1>1, RoutesOne
<1>4. /\ Awaited \in Seq(Packets) /\ Len(Awaited) = Len(sent) - routed
      /\ \A i \in 1 .. Len(sent) - routed : Awaited[i] = sent[routed + i]
      /\ routed \in Nat /\ Len(sent) \in Nat /\ routed <= Len(sent)
  BY <1>1, AwaitedIs
<1>5. /\ Awaited' \in Seq(Packets) /\ Len(Awaited') = Len(sent') - routed'
      /\ \A i \in 1 .. Len(sent') - routed' : Awaited'[i] = sent'[routed' + i]
  <2>1. up' /\ sent' \in Seq(Packets) /\ routed' \in Nat /\ routed' <= Len(sent')
    BY <1>1, <1>2, <1>3, <1>4 DEF TypeOK
  <2> QED
    BY <2>1, AwaitedNext
<1>6. Awaited # <<>> /\ Head(Awaited) = p
  <2>1. Len(Awaited) # 0
    BY <1>1, <1>4
  <2>2. Awaited # <<>>
    BY <2>1
  <2>3. Head(Awaited) = Awaited[1]
    BY <1>4, <2>2
  <2> QED
    BY <1>1, <1>4, <2>2, <2>3
<1>7. /\ Tail(Awaited) \in Seq(Packets) /\ Len(Tail(Awaited)) = Len(Awaited) - 1
      /\ \A i \in 1 .. Len(Tail(Awaited)) : Tail(Awaited)[i] = Awaited[i + 1]
  BY <1>4, <1>6, HeadTailProperties
<1>8. Len(Awaited') = Len(Tail(Awaited))
  BY <1>2, <1>3, <1>4, <1>5, <1>7
<1>9. ASSUME NEW i \in 1 .. Len(Awaited')
      PROVE  Awaited'[i] = Tail(Awaited)[i]
  <2>1. /\ i \in 1 .. Len(sent') - routed' /\ i + 1 \in 1 .. Len(sent) - routed
        /\ routed' + i = routed + (i + 1)
    BY <1>2, <1>3, <1>4, <1>5
  <2>2. Awaited'[i] = sent[routed + (i + 1)]
    BY <1>2, <1>5, <2>1
  <2>3. Tail(Awaited)[i] = sent[routed + (i + 1)]
    BY <1>4, <1>7, <1>8, <2>1
  <2> QED
    BY <2>2, <2>3
<1>10. Awaited' = Tail(Awaited)
  BY <1>5, <1>7, <1>8, <1>9, SeqEqual
<1> HIDE DEF p
<1> QED
  BY <1>1, <1>2, <1>3, <1>6, <1>10 DEF Channel!Route

\* Every other step leaves the channel alone, but for the end of the connection.
LEMMA OthersRefine ==
  ASSUME TypeOK, FramingInv,
         (\E n \in 1 .. Len(wire) : Read(n)) \/ WaitForMore \/ Close \/ UNCHANGED vars
  PROVE  Channel!Close \/ UNCHANGED Channel!vars
<1>1. CASE Close
  BY <1>1 DEF Close, Awaited, Channel!Close
<1>2. ASSUME UNCHANGED <<up, sent, handled, unhandled>>
      PROVE  UNCHANGED Channel!vars
  BY <1>2 DEF Awaited, routed, Channel!vars
<1>3. CASE (\E n \in 1 .. Len(wire) : Read(n)) \/ WaitForMore \/ UNCHANGED vars
  BY <1>2, <1>3 DEF Read, WaitForMore, vars
<1> QED
  BY <1>1, <1>3

\* The packets handlers are called with are the packets sent, in the order in
\* which they were sent, each once and unchanged, without those that nobody
\* registered for: the safety part of what the channel promises.
THEOREM ChannelImplemented == Spec => ImplementsChannel
<1>1. Init => Channel!Init
  <2> SUFFICES ASSUME Init PROVE Channel!Init
    OBVIOUS
  <2>1. sent = <<>> /\ handled = <<>> /\ up = TRUE /\ unhandled = 0
    BY DEF Init
  <2>2. routed = 0
    BY <2>1 DEF routed
  <2>3. Awaited = <<>>
    BY <2>1, <2>2 DEF Awaited
  <2> QED
    BY <2>1, <2>3 DEF Channel!Init
<1>2. ASSUME TypeOK, FramingInv, [Next]_vars
      PROVE  [Channel!Next]_Channel!vars
  <2>1. ASSUME NEW p \in Packets, Send(p)
        PROVE  Channel!Next
    BY <1>2, <2>1, SendRefines DEF Channel!Next
  <2>2. CASE HandlePacket
    BY <1>2, <2>2, HandleRefines DEF Channel!Next
  <2>3. CASE (\E n \in 1 .. Len(wire) : Read(n)) \/ WaitForMore \/ Close \/ UNCHANGED vars
    BY <1>2, <2>3, OthersRefine DEF Channel!Next
  <2> QED
    BY <1>2, <2>1, <2>2, <2>3 DEF Next
<1> QED
  BY <1>1, <1>2, FramingInvariance, PTL DEF Spec, Channel!Spec, ImplementsChannel
=============================================================================
