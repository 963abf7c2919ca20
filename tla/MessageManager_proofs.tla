----------------------- MODULE MessageManager_proofs -----------------------
(***************************************************************************)
(* What the wire format, the cut into datagrams and one builder guarantee, *)
(* for every radix, message and payload size.                              *)
(***************************************************************************)
EXTENDS MessageManager, SequenceTheorems, TLAPS

LEMMA DivMod ==
  ASSUME NEW R \in Nat, R > 1, NEW n \in Nat
  PROVE  /\ n \div R \in Nat
         /\ n % R \in 0 .. R - 1
         /\ n = R * (n \div R) + (n % R)
OBVIOUS

LEMMA DivLess ==
  ASSUME NEW R \in Nat, R > 1, NEW n \in Nat, NEW m \in Nat, n < R * m
  PROVE  n \div R < m
OBVIOUS

\* FieldBytes gives four bytes, and they are the digits of n.
LEMMA FieldRoundTrip ==
  ASSUME NEW n \in UInt32
  PROVE  LET b == FieldBytes(n)
         IN /\ b \in Seq(Byte)
            /\ Len(b) = 4
            /\ n = Radix * (Radix * (Radix * b[4] + b[3]) + b[2]) + b[1]
<1> DEFINE R2 == Radix * Radix
           R3 == Radix * R2
           q1 == n \div Radix
           q2 == q1 \div Radix
           q3 == q2 \div Radix
<1>r. Radix \in Nat /\ Radix > 1
  BY RadixAssumption
<1>1. /\ R2 \in Nat /\ R3 \in Nat
      /\ n \in Nat /\ n < Radix * R3
  <2>1. R2 \in Nat
    BY <1>r
  <2>2. R3 \in Nat
    <3> HIDE DEF R2
    <3>1. QED
      BY <1>r, <2>1
  <2>3. Radix * R3 \in Nat
    <3> HIDE DEF R3
    <3>1. QED
      BY <1>r, <2>2
  <2>4. UInt32 = 0 .. (Radix * R3) - 1
    BY DEF UInt32
  <2> HIDE DEF R3
  <2>5. QED
    BY <2>1, <2>2, <2>3, <2>4
<1>2. /\ q1 \in Nat /\ n % Radix \in 0 .. Radix - 1 /\ n = Radix * q1 + (n % Radix)
      /\ q1 < Radix * R2
  <2> HIDE DEF R3
  <2>1. q1 < R3
    BY <1>r, <1>1, DivLess
  <2>2. QED
    BY <1>r, <1>1, <2>1, DivMod DEF R3
<1> HIDE DEF q1
<1>3. /\ q2 \in Nat /\ q1 % Radix \in 0 .. Radix - 1 /\ q1 = Radix * q2 + (q1 % Radix)
      /\ q2 < Radix * Radix
  <2> HIDE DEF R2
  <2>1. q2 < R2
    BY <1>r, <1>1, <1>2, DivLess
  <2>2. QED
    BY <1>r, <1>2, <2>1, DivMod DEF R2
<1> HIDE DEF q2
<1>4. /\ q3 \in Nat /\ q2 % Radix \in 0 .. Radix - 1 /\ q2 = Radix * q3 + (q2 % Radix)
      /\ q3 < Radix
  <2>1. q3 < Radix
    BY <1>r, <1>3, DivLess
  <2>2. QED
    BY <1>r, <1>3, <2>1, DivMod
<1> HIDE DEF q3
<1>5. q3 % Radix = q3
  BY <1>r, <1>4
<1>6. FieldBytes(n) = <<n % Radix, q1 % Radix, q2 % Radix, q3>>
  BY <1>5 DEF FieldBytes, q1, q2, q3
<1>7. FieldBytes(n) \in Seq(Byte) /\ Len(FieldBytes(n)) = 4
  <2>1. /\ n % Radix \in Byte /\ q1 % Radix \in Byte /\ q2 % Radix \in Byte /\ q3 \in Byte
    BY <1>r, <1>2, <1>3, <1>4 DEF Byte
  <2>2. QED
    BY <1>6, <2>1
<1>8. n = Radix * (Radix * (Radix * q3 + (q2 % Radix)) + (q1 % Radix)) + (n % Radix)
  BY <1>r, <1>2, <1>3, <1>4
<1>9. QED
  BY <1>6, <1>7, <1>8

LEMMA ConcatBytes ==
  ASSUME NEW s \in Seq(Byte), NEW t \in Seq(Byte)
  PROVE  /\ s \o t \in Seq(Byte)
         /\ Len(s \o t) = Len(s) + Len(t)
         /\ \A i \in 1 .. Len(s) : (s \o t)[i] = s[i]
         /\ \A i \in 1 .. Len(t) : (s \o t)[Len(s) + i] = t[i]
<1> Len(s) \in Nat /\ Len(t) \in Nat
  OBVIOUS
<1>1. QED
  BY ConcatProperties

(***************************************************************************)
(* Datagram.decode inverts Datagram.encoded for every datagram that        *)
(* carries at least one byte.                                              *)
(***************************************************************************)
THEOREM RoundTrip ==
  ASSUME NEW d \in Datagrams, d.payload # <<>>
  PROVE  /\ encoded(d) \in Seq(Byte)
         /\ Decodable(encoded(d))
         /\ decode(encoded(d)) = d
<1> DEFINE o == FieldBytes(d.offset)
           l == FieldBytes(d.messageLength)
           e == encoded(d)
<1>1. d.key \in Byte /\ d.payload \in Seq(Byte) /\ Len(d.payload) \in Nat \ {0}
  BY EmptySeq DEF Datagrams
<1>2. /\ o \in Seq(Byte) /\ Len(o) = 4
      /\ d.offset = Radix * (Radix * (Radix * o[4] + o[3]) + o[2]) + o[1]
  <2>1. d.offset \in UInt32
    BY DEF Datagrams
  <2>2. QED
    BY <2>1, FieldRoundTrip
<1>3. /\ l \in Seq(Byte) /\ Len(l) = 4
      /\ d.messageLength = Radix * (Radix * (Radix * l[4] + l[3]) + l[2]) + l[1]
  <2>1. d.messageLength \in UInt32
    BY DEF Datagrams
  <2>2. QED
    BY <2>1, FieldRoundTrip
<1> HIDE DEF o, l
<1>4. e = <<d.key>> \o o \o l \o d.payload
  BY DEF encoded, o, l
<1>5. /\ e \in Seq(Byte)
      /\ Len(e) = 9 + Len(d.payload)
      /\ e[1] = d.key
      /\ e[2] = o[1] /\ e[3] = o[2] /\ e[4] = o[3] /\ e[5] = o[4]
      /\ e[6] = l[1] /\ e[7] = l[2] /\ e[8] = l[3] /\ e[9] = l[4]
      /\ \A i \in 1 .. Len(d.payload) : e[9 + i] = d.payload[i]
  <2> DEFINE e1 == <<d.key>> \o o
             e2 == e1 \o l
  <2>1. e1 \in Seq(Byte) /\ Len(e1) = 5 /\ e1[1] = d.key
        /\ \A i \in 1 .. 4 : e1[1 + i] = o[i]
    <3>1. <<d.key>> \in Seq(Byte) /\ Len(<<d.key>>) = 1 /\ <<d.key>>[1] = d.key
      BY <1>1
    <3> DEFINE k == <<d.key>>
    <3> HIDE DEF k
    <3>2. k \in Seq(Byte) /\ Len(k) = 1 /\ k[1] = d.key
      BY <3>1 DEF k
    <3>3. /\ k \o o \in Seq(Byte) /\ Len(k \o o) = 5 /\ (k \o o)[1] = k[1]
          /\ \A i \in 1 .. 4 : (k \o o)[1 + i] = o[i]
      <4>1. /\ k \o o \in Seq(Byte) /\ Len(k \o o) = Len(k) + Len(o)
            /\ \A i \in 1 .. Len(k) : (k \o o)[i] = k[i]
            /\ \A i \in 1 .. Len(o) : (k \o o)[Len(k) + i] = o[i]
        BY <1>2, <3>2, ConcatBytes
      <4>2. QED
        BY <4>1, <1>2, <3>2
    <3>4. QED
      BY <3>2, <3>3 DEF k
  <2> HIDE DEF e1
  <2>2. e2 \in Seq(Byte) /\ Len(e2) = 9
        /\ (\A i \in 1 .. 5 : e2[i] = e1[i])
        /\ (\A i \in 1 .. 4 : e2[5 + i] = l[i])
    <3>1. /\ e1 \o l \in Seq(Byte) /\ Len(e1 \o l) = Len(e1) + Len(l)
          /\ \A i \in 1 .. Len(e1) : (e1 \o l)[i] = e1[i]
          /\ \A i \in 1 .. Len(l) : (e1 \o l)[Len(e1) + i] = l[i]
      BY <1>3, <2>1, ConcatBytes
    <3>2. QED
      BY <3>1, <1>3, <2>1 DEF e2
  <2> HIDE DEF e2
  <2>3. e = e2 \o d.payload
    BY <1>4 DEF e1, e2
  <2> HIDE DEF e
  <2>4. e \in Seq(Byte) /\ Len(e) = 9 + Len(d.payload)
        /\ (\A i \in 1 .. 9 : e[i] = e2[i])
        /\ (\A i \in 1 .. Len(d.payload) : e[9 + i] = d.payload[i])
    <3>1. /\ e2 \o d.payload \in Seq(Byte) /\ Len(e2 \o d.payload) = Len(e2) + Len(d.payload)
          /\ \A i \in 1 .. Len(e2) : (e2 \o d.payload)[i] = e2[i]
          /\ \A i \in 1 .. Len(d.payload) : (e2 \o d.payload)[Len(e2) + i] = d.payload[i]
      BY <1>1, <2>2, ConcatBytes
    <3>2. QED
      BY <3>1, <1>1, <2>2, <2>3
  <2>5. QED
    BY <2>1, <2>2, <2>4
<1> HIDE DEF e
<1>6. Decodable(e)
  BY <1>1, <1>5 DEF Decodable, ByteCount
<1>7. FieldValue(e, 1) = d.offset /\ FieldValue(e, 5) = d.messageLength
  BY <1>2, <1>3, <1>5 DEF FieldValue
<1>8. SubSeq(e, ByteCount + 1, Len(e)) = d.payload
  <2> DEFINE p == SubSeq(e, 10, Len(e))
  <2>1. p \in Seq(Byte) /\ Len(p) = Len(d.payload)
        /\ \A i \in 1 .. Len(p) : p[i] = e[9 + i]
    <3>1. PICK n \in Nat : n = Len(e) /\ n > 9 /\ n = 9 + Len(d.payload)
      BY <1>1, <1>5
    <3>2. \A i \in 10 .. n : e[i] \in Byte
      BY <1>5, <3>1
    <3> HIDE DEF p
    <3>3. /\ p \in Seq(Byte) /\ Len(p) = n - 10 + 1
          /\ \A i \in 1 .. n - 10 + 1 : p[i] = e[10 + i - 1]
      BY <3>1, <3>2, SubSeqProperties DEF p
    <3>4. \A i \in 1 .. n - 10 + 1 : 10 + i - 1 = 9 + i
      BY <3>1
    <3>5. QED
      BY <1>1, <3>1, <3>3, <3>4
  <2> HIDE DEF p
  <2>2. p = d.payload
    <3>1. \A i \in 1 .. Len(p) : p[i] = d.payload[i]
      BY <1>5, <2>1
    <3>2. QED
      BY <1>1, <2>1, <3>1, SeqEqual
  <2>3. QED
    BY <2>2 DEF p, ByteCount
<1>9. decode(e) = d
  BY <1>5, <1>7, <1>8 DEF decode, Datagrams
<1>10. QED
  BY <1>5, <1>6, <1>9 DEF e

-----------------------------------------------------------------------------
LEMMA EndIndexBounds ==
  ASSUME NEW L \in Nat \ {0}, NEW P \in Nat \ {0}, NEW m, Len(m.data) = L
  PROVE  /\ EndIndex(m, P) \in Nat
         /\ (EndIndex(m, P) - 1) * P < L
         /\ L <= EndIndex(m, P) * P
<1> DEFINE q == L \div P
           r == L % P
<1>1. q \in Nat /\ r \in 0 .. P - 1 /\ L = P * q + r
  OBVIOUS
<1>2. EndIndex(m, P) = IF r = 0 THEN q ELSE 1 + q
  BY DEF EndIndex
<1> HIDE DEF q, r
<1>3. (q - 1) * P = P * q - P /\ (q + 1) * P = P * q + P /\ q * P = P * q
  BY <1>1
<1>4. CASE r = 0
  BY <1>1, <1>2, <1>3, <1>4
<1>5. CASE r # 0
  BY <1>1, <1>2, <1>3, <1>5
<1>6. QED
  BY <1>4, <1>5

LEMMA Monotone ==
  ASSUME NEW P \in Nat \ {0}, NEW i \in Nat, NEW j \in Nat, i < j
  PROVE  i * P + P <= j * P
OBVIOUS

(***************************************************************************)
(* Each datagram of a message carries a nonempty piece of the message's    *)
(* data, at the offset its header names.                                   *)
(***************************************************************************)
LEMMA SubscriptProperties ==
  ASSUME NEW m \in Messages, Len(m.data) \in UInt32 \ {0},
         NEW P \in Nat \ {0},
         NEW index \in 0 .. EndIndex(m, P) - 1
  PROVE  LET d == Subscript(m, P, index)
         IN /\ d \in Datagrams
            /\ d.key = m.key
            /\ d.messageLength = Len(m.data)
            /\ d.offset = index * P
            /\ d.payload # <<>>
            /\ Len(d.payload) \in 1 .. P
            /\ d.offset + Len(d.payload) <= Len(m.data)
            /\ d.offset + Len(d.payload) = Len(m.data) \/ Len(d.payload) = P
            /\ \A i \in 1 .. Len(d.payload) : d.payload[i] = m.data[d.offset + i]
<1> DEFINE L == Len(m.data)
           E == EndIndex(m, P)
           o == index * P
           e == IF o + P < L THEN o + P ELSE L
           p == SubSeq(m.data, o + 1, e)
           d == Subscript(m, P, index)
<1>1. m.key \in Byte /\ m.data \in Seq(Byte) /\ L \in Nat \ {0} /\ L \in UInt32
  BY DEF Messages
<1>2. d = [key |-> m.key, offset |-> o, messageLength |-> L, payload |-> p]
  BY DEF Subscript
<1>3. E \in Nat /\ (E - 1) * P < L
  BY <1>1, EndIndexBounds
<1>4. o \in Nat /\ o < L
  <2> HIDE DEF E
  <2>1. index \in Nat /\ index <= E - 1 /\ E - 1 \in Nat
    BY <1>3 DEF E
  <2>2. index * P \in Nat /\ index * P <= (E - 1) * P
    BY <2>1, <1>3
  <2>3. (E - 1) * P \in Nat
    BY <2>1
  <2>4. QED
    BY <1>1, <1>3, <2>2, <2>3
<1> HIDE DEF L, o, d
<1>5. /\ e \in Nat /\ o < e /\ e <= L /\ e - o <= P /\ (e = L \/ e = o + P)
  BY <1>1, <1>4
<1> HIDE DEF e
<1>6. /\ p \in Seq(Byte) /\ Len(p) = e - o
      /\ \A i \in 1 .. e - o : p[i] = m.data[o + i]
  <2>1. \A i \in o + 1 .. e : m.data[i] \in Byte
    BY <1>1, <1>4, <1>5 DEF L
  <2>2. /\ p \in Seq(Byte)
        /\ Len(p) = IF o + 1 <= e THEN e - (o + 1) + 1 ELSE 0
        /\ \A i \in 1 .. e - (o + 1) + 1 : p[i] = m.data[(o + 1) + i - 1]
    <3> HIDE DEF p
    <3>1. o + 1 \in Int /\ e \in Int
      BY <1>4, <1>5
    <3>2. QED
      BY <2>1, <3>1, SubSeqProperties DEF p
  <2> HIDE DEF p
  <2>3. \A i \in 1 .. e - o : (o + 1) + i - 1 = o + i
    BY <1>4, <1>5
  <2>4. QED
    BY <2>2, <2>3, <1>4, <1>5
<1> HIDE DEF p
<1>7. o \in UInt32
  BY <1>1, <1>4, RadixAssumption DEF UInt32
<1>8. d \in Datagrams
  BY <1>1, <1>2, <1>6, <1>7 DEF Datagrams
<1>9. p # <<>> /\ Len(p) \in 1 .. P
  BY <1>4, <1>5, <1>6
<1>10. QED
  BY <1>2, <1>4, <1>5, <1>6, <1>8, <1>9 DEF L, o, d

\* The data of a message that can be cut.
Sendable == { m \in Messages : Len(m.data) \in UInt32 \ {0} }

\* A datagram of a message comes out of the wire as it went in.
LEMMA PieceRoundTrip ==
  ASSUME NEW m \in Sendable, NEW P \in Nat \ {0}, NEW index \in 0 .. EndIndex(m, P) - 1
  PROVE  LET d == Subscript(m, P, index)
         IN /\ encoded(d) \in Seq(Byte) /\ Decodable(encoded(d)) /\ decode(encoded(d)) = d
            /\ d.offset \in Nat /\ d.payload \in Seq(Byte) /\ Len(d.payload) \in Nat \ {0}
<1> DEFINE d == Subscript(m, P, index)
<1>1. d \in Datagrams /\ d.payload # <<>> /\ Len(d.payload) \in 1 .. P
  BY SubscriptProperties DEF Sendable
<1> HIDE DEF d
<1>2. d.offset \in Nat /\ d.payload \in Seq(Byte)
  BY <1>1, RadixAssumption DEF Datagrams, UInt32
<1>3. QED
  BY <1>1, <1>2, RoundTrip DEF d

LEMMA SubrangeOfPiece ==
  ASSUME NEW m \in Sendable, NEW P \in Nat \ {0}, NEW index \in 0 .. EndIndex(m, P) - 1
  PROVE  /\ Subrange(Subscript(m, P, index)) # {}
         /\ Subrange(Subscript(m, P, index)) \subseteq 0 .. Len(m.data) - 1
<1> DEFINE d == Subscript(m, P, index)
<1>1. /\ d.offset \in Nat /\ Len(d.payload) \in Nat \ {0}
      /\ d.offset + Len(d.payload) <= Len(m.data)
  BY PieceRoundTrip, SubscriptProperties DEF Sendable
<1>2. Len(m.data) \in Nat
  BY DEF Sendable, Messages
<1> HIDE DEF d
<1>3. d.offset \in Subrange(d) /\ Subrange(d) \subseteq 0 .. Len(m.data) - 1
  BY <1>1, <1>2 DEF Subrange
<1>4. QED
  BY <1>3 DEF d

\* Two datagrams of a message have no index in common.
LEMMA PiecesDisjoint ==
  ASSUME NEW m \in Sendable, NEW P \in Nat \ {0},
         NEW i \in 0 .. EndIndex(m, P) - 1, NEW j \in 0 .. EndIndex(m, P) - 1, i # j
  PROVE  Subrange(Subscript(m, P, i)) \cap Subrange(Subscript(m, P, j)) = {}
<1> DEFINE E == EndIndex(m, P)
           S(k) == Subscript(m, P, k)
<1>1. E \in Nat
  <2>1. Len(m.data) \in Nat \ {0}
    BY DEF Sendable, Messages
  <2>2. QED
    BY <2>1, EndIndexBounds
<1> HIDE DEF E, S
<1>2. \A n \in 0 .. E - 1 : S(n).offset = n * P /\ Len(S(n).payload) \in 1 .. P
  <2> TAKE n \in 0 .. E - 1
  <2>1. QED
    BY SubscriptProperties DEF E, S, Sendable
<1>3. \A a, b \in 0 .. E - 1 : a < b => Subrange(S(a)) \cap Subrange(S(b)) = {}
  <2> SUFFICES ASSUME NEW a \in 0 .. E - 1, NEW b \in 0 .. E - 1, a < b
               PROVE  Subrange(S(a)) \cap Subrange(S(b)) = {}
    OBVIOUS
  <2>1. a * P + P <= b * P
    BY <1>1, Monotone
  <2>2. a * P \in Nat /\ b * P \in Nat
    BY <1>1
  <2>3. S(a).offset + Len(S(a).payload) <= S(b).offset
    <3> DEFINE ap == a * P
               bp == b * P
    <3>1. S(a).offset = ap /\ S(b).offset = bp /\ Len(S(a).payload) \in 1 .. P
      BY <1>2
    <3>2. ap \in Nat /\ bp \in Nat /\ ap + P <= bp
      BY <2>1, <2>2
    <3> HIDE DEF ap, bp
    <3>3. QED
      BY <3>1, <3>2
  <2>4. /\ S(a).offset \in Nat /\ S(b).offset \in Nat
        /\ Len(S(a).payload) \in Nat /\ Len(S(b).payload) \in Nat
    BY <1>2, <2>2
  <2>5. QED
    BY <2>3, <2>4 DEF Subrange
<1>4. i \in 0 .. E - 1 /\ j \in 0 .. E - 1
  BY DEF E
<1>5. i < j \/ j < i
  BY <1>1, <1>4
<1>6. QED
  BY <1>3, <1>4, <1>5 DEF S

\* The datagrams of a message carry every index of its data.
LEMMA PiecesCover ==
  ASSUME NEW m \in Sendable, NEW P \in Nat \ {0}, NEW x \in 0 .. Len(m.data) - 1
  PROVE  \E i \in 0 .. EndIndex(m, P) - 1 : x \in Subrange(Subscript(m, P, i))
<1> DEFINE L == Len(m.data)
           E == EndIndex(m, P)
           i == x \div P
           d == Subscript(m, P, i)
<1>1. L \in Nat \ {0}
  BY DEF Sendable, Messages
<1>2. E \in Nat /\ L <= E * P
  BY <1>1, EndIndexBounds
<1> HIDE DEF L, E
<1>3. /\ x \in Nat /\ x < L
      /\ i \in Nat /\ i * P \in Nat /\ i * P <= x /\ x < i * P + P
  BY <1>1 DEF L
<1> HIDE DEF i
<1>4. i < E
  <2>1. SUFFICES ASSUME E <= i PROVE FALSE
    BY <1>2, <1>3
  <2>2. E * P <= i * P /\ E * P \in Nat /\ i * P \in Nat
    BY <1>2, <1>3, <2>1
  <2>3. QED
    BY <1>1, <1>2, <1>3, <2>2
<1>5. i \in 0 .. E - 1
  BY <1>2, <1>3, <1>4
<1>6. /\ d.offset = i * P
      /\ Len(d.payload) \in 1 .. P
      /\ d.offset + Len(d.payload) = L \/ Len(d.payload) = P
  <2> HIDE DEF d
  <2>1. QED
    BY <1>5, SubscriptProperties DEF d, E, L, Sendable
<1> HIDE DEF d
<1>7. x \in Subrange(d)
  <2> DEFINE o == i * P
             n == Len(d.payload)
  <2>1. /\ o \in Nat /\ o <= x /\ x < o + P
        /\ d.offset = o
        /\ n \in 1 .. P
        /\ o + n = L \/ n = P
    <3>1. o \in Nat /\ o <= x /\ x < o + P
      BY <1>3
    <3>2. d.offset = o /\ n \in 1 .. P
      BY <1>6
    <3>3. o + n = L \/ n = P
      BY <1>6
    <3>4. QED
      BY <3>1, <3>2, <3>3
  <2>2. Subrange(d) = o .. o + n - 1
    BY <2>1 DEF Subrange
  <2> HIDE DEF o, n
  <2>3. QED
    BY <1>1, <1>3, <2>1, <2>2
<1>8. QED
  BY <1>5, <1>7 DEF d, E

-----------------------------------------------------------------------------
\* What data becomes when payload takes the place of the bytes at offset.
Replaced(data, offset, payload, after) ==
  /\ after \in Seq(Byte) /\ Len(after) = Len(data)
  /\ \A i \in 1 .. Len(data) :
       after[i] = IF i \in offset + 1 .. offset + Len(payload)
                    THEN payload[i - offset] ELSE data[i]

Within(data, offset, payload) == offset + Len(payload) <= Len(data)

LEMMA ReplaceSubrangeProperties ==
  ASSUME NEW data \in Seq(Byte), NEW payload \in Seq(Byte), NEW offset \in Nat,
         Within(data, offset, payload)
  PROVE  Replaced(data, offset, payload, replaceSubrange(data, offset, payload))
<1> DEFINE L == Len(data)
           n == Len(payload)
           front == SubSeq(data, 1, offset)
           back == SubSeq(data, offset + n + 1, L)
           fp == front \o payload
           r == fp \o back
<1>1. L \in Nat /\ n \in Nat /\ \A i \in 1 .. L : data[i] \in Byte
  OBVIOUS
<1> HIDE DEF L, n
<1>2. offset + n <= L
  BY DEF L, n, Within
<1>3. /\ front \in Seq(Byte) /\ Len(front) = offset
      /\ \A i \in 1 .. offset : front[i] = data[i]
  <2> HIDE DEF front
  <2>1. \A i \in 1 .. offset : data[i] \in Byte
    BY <1>1, <1>2
  <2>2. /\ front \in Seq(Byte)
        /\ Len(front) = IF 1 <= offset THEN offset - 1 + 1 ELSE 0
        /\ \A i \in 1 .. offset - 1 + 1 : front[i] = data[1 + i - 1]
    BY <2>1, SubSeqProperties DEF front
  <2>3. QED
    BY <2>2
<1>4. /\ back \in Seq(Byte) /\ Len(back) = L - (offset + n)
      /\ \A i \in 1 .. L - (offset + n) : back[i] = data[(offset + n) + i]
  <2> HIDE DEF back
  <2> DEFINE a == offset + n + 1
  <2>1. a \in Int /\ L \in Int /\ a = offset + n + 1 /\ \A i \in a .. L : data[i] \in Byte
    BY <1>1, <1>2
  <2>2. /\ back \in Seq(Byte)
        /\ Len(back) = IF a <= L THEN L - a + 1 ELSE 0
        /\ \A i \in 1 .. L - a + 1 : back[i] = data[a + i - 1]
    <3> HIDE DEF a
    <3>1. back = SubSeq(data, a, L)
      BY DEF back, a
    <3>2. QED
      BY <2>1, <3>1, SubSeqProperties
  <2> HIDE DEF a
  <2>3. \A i \in 1 .. L - (offset + n) : i \in 1 .. L - a + 1 /\ a + i - 1 = (offset + n) + i
    BY <1>1, <2>1
  <2>4. Len(back) = L - (offset + n)
    BY <1>1, <1>2, <2>1, <2>2
  <2>5. QED
    BY <2>2, <2>3, <2>4
<1>5. payload \in Seq(Byte) /\ Len(payload) = n
  BY DEF n
<1> HIDE DEF front, back
<1>6. /\ fp \in Seq(Byte) /\ Len(fp) = offset + n
      /\ (\A i \in 1 .. offset : fp[i] = data[i])
      /\ (\A i \in 1 .. n : fp[offset + i] = payload[i])
  <2>1. /\ fp \in Seq(Byte) /\ Len(fp) = Len(front) + Len(payload)
        /\ \A i \in 1 .. Len(front) : fp[i] = front[i]
        /\ \A i \in 1 .. Len(payload) : fp[Len(front) + i] = payload[i]
    BY <1>3, <1>5, ConcatBytes
  <2>2. QED
    BY <1>3, <1>5, <2>1
<1> HIDE DEF fp
<1>7. /\ r \in Seq(Byte) /\ Len(r) = L
      /\ (\A i \in 1 .. offset + n : r[i] = fp[i])
      /\ (\A i \in 1 .. L - (offset + n) : r[(offset + n) + i] = data[(offset + n) + i])
  <2>1. /\ r \in Seq(Byte) /\ Len(r) = Len(fp) + Len(back)
        /\ \A i \in 1 .. Len(fp) : r[i] = fp[i]
        /\ \A i \in 1 .. Len(back) : r[Len(fp) + i] = back[i]
    BY <1>4, <1>6, ConcatBytes
  <2> HIDE DEF r
  <2>2. /\ Len(r) = (offset + n) + (L - (offset + n))
        /\ \A i \in 1 .. offset + n : r[i] = fp[i]
        /\ \A i \in 1 .. L - (offset + n) : r[(offset + n) + i] = back[i]
    BY <1>4, <1>6, <2>1
  <2>3. (offset + n) + (L - (offset + n)) = L
    BY <1>1
  <2>4. QED
    BY <1>4, <2>1, <2>2, <2>3
<1>8. replaceSubrange(data, offset, payload) = r
  BY DEF replaceSubrange, front, back, fp, L, n
<1> HIDE DEF r
<1>9. ASSUME NEW i \in 1 .. L
      PROVE  r[i] = IF i \in offset + 1 .. offset + n THEN payload[i - offset] ELSE data[i]
  <2>1. CASE i <= offset
    BY <1>1, <1>2, <1>6, <1>7, <2>1
  <2>2. CASE offset < i /\ i <= offset + n
    <3>1. i - offset \in 1 .. n /\ offset + (i - offset) = i /\ i \in 1 .. offset + n
      BY <1>1, <2>2
    <3>2. r[i] = payload[i - offset]
      BY <1>6, <1>7, <3>1
    <3>3. QED
      BY <1>1, <2>2, <3>2
  <2>3. CASE offset + n < i
    <3> DEFINE j == i - (offset + n)
    <3>1. j \in 1 .. L - (offset + n) /\ (offset + n) + j = i
      BY <1>1, <1>2, <2>3
    <3> HIDE DEF j
    <3>2. r[i] = data[i]
      BY <1>7, <3>1
    <3>3. QED
      BY <1>1, <2>3, <3>2
  <2>4. QED
    BY <1>1, <2>1, <2>2, <2>3
<1>10. QED
  BY <1>7, <1>8, <1>9 DEF L, n, Replaced

-----------------------------------------------------------------------------
\* A datagram that fits leaves a builder a builder.
LEMMA InsertTypes ==
  ASSUME NEW b \in Builders, NEW d, d.offset \in Nat, d.payload \in Seq(Byte), Fits(b, d)
  PROVE  insert(b, d) \in Builders
<1>1. b.data \in Seq(Byte) /\ b.remainingIndices \subseteq Nat
  BY DEF Builders
<1>2. Replaced(b.data, d.offset, d.payload, replaceSubrange(b.data, d.offset, d.payload))
  BY <1>1, ReplaceSubrangeProperties DEF Fits, Within
<1>3. QED
  BY <1>1, <1>2 DEF insert, Builders, Replaced

\* A new builder waits for everything.
LEMMA FreshBuilder ==
  ASSUME NEW n \in Nat
  PROVE  /\ NewBuilder(n) \in Builders
         /\ \A m \in Messages : Len(m.data) = n => Agrees(NewBuilder(n), m)
<1>1. 0 \in Byte
  BY RadixAssumption DEF Byte
<1> DEFINE data == [i \in 1 .. n |-> 0]
<1>2. data \in Seq(Byte)
  BY <1>1, IsASeq
<1>3. Len(data) = n
  OBVIOUS
<1>4. NewBuilder(n) = [remainingIndices |-> 0 .. n - 1, data |-> data]
  BY DEF NewBuilder
<1> HIDE DEF data
<1>5. ASSUME NEW m \in Messages, Len(m.data) = n PROVE Agrees(NewBuilder(n), m)
  <2>1. DOMAIN m.data = 1 .. n
    BY <1>5 DEF Messages
  <2>2. \A i \in 1 .. n : i - 1 \in 0 .. n - 1
    OBVIOUS
  <2>3. QED
    BY <1>3, <1>4, <1>5, <2>1, <2>2 DEF Agrees
<1>6. QED
  BY <1>2, <1>4, <1>5 DEF Builders

\* A datagram of m fits a builder of m, and strikes off what it brings.
LEMMA PieceInserted ==
  ASSUME NEW m \in Sendable, NEW P \in Nat \ {0}, NEW index \in 0 .. EndIndex(m, P) - 1,
         NEW a \in Builders, Agrees(a, m)
  PROVE  LET d == Subscript(m, P, index)
         IN /\ Fits(a, d)
            /\ insert(a, d) \in Builders /\ Agrees(insert(a, d), m)
            /\ insert(a, d).remainingIndices = a.remainingIndices \ Subrange(d)
<1> DEFINE d == Subscript(m, P, index)
           b == insert(a, d)
<1>1. /\ d.payload \in Seq(Byte) /\ d.offset \in Nat /\ Len(d.payload) \in Nat \ {0}
      /\ d.offset + Len(d.payload) <= Len(m.data)
      /\ \A i \in 1 .. Len(d.payload) : d.payload[i] = m.data[d.offset + i]
  <2> HIDE DEF d
  <2>1. QED
    BY PieceRoundTrip, SubscriptProperties DEF d, Sendable
<1> HIDE DEF d
<1>2. Len(m.data) \in Nat /\ DOMAIN m.data = 1 .. Len(m.data)
  BY DEF Sendable, Messages
<1>3. /\ a.data \in Seq(Byte) /\ Len(a.data) = Len(m.data)
      /\ a.remainingIndices \in SUBSET Nat
  BY DEF Builders, Agrees
<1>4. Fits(a, d)
  BY <1>1, <1>3 DEF Fits
<1>5. b \in Builders
  BY <1>1, <1>4, InsertTypes
<1>6. /\ b.remainingIndices = a.remainingIndices \ Subrange(d)
      /\ b.data = replaceSubrange(a.data, d.offset, d.payload)
  BY DEF insert
<1> HIDE DEF b
<1>7. /\ Len(b.data) = Len(m.data)
      /\ \A i \in 1 .. Len(m.data) :
           b.data[i] = IF i - 1 \in Subrange(d) THEN d.payload[i - d.offset] ELSE a.data[i]
  <2> DEFINE r == replaceSubrange(a.data, d.offset, d.payload)
  <2>1. /\ Len(r) = Len(a.data)
        /\ \A i \in 1 .. Len(a.data) :
             r[i] = IF i \in d.offset + 1 .. d.offset + Len(d.payload)
                      THEN d.payload[i - d.offset] ELSE a.data[i]
    <3>1. Within(a.data, d.offset, d.payload)
      BY <1>1, <1>3 DEF Within
    <3>2. Replaced(a.data, d.offset, d.payload, r)
      BY <1>1, <1>3, <3>1, ReplaceSubrangeProperties
    <3>3. QED
      BY <3>2 DEF Replaced
  <2>2. \A i \in 1 .. Len(m.data) :
          i \in d.offset + 1 .. d.offset + Len(d.payload) <=> i - 1 \in Subrange(d)
    BY <1>1, <1>2 DEF Subrange
  <2> HIDE DEF r
  <2>3. b.data = r
    BY <1>6 DEF r
  <2>4. QED
    BY <1>3, <2>1, <2>2, <2>3
<1>8. ASSUME NEW i \in 1 .. Len(m.data), i - 1 \in Subrange(d)
      PROVE  i - d.offset \in 1 .. Len(d.payload) /\ d.payload[i - d.offset] = m.data[i]
  <2>1. i - d.offset \in 1 .. Len(d.payload) /\ d.offset + (i - d.offset) = i
    BY <1>1, <1>2, <1>8 DEF Subrange
  <2>2. QED
    BY <1>1, <2>1
<1>9. Agrees(b, m)
  BY <1>2, <1>6, <1>7, <1>8 DEF Agrees
<1>10. QED
  BY <1>4, <1>5, <1>6, <1>9 DEF d, b

\* A builder that waits for nothing has the message.
LEMMA NothingRemains ==
  ASSUME NEW m \in Messages, NEW b \in Builders, Agrees(b, m), b.remainingIndices = {}
  PROVE  [key |-> m.key, data |-> b.data] = m
<1>1. b.data \in Seq(Byte) /\ m.data \in Seq(Byte) /\ Len(b.data) = Len(m.data)
  BY DEF Builders, Messages, Agrees
<1>2. \A i \in 1 .. Len(m.data) : b.data[i] = m.data[i]
  BY <1>1 DEF Agrees
<1>3. b.data = m.data
  BY <1>1, <1>2, SeqEqual
<1>4. QED
  BY <1>3 DEF Messages

-----------------------------------------------------------------------------
\* The number with these bytes, the least significant first.
Number(a, b, c, d) == Radix * (Radix * (Radix * d + c) + b) + a

LEMMA FourBytes ==
  ASSUME NEW a \in Byte, NEW b \in Byte, NEW c \in Byte, NEW d \in Byte
  PROVE  Number(a, b, c, d) \in UInt32
<1>1. PICK R \in Nat : R = Radix /\ R > 1
  BY RadixAssumption
<1>2. /\ a \in Nat /\ a <= R - 1 /\ b \in Nat /\ b <= R - 1
      /\ c \in Nat /\ c <= R - 1 /\ d \in Nat /\ d <= R - 1
  BY <1>1 DEF Byte
<1>3. ASSUME NEW n \in Nat, NEW x \in Nat, NEW y \in Nat, x + 1 <= n, y <= R - 1
      PROVE  R * x + y \in Nat /\ R * x + y + 1 <= R * n /\ R * n \in Nat
  <2>1. R * x \in Nat /\ R * n \in Nat /\ R * (x + 1) = R * x + R
    BY <1>1
  <2>2. R * (x + 1) <= R * n
    BY <1>1, <1>3
  <2>3. QED
    BY <1>1, <1>3, <2>1, <2>2
<1>4. PICK n2 \in Nat : n2 = R * R
  BY <1>1
<1>5. PICK n3 \in Nat : n3 = R * n2
  BY <1>1
<1>6. PICK n4 \in Nat : n4 = R * n3
  BY <1>1
<1>7. PICK x2 \in Nat : x2 = R * d + c /\ x2 + 1 <= n2
  BY <1>1, <1>2, <1>3, <1>4
<1>8. PICK x3 \in Nat : x3 = R * x2 + b /\ x3 + 1 <= n3
  BY <1>2, <1>3, <1>5, <1>7
<1>9. R * x3 + a \in Nat /\ R * x3 + a + 1 <= n4
  BY <1>2, <1>3, <1>6, <1>8
<1>10. UInt32 = 0 .. n4 - 1
  BY <1>1, <1>4, <1>5, <1>6 DEF UInt32
<1>11. R * x3 + a \in UInt32
  <2> DEFINE x4 == R * x3 + a
  <2> HIDE DEF x4
  <2>1. x4 \in Nat /\ x4 + 1 <= n4
    BY <1>9 DEF x4
  <2>2. x4 \in 0 .. n4 - 1
    BY <2>1
  <2>3. QED
    BY <1>10, <2>2 DEF x4
<1>12. Number(a, b, c, d) = R * x3 + a
  BY <1>1, <1>7, <1>8 DEF Number
<1>13. QED
  BY <1>11, <1>12

\* What decode makes of any frame that is long enough.
LEMMA DecodeTypes ==
  ASSUME NEW data \in Seq(Byte), Decodable(data)
  PROVE  decode(data) \in Datagrams /\ decode(data).payload # <<>>
<1>1. Len(data) \in Nat /\ Len(data) > 9 /\ \A i \in 1 .. Len(data) : data[i] \in Byte
  BY DEF Decodable, ByteCount
<1>2. \A i \in 1 .. 9 : data[i] \in Byte
  BY <1>1
<1>3. FieldValue(data, 1) \in UInt32 /\ FieldValue(data, 5) \in UInt32
  <2>1. /\ data[2] \in Byte /\ data[3] \in Byte /\ data[4] \in Byte /\ data[5] \in Byte
        /\ data[6] \in Byte /\ data[7] \in Byte /\ data[8] \in Byte /\ data[9] \in Byte
    BY <1>2
  <2>2. /\ FieldValue(data, 1) = Number(data[2], data[3], data[4], data[5])
        /\ FieldValue(data, 5) = Number(data[6], data[7], data[8], data[9])
    BY DEF FieldValue, Number
  <2>3. QED
    BY <2>1, <2>2, FourBytes
<1>4. PICK p : p = SubSeq(data, 10, Len(data))
  OBVIOUS
<1>5. p \in Seq(Byte) /\ Len(p) = Len(data) - 9
  BY <1>1, <1>4, SubSeqProperties
<1>6. p # <<>>
  BY <1>1, <1>5
<1>7. decode(data) = [key |-> data[1], offset |-> FieldValue(data, 1),
                      messageLength |-> FieldValue(data, 5), payload |-> p]
  BY <1>4 DEF decode, ByteCount
<1>8. QED
  BY <1>2, <1>3, <1>5, <1>6, <1>7 DEF Datagrams

LEMMA NaturalField == UInt32 \subseteq Nat
BY RadixAssumption DEF UInt32

\* Whatever arrives, a manager stays one.
LEMMA ProcessTypes ==
  ASSUME NEW manager, ManagerOK(manager), NEW data \in Seq(Byte)
  PROVE  ManagerOK(process(manager, data))
<1>1. ASSUME NEW o \in Outcomes PROVE ManagerOK([manager EXCEPT !.outcome = o])
  <2>1. [manager EXCEPT !.outcome = o] =
          [builders |-> manager.builders, received |-> manager.received, outcome |-> o]
    BY DEF ManagerOK
  <2>2. QED
    BY <2>1 DEF ManagerOK
<1>2. CASE ~Decodable(data)
  BY <1>1, <1>2 DEF process, Outcomes
<1>3. CASE Decodable(data)
  <2> DEFINE d == decode(data)
             a == BuilderFor(manager.builders, d)
             b == insert(a, d)
  <2>1. d \in Datagrams
    BY <1>3, DecodeTypes
  <2> HIDE DEF d
  <2>2. /\ d.key \in Byte /\ d.offset \in Nat /\ d.messageLength \in Nat
        /\ d.payload \in Seq(Byte)
    BY <2>1, NaturalField DEF Datagrams
  <2>3. a \in Builders
    BY <2>2, FreshBuilder DEF BuilderFor, ManagerOK
  <2>4. CASE ~Fits(a, d)
    <3>1. process(manager, data) = [manager EXCEPT !.outcome = "trap"]
      BY <1>3, <2>4 DEF process, d, a
    <3>2. QED
      BY <1>1, <3>1 DEF Outcomes
  <2>5. CASE Fits(a, d)
    <3>1. process(manager, data) = Collect(manager, d)
      BY <1>3, <2>5 DEF process, d, a
    <3>2. b \in Builders
      BY <2>2, <2>3, <2>5, InsertTypes
    <3> HIDE DEF a, b
    <3>3. CASE b.remainingIndices = {}
      <4>1. Collect(manager, d) =
              [builders |-> Without(manager.builders, d.key),
               received |-> Append(manager.received, [key |-> d.key, data |-> b.data]),
               outcome  |-> "complete"]
        BY <3>3 DEF Collect, a, b
      <4>2. [key |-> d.key, data |-> b.data] \in Messages
        BY <2>2, <3>2 DEF Messages, Builders
      <4>3. Append(manager.received, [key |-> d.key, data |-> b.data]) \in Seq(Messages)
        BY <4>2 DEF ManagerOK
      <4>4. LET rest == Without(manager.builders, d.key)
            IN rest \in [DOMAIN rest -> Builders] /\ DOMAIN rest \subseteq Byte
        BY DEF Without, ManagerOK
      <4>5. QED
        BY <3>1, <4>1, <4>3, <4>4 DEF ManagerOK, Outcomes
    <3>4. CASE b.remainingIndices # {}
      <4>1. Collect(manager, d) =
              [builders |-> With(manager.builders, d.key, b),
               received |-> manager.received, outcome |-> "incomplete"]
        BY <3>4 DEF Collect, a, b
      <4>2. LET more == With(manager.builders, d.key, b)
            IN more \in [DOMAIN more -> Builders] /\ DOMAIN more \subseteq Byte
        BY <2>2, <3>2 DEF With, ManagerOK
      <4>3. QED
        BY <3>1, <4>1, <4>2 DEF ManagerOK, Outcomes
    <3>5. QED
      BY <3>3, <3>4
  <2>6. QED
    BY <2>4, <2>5
<1>4. QED
  BY <1>2, <1>3
=============================================================================
