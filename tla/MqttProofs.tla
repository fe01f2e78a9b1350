------------------------------- MODULE MqttProofs ------------------------------
(***************************************************************************)
(* Theorems about Mqtt and MqttSession, for every radix of the remaining   *)
(* length, every limit of a packet, everything a device may send and every *)
(* stream a stray may send.                                                *)
(***************************************************************************)
EXTENDS MqttSession, DataFacts

-----------------------------------------------------------------------------
(* Bytes and digits. *)

\* The weights of the four digits, and that the limit needs no fifth.
LEMMA Weights ==
    /\ Weight[1] = 1
    /\ \A d \in 1..4 : Weight[d] \in Nat \ {0}
    /\ \A d \in 1..3 : Weight[d + 1] = Weight[d] * Radix
    /\ MaxPacketSize < Weight[4] * Radix
<1>1. Radix \in Nat \ {0}
  BY MqttAssumption
<1>2. /\ Weight[1] = 1 /\ Weight[2] = Radix /\ Weight[3] = Radix * Radix
      /\ Weight[4] = Radix * Radix * Radix
  BY DEF Weight
<1>3. Radix * Radix \in Nat \ {0}
  BY <1>1
<1>4. Radix * Radix * Radix \in Nat \ {0}
  BY <1>1, <1>3
<1>5. \A d \in 1..4 : Weight[d] \in Nat \ {0}
  BY <1>1, <1>2, <1>3, <1>4
<1>6. \A d \in 1..3 : Weight[d + 1] = Weight[d] * Radix
  <2> TAKE d \in 1..3
  <2>1. d = 1 \/ d = 2 \/ d = 3
    OBVIOUS
  <2> QED
    BY <1>1, <1>2, <1>3, <2>1
<1>7. MaxPacketSize < Weight[4] * Radix
  <2>1. PICK w \in Nat : w = Weight[4]
    BY <1>5
  <2>2. PICK p \in Nat : p = Radix * w
    BY <1>1
  <2>3. p = w * Radix
    BY <1>1, <2>2
  <2> QED
    BY MqttAssumption, <2>1, <2>2, <2>3
<1> QED
  BY <1>2, <1>5, <1>6, <1>7

\* The limit is a number.
LEMMA MaxPacketIsNat == MaxPacketSize \in Nat
<1>1. PICK w \in Nat : w = Weight[4]
  BY Weights
<1>2. Radix \in Nat
  BY MqttAssumption
<1>3. Radix * w \in Nat
  BY <1>1, <1>2
<1> QED
  BY <1>1, <1>3, MqttAssumption

\* Division by the radix: the quotient, the remainder, and what they make up.
LEMMA DivRadix ==
    ASSUME NEW n \in Nat
    PROVE  \E q \in Nat, r \in 0..(Radix - 1) :
              /\ q = n \div Radix
              /\ r = n % Radix
              /\ n = q * Radix + r
              /\ n < Radix => q = 0 /\ r = n
              /\ n >= Radix => q # 0 /\ q < n
<1>1. Radix \in Nat /\ Radix > 1
  BY MqttAssumption
<1> QED
  BY <1>1, Division

\* A digit and the bit that says another one follows share a byte.
LEMMA DigitOfByte ==
    ASSUME NEW r \in 0..(Radix - 1)
    PROVE  /\ r \in Byte /\ r % Radix = r /\ (r \div Radix) % 2 # 1
           /\ Radix + r \in Byte /\ (Radix + r) % Radix = r
           /\ ((Radix + r) \div Radix) % 2 = 1
<1>1. Radix \in Nat /\ Radix > 1 /\ Radix <= 128
  BY MqttAssumption
<1>2. r \in Byte /\ Radix + r \in Byte
  BY <1>1 DEF Byte
<1>3. r % Radix = r /\ r \div Radix = 0
  BY <1>1, DivRadix
<1>4. PICK n \in Nat : n = Radix + r
  BY <1>1
<1>5. n = 1 * Radix + r
  BY <1>1, <1>4
<1>6. n \div Radix = 1 /\ n % Radix = r
  BY <1>1, <1>5, DivisionIs
<1> QED
  BY <1>2, <1>3, <1>4, <1>6

\* The loop of appendVarint, one digit at a time.
LEMMA AppendVarintIs ==
    ASSUME NEW n \in Nat
    PROVE  /\ AppendVarint[n] \in Seq(Byte)
           /\ AppendVarint[n] = IF n < Radix THEN <<n>>
                                ELSE <<Radix + (n % Radix)>> \o AppendVarint[n \div Radix]
<1> DEFINE Stop == {k \in Nat : k < Radix}
           down == [k \in Nat |-> k \div Radix]
           base == [k \in Nat |-> <<k>>]
           step == [x \in Nat \X Seq(Byte) |-> <<Radix + (x[1] % Radix)>> \o x[2]]
<1>1. GoesDown(Seq(Byte), Stop, down, base, step)
  <2>1. ASSUME NEW k \in Nat, k \in Stop
        PROVE  base[k] \in Seq(Byte)
    <3>1. k \in 0..(Radix - 1)
      BY <2>1, MqttAssumption
    <3> QED
      BY <3>1, DigitOfByte
  <2>2. ASSUME NEW k \in Nat, k \notin Stop
        PROVE  down[k] \in Nat /\ down[k] < k
    <3>1. k >= Radix
      BY <2>2, MqttAssumption
    <3>2. k \div Radix \in Nat /\ k \div Radix < k
      BY <3>1, DivRadix
    <3> QED
      BY <3>2
  <2>3. ASSUME NEW k \in Nat, NEW v \in Seq(Byte)
        PROVE  step[<<k, v>>] \in Seq(Byte)
    <3>1. Radix + (k % Radix) \in Byte
      <4>1. k % Radix \in 0..(Radix - 1)
        BY DivRadix
      <4> QED
        BY <4>1, DigitOfByte
    <3>2. <<Radix + (k % Radix)>> \in Seq(Byte)
      BY <3>1
    <3>3. step[<<k, v>>] = <<Radix + (k % Radix)>> \o v
      OBVIOUS
    <3> QED
      BY <3>2, <3>3, ConcatProperties
  <2> HIDE DEF Stop, down, base, step
  <2> QED
    BY <2>1, <2>2, <2>3 DEF GoesDown
<1>2. PICK f \in [Nat -> Seq(Byte)] : Follows(f, Stop, down, base, step)
  <2> HIDE DEF Stop, down, base, step
  <2> QED
    BY <1>1, RecursionExists
<1>3. ASSUME NEW k \in Nat
      PROVE  f[k] = IF k < Radix THEN <<k>> ELSE <<Radix + (k % Radix)>> \o f[k \div Radix]
  <2>1. f[k] = IF k \in Stop THEN base[k] ELSE step[<<k, f[down[k]]>>]
    <3> HIDE DEF Stop, down, base, step
    <3> QED
      BY <1>2 DEF Follows
  <2>2. k \div Radix \in Nat
    BY DivRadix
  <2>3. f[k \div Radix] \in Seq(Byte) /\ down[k] = k \div Radix /\ base[k] = <<k>>
    BY <2>2
  <2>4. step[<<k, f[k \div Radix]>>] = <<Radix + (k % Radix)>> \o f[k \div Radix]
    BY <2>3
  <2>5. k \in Stop <=> k < Radix
    OBVIOUS
  <2> HIDE DEF Stop, down, base, step
  <2> QED
    BY <2>1, <2>3, <2>4, <2>5
<1>4. f = [k \in Nat |-> IF k < Radix THEN <<k>> ELSE <<Radix + (k % Radix)>> \o f[k \div Radix]]
  BY <1>3
<1>5. AppendVarint = [k \in Nat |-> IF k < Radix THEN <<k>>
                         ELSE <<Radix + (k % Radix)>> \o AppendVarint[k \div Radix]]
  BY Zenon, <1>4 DEF AppendVarint
<1>6. ASSUME NEW k \in Nat
      PROVE  AppendVarint[k] = IF k < Radix THEN <<k>>
                               ELSE <<Radix + (k % Radix)>> \o AppendVarint[k \div Radix]
  <2>1. AppendVarint = [j \in Nat |-> IF j < Radix THEN <<j>>
                           ELSE <<Radix + (j % Radix)>> \o AppendVarint[j \div Radix]]
    BY <1>5
  <2> QED
    BY Zenon, <2>1
<1> HIDE DEF Stop, down, base, step
<1> DEFINE S == {k \in Nat : \A j \in 0..k : AppendVarint[j] = f[j]}
<1>7. 0 \in S
  <2>1. 0 \in Nat /\ 0 < Radix
    BY MqttAssumption
  <2>2. AppendVarint[0] = <<0>> /\ f[0] = <<0>>
    BY Zenon, <1>3, <1>6, <2>1
  <2>3. \A j \in 0..0 : j = 0
    OBVIOUS
  <2> QED
    BY <2>2, <2>3
<1>8. ASSUME NEW k \in Nat, k \in S
      PROVE  k + 1 \in S
  <2>1. AppendVarint[k + 1] = f[k + 1]
    <3>0. k + 1 \in Nat
      OBVIOUS
    <3>1. CASE k + 1 < Radix
      <4>1. AppendVarint[k + 1] = <<k + 1>> /\ f[k + 1] = <<k + 1>>
        BY Zenon, <1>3, <1>6, <3>0, <3>1
      <4> QED
        BY <4>1
    <3>2. CASE ~(k + 1 < Radix)
      <4>1. PICK q \in 0..k : q = (k + 1) \div Radix
        <5>1. PICK m \in Nat : m = k + 1
          OBVIOUS
        <5>2. m >= Radix
          BY <3>2, <5>1, MqttAssumption
        <5>3. m \div Radix \in Nat /\ m \div Radix < m
          BY <5>2, DivRadix
        <5> QED
          BY <5>1, <5>3
      <4>2. AppendVarint[q] = f[q]
        BY <1>8
      <4>3. AppendVarint[k + 1] = <<Radix + ((k + 1) % Radix)>> \o AppendVarint[q]
        BY Zenon, <1>6, <3>0, <3>2, <4>1
      <4>4. f[k + 1] = <<Radix + ((k + 1) % Radix)>> \o f[q]
        BY Zenon, <1>3, <3>0, <3>2, <4>1
      <4> QED
        BY <4>2, <4>3, <4>4
    <3> QED
      BY <3>1, <3>2
  <2>2. \A j \in 0..(k + 1) : j \in 0..k \/ j = k + 1
    OBVIOUS
  <2> QED
    BY <1>8, <2>1, <2>2
<1>9. Nat \subseteq S
  <2> HIDE DEF S
  <2> QED
    BY <1>7, <1>8, SetInduction
<1>10. AppendVarint[n] = f[n]
  <2>1. n \in S
    BY <1>9
  <2> QED
    BY <2>1
<1>11. AppendVarint[n] \in Seq(Byte)
  BY <1>10
<1> QED
  BY Zenon, <1>6, <1>11

-----------------------------------------------------------------------------
(* Encoding and decoding. *)

\* Two bytes and the number they stand for.
LEMMA Uint16Bytes ==
    ASSUME NEW n \in Uint16
    PROVE  /\ AppendUint16(n) = <<n \div 256, n % 256>>
           /\ n \div 256 \in Byte /\ n % 256 \in Byte
           /\ (n \div 256) * 256 + (n % 256) = n
           /\ AppendUint16(n) \in Seq(Byte)
           /\ Len(AppendUint16(n)) = 2
<1>1. n \div 256 \in Byte /\ n % 256 \in Byte /\ (n \div 256) * 256 + (n % 256) = n
  <2>1. n \in Nat /\ n <= 65535
    BY DEF Uint16
  <2>2. PICK q \in Nat, r \in 0..255 : q = n \div 256 /\ r = n % 256 /\ n = q * 256 + r
    BY <2>1, Division
  <2>3. q <= 255
    BY <2>1, <2>2
  <2>4. q \in Byte /\ r \in Byte
    BY <2>3 DEF Byte
  <2> QED
    BY <2>2, <2>4
<1>2. AppendUint16(n) = <<n \div 256, n % 256>>
  BY DEF AppendUint16
<1> QED
  BY <1>1, <1>2

\* Two bytes are what their number is encoded as.
LEMMA BytesOfNumber ==
    ASSUME NEW a \in Byte, NEW b \in Byte
    PROVE  /\ a * 256 + b \in Uint16
           /\ AppendUint16(a * 256 + b) = <<a, b>>
<1>1. a \in 0..255 /\ b \in 0..255
  BY DEF Byte
<1>2. PICK n \in Nat : n = a * 256 + b
  BY <1>1
<1>3. a \in Nat /\ b \in 0..(256 - 1)
  BY <1>1
<1>4. n \div 256 = a /\ n % 256 = b
  BY <1>2, <1>3, DivisionIs
<1>5. n \in Uint16
  <2>1. a <= 255 /\ b <= 255 /\ a * 256 <= 65280
    BY <1>1
  <2>2. n <= 65535
    BY <1>2, <1>3, <2>1
  <2> QED
    BY <2>2 DEF Uint16
<1>6. AppendUint16(n) = <<a, b>>
  BY <1>4 DEF AppendUint16
<1> QED
  BY <1>2, <1>5, <1>6

\* A string is encoded as two bytes and itself.
LEMMA EncodedString ==
    ASSUME NEW s \in Seq(Byte)
    PROVE  /\ EncodeString(s) \in Seq(Byte)
           /\ Len(EncodeString(s)) = 2 + Len(s)
           /\ Len(s) < StringSpan => EncodeString(s) = AppendUint16(Len(s)) \o s
                                     /\ Len(s) \in Uint16
<1>1. PICK n \in Nat : n = Len(s)
  OBVIOUS
<1>2. StringSpan \in Nat /\ StringSpan > 0 /\ StringSpan <= 65536
  BY MqttAssumption
<1>3. n % StringSpan \in 0..(StringSpan - 1) /\ (n < StringSpan => n % StringSpan = n)
  BY <1>2
<1>4. n % StringSpan \in Uint16
  BY <1>2, <1>3 DEF Uint16
<1>5. EncodeString(s) = AppendUint16(n % StringSpan) \o s
  BY <1>1 DEF EncodeString
<1>6. AppendUint16(n % StringSpan) \in Seq(Byte) /\ Len(AppendUint16(n % StringSpan)) = 2
  BY <1>4, Uint16Bytes
<1>7. PICK u \in Seq(Byte) : u = AppendUint16(n % StringSpan) /\ Len(u) = 2
  BY <1>6
<1>8. u \o s \in Seq(Byte) /\ Len(u \o s) = Len(u) + Len(s)
  BY ConcatProperties
<1> QED
  BY <1>1, <1>3, <1>4, <1>5, <1>7, <1>8

\* A number at the front of a body is read back, and what follows it.
LEMMA NumberBack ==
    ASSUME NEW n \in Uint16, NEW x \in Seq(Byte), NEW b, b = AppendUint16(n) \o x
    PROVE  /\ b \in Seq(Byte) /\ Len(b) = 2 + Len(x)
           /\ ToNumber(b) = n
           /\ From(b, 3) = x
<1>1. PICK u \in Seq(Byte) : u = AppendUint16(n)
  BY Uint16Bytes
<1>2. Len(u) = 2 /\ u[1] * 256 + u[2] = n
  <2>1. u = <<n \div 256, n % 256>> /\ (n \div 256) * 256 + (n % 256) = n
    BY <1>1, Uint16Bytes
  <2>2. u[1] = n \div 256 /\ u[2] = n % 256 /\ Len(u) = 2
    BY <2>1
  <2> QED
    BY <2>1, <2>2
<1>3. b \in Seq(Byte) /\ Len(b) = Len(u) + Len(x)
  BY <1>1, ConcatProperties
<1>4. b[1] = u[1] /\ b[2] = u[2]
  <2>1. 1 \in 1..Len(u) /\ 2 \in 1..Len(u)
    BY <1>2
  <2>2. \A i \in 1..Len(u) : (u \o x)[i] = u[i]
    BY ConcatElements
  <2>3. b = u \o x
    BY <1>1
  <2> QED
    BY <2>1, <2>2, <2>3
<1>5. SubSeq(b, Len(u) + 1, Len(b)) = x
  BY <1>1, CutConcat
<1> QED
  BY <1>2, <1>3, <1>4, <1>5 DEF ToNumber, From

\* A string at the front of a body is read back, and what follows it.
LEMMA StringBack ==
    ASSUME NEW s \in Seq(Byte), NEW x \in Seq(Byte), Len(s) < StringSpan,
           NEW b, b = EncodeString(s) \o x
    PROVE  /\ b \in Seq(Byte)
           /\ StartsWithString(b)
           /\ StringOf(b) = s
           /\ AfterString(b) = x
<1>1. PICK n \in Uint16 : n = Len(s)
  BY EncodedString
<1>2. PICK u \in Seq(Byte) : u = AppendUint16(n) /\ Len(u) = 2
  BY Uint16Bytes
<1>3. EncodeString(s) = u \o s
  BY <1>1, <1>2, EncodedString
<1>4. Regroup(u, s, x)
  BY Regroups
<1>5. b = u \o (s \o x)
  BY <1>3, <1>4 DEF Regroup
<1>6. PICK y \in Seq(Byte) : y = s \o x /\ Len(y) = Len(s) + Len(x)
  BY ConcatProperties
<1>7. b \in Seq(Byte) /\ Len(b) = 2 + Len(y) /\ ToNumber(b) = n
  BY <1>2, <1>5, <1>6, NumberBack
<1>8. StartsWithString(b)
  <2>1. n \in Nat /\ Len(x) \in Nat
    BY DEF Uint16
  <2> QED
    BY <1>1, <1>6, <1>7, <2>1 DEF StartsWithString
<1>9. StringOf(b) = s
  <2>1. SubSeq((u \o s) \o x, Len(u) + 1, Len(u) + Len(s)) = s
    BY CutMiddle
  <2>2. Len(u) + 1 = 3 /\ Len(u) + Len(s) = 2 + n
    BY <1>1, <1>2
  <2> QED
    BY <1>3, <1>7, <2>1, <2>2 DEF StringOf
<1>10. AfterString(b) = x
  <2>1. PICK a \in Seq(Byte) : a = u \o s /\ Len(a) = Len(u) + Len(s)
    BY ConcatProperties
  <2>2. SubSeq(a \o x, Len(a) + 1, Len(a \o x)) = x
    BY <2>1, CutConcat
  <2>3. b = a \o x /\ Len(a) + 1 = 3 + n
    <3>1. n \in Nat
      BY DEF Uint16
    <3> QED
      BY <1>1, <1>2, <1>3, <2>1, <3>1
  <2> QED
    BY <1>7, <2>2, <2>3 DEF AfterString, From
<1> QED
  BY <1>7, <1>8, <1>9, <1>10

\* The same of a body that is one string.
LEMMA StringAloneBack ==
    ASSUME NEW s \in Seq(Byte), Len(s) < StringSpan
    PROVE  LET b == EncodeString(s)
           IN  b \in Seq(Byte) /\ StartsWithString(b) /\ StringOf(b) = s
<1>1. PICK b \in Seq(Byte) : b = EncodeString(s)
  BY EncodedString
<1>2. b = EncodeString(s) \o <<>> /\ <<>> \in Seq(Byte)
  BY <1>1, ConcatEmptySeq
<1>3. StartsWithString(b) /\ StringOf(b) = s
  BY <1>2, StringBack
<1> QED
  BY <1>1, <1>3

\* The first two bytes of a body are what their number is encoded as.
LEMMA TwoBytesFirst ==
    ASSUME NEW b \in Seq(Byte), Len(b) >= 2
    PROVE  /\ ToNumber(b) \in Uint16
           /\ AppendUint16(ToNumber(b)) = SubSeq(b, 1, 2)
           /\ From(b, 3) \in Seq(Byte)
           /\ AppendUint16(ToNumber(b)) \o From(b, 3) = b
<1>1. b[1] \in Byte /\ b[2] \in Byte
  <2>1. 1 \in 1..Len(b) /\ 2 \in 1..Len(b)
    OBVIOUS
  <2> QED
    BY <2>1, ElementOfSeq
<1>2. ToNumber(b) \in Uint16 /\ AppendUint16(ToNumber(b)) = <<b[1], b[2]>>
  BY <1>1, BytesOfNumber DEF ToNumber
<1>3. SubSeq(b, 1, 2) = <<b[1], b[2]>>
  <2>1. 1 \in Int /\ 2 \in Int /\ \A i \in 1..2 : b[i] \in Byte
    BY <1>1
  <2>2. /\ SubSeq(b, 1, 2) \in Seq(Byte)
        /\ Len(SubSeq(b, 1, 2)) = 2
        /\ \A i \in 1..2 : SubSeq(b, 1, 2)[i] = b[i]
    BY <2>1, SubSeqProperties
  <2>3. PICK c : c = SubSeq(b, 1, 2)
    OBVIOUS
  <2>4. c \in Seq(Byte) /\ Len(c) = 2 /\ c[1] = b[1] /\ c[2] = b[2]
    BY <2>2, <2>3
  <2>5. c = <<c[1], c[2]>>
    BY <2>4, TwoElements
  <2> QED
    BY <2>3, <2>4, <2>5
<1>4. SubSeq(b, 1, 2) \o SubSeq(b, 3, Len(b)) = b
  <2>1. 1 \in 1..(Len(b) + 1) /\ 2 \in (1 - 1)..Len(b) /\ Len(b) \in 2..Len(b)
    OBVIOUS
  <2>2. SubSeq(b, 1, 2) \o SubSeq(b, 2 + 1, Len(b)) = SubSeq(b, 1, Len(b))
    BY <2>1, ConcatAdjacentSubSeq
  <2>3. SubSeq(b, 1, Len(b)) = b
    BY SubSeqFull
  <2> QED
    BY <2>2, <2>3
<1>5. SubSeq(b, 3, Len(b)) \in Seq(Byte)
  <2>1. 3 \in Int /\ Len(b) \in Int /\ \A i \in 3..Len(b) : b[i] \in Byte
    BY ElementOfSeq
  <2> QED
    BY <2>1, SubSeqProperties
<1> QED
  BY <1>2, <1>3, <1>4, <1>5 DEF From

\* What a message of each type is made of.
LEMMA MessageParts ==
    ASSUME NEW m \in Messages
    PROVE  /\ m.type \in {CONNECT, PUBLISH, PINGREQ, DISCONNECT}
           /\ m.type = CONNECT =>
                /\ m.id \in Seq(Byte) /\ m.keepAlive \in Uint16
                /\ m = [type |-> CONNECT, id |-> m.id, keepAlive |-> m.keepAlive]
           /\ m.type = PUBLISH =>
                /\ m.topic \in Seq(Byte) /\ m.payload \in Seq(Byte)
                /\ m.qos \in {0, 1} /\ m.packetID \in Uint16
                /\ m.qos = 0 => m.packetID = 0
                /\ m = [type |-> PUBLISH, topic |-> m.topic, qos |-> m.qos,
                        packetID |-> m.packetID, payload |-> m.payload]
           /\ m.type \in {PINGREQ, DISCONNECT} => m = [type |-> m.type]
<1>1. m \in Connect \/ m \in Publish \/ m \in Bodiless
  BY MqttAssumption
<1>2. CASE m \in Connect
  BY <1>2 DEF Connect, CONNECT, PUBLISH, PINGREQ, DISCONNECT
<1>3. CASE m \in Publish
  <2>1. 0 \in Uint16
    BY DEF Uint16
  <2> QED
    BY <1>3, <2>1 DEF Publish, CONNECT, PUBLISH, PINGREQ, DISCONNECT
<1>4. CASE m \in Bodiless
  BY <1>4 DEF Bodiless, CONNECT, PUBLISH, PINGREQ, DISCONNECT
<1> QED
  BY <1>1, <1>2, <1>3, <1>4

\* Type and flags of a packet are read back from its header.
LEMMA HeaderBack ==
    ASSUME NEW m \in Messages
    PROVE  /\ Header(m) \in Byte
           /\ Header(m) \div 16 = m.type
           /\ m.type = PUBLISH => ((Header(m) % 16) \div 2) % 4 = m.qos
<1>1. CASE m.type = PUBLISH
  <2>1. CASE m.qos = 0
    <3>1. Header(m) = 48
      BY <1>1, <2>1 DEF Header, Flags, PUBLISH
    <3> QED
      BY <1>1, <2>1, <3>1 DEF Byte, PUBLISH
  <2>2. CASE m.qos = 1
    <3>1. Header(m) = 50
      BY <1>1, <2>2 DEF Header, Flags, PUBLISH
    <3> QED
      BY <1>1, <2>2, <3>1 DEF Byte, PUBLISH
  <2> QED
    BY <1>1, <2>1, <2>2, MessageParts
<1>2. CASE m.type # PUBLISH
  <2>1. m.type = 1 \/ m.type = 12 \/ m.type = 14
    BY <1>2, MessageParts DEF CONNECT, PUBLISH, PINGREQ, DISCONNECT
  <2>2. Header(m) = m.type * 16
    BY <1>2, <2>1 DEF Header, Flags
  <2> QED
    BY <1>2, <2>1, <2>2 DEF Byte
<1> QED
  BY <1>1, <1>2

\* What the body of a CONNECT and of a publish is made of.
LEMMA BodyParts ==
    ASSUME NEW m \in Messages
    PROVE  /\ Body(m) \in Seq(Byte)
           /\ m.type = CONNECT =>
                Body(m) = EncodeString(ProtocolName)
                            \o (<<ProtocolLevel4, 2>>
                                  \o (AppendUint16(m.keepAlive) \o EncodeString(m.id)))
           /\ m.type = PUBLISH =>
                Body(m) = EncodeString(m.topic)
                            \o ((IF m.qos > 0 THEN AppendUint16(m.packetID) ELSE <<>>)
                                  \o m.payload)
           /\ m.type \in {PINGREQ, DISCONNECT} => Body(m) = <<>>
<1>1. CASE m.type = CONNECT
  <2>1. PICK a \in Seq(Byte) : a = EncodeString(ProtocolName)
    <3>1. ProtocolName \in Seq(Byte)
      BY MqttAssumption
    <3> QED
      BY <3>1, EncodedString
  <2>2. PICK b \in Seq(Byte) : b = <<ProtocolLevel4, 2>>
    <3>1. ProtocolLevel4 \in Byte /\ 2 \in Byte
      BY DEF ProtocolLevel4, Byte
    <3>2. <<ProtocolLevel4, 2>> \in Seq(Byte)
      BY <3>1
    <3> QED
      BY <3>2
  <2>3. PICK c \in Seq(Byte) : c = AppendUint16(m.keepAlive)
    BY <1>1, MessageParts, Uint16Bytes
  <2>4. PICK d \in Seq(Byte) : d = EncodeString(m.id)
    BY <1>1, MessageParts, EncodedString
  <2>5. Body(m) = ((a \o b) \o c) \o d
    <3>1. Body(m) = EncodeConnect(m)
      BY <1>1 DEF Body, CONNECT, PUBLISH
    <3> QED
      BY Zenon, <2>1, <2>2, <2>3, <2>4, <3>1 DEF EncodeConnect
  <2>6. a \o b \in Seq(Byte) /\ c \o d \in Seq(Byte)
    BY ConcatProperties
  <2>7. Regroup(a \o b, c, d) /\ Regroup(a, b, c \o d)
    BY <2>6, Regroups
  <2>8. Body(m) = a \o (b \o (c \o d))
    BY <2>5, <2>7 DEF Regroup
  <2>9. a \o (b \o (c \o d)) \in Seq(Byte)
    BY <2>6, ConcatProperties
  <2> QED
    BY <1>1, <2>1, <2>2, <2>3, <2>4, <2>8, <2>9 DEF CONNECT, PUBLISH, PINGREQ, DISCONNECT
<1>2. CASE m.type = PUBLISH
  <2>1. PICK a \in Seq(Byte) : a = EncodeString(m.topic)
    BY <1>2, MessageParts, EncodedString
  <2>2. PICK b \in Seq(Byte) : b = IF m.qos > 0 THEN AppendUint16(m.packetID) ELSE <<>>
    <3>1. AppendUint16(m.packetID) \in Seq(Byte) /\ <<>> \in Seq(Byte)
      BY <1>2, MessageParts, Uint16Bytes
    <3> QED
      BY <3>1
  <2>3. PICK c \in Seq(Byte) : c = m.payload
    BY <1>2, MessageParts
  <2>4. Body(m) = (a \o b) \o c
    <3>1. Body(m) = EncodePublish(m)
      BY <1>2 DEF Body, CONNECT, PUBLISH
    <3> QED
      BY Zenon, <2>1, <2>2, <2>3, <3>1 DEF EncodePublish
  <2>5. Regroup(a, b, c)
    BY Regroups
  <2>6. Body(m) = a \o (b \o c)
    BY <2>4, <2>5 DEF Regroup
  <2>7. a \o (b \o c) \in Seq(Byte)
    BY ConcatProperties
  <2> QED
    BY <1>2, <2>1, <2>2, <2>3, <2>6, <2>7 DEF CONNECT, PUBLISH, PINGREQ, DISCONNECT
<1>3. CASE m.type \in {PINGREQ, DISCONNECT}
  <2>1. Body(m) = <<>>
    BY <1>3 DEF Body, CONNECT, PUBLISH, PINGREQ, DISCONNECT
  <2>2. <<>> \in Seq(Byte) /\ m.type # CONNECT /\ m.type # PUBLISH
    BY <1>3 DEF CONNECT, PUBLISH, PINGREQ, DISCONNECT
  <2> QED
    BY <2>1, <2>2
<1> QED
  BY <1>1, <1>2, <1>3, MessageParts

\* A CONNECT that fits a packet is decoded as it was.
LEMMA ConnectBack ==
    ASSUME NEW m \in Messages, m.type = CONNECT, Len(Body(m)) <= MaxPacketSize
    PROVE  DecodeConnect(Body(m)) = m
<1>0. ProtocolName \in Seq(Byte)
  BY MqttAssumption
<1>1. m.id \in Seq(Byte) /\ m.keepAlive \in Uint16
  BY MessageParts
<1>2. PICK d \in Seq(Byte) : d = EncodeString(m.id) /\ Len(d) = 2 + Len(m.id)
  BY <1>1, EncodedString
<1>3. PICK c \in Seq(Byte) : c = AppendUint16(m.keepAlive) \o d /\ Len(c) = 2 + Len(d)
                             /\ ToNumber(c) = m.keepAlive /\ From(c, 3) = d
  BY <1>1, NumberBack
<1>4. ProtocolLevel4 \in Byte /\ 2 \in Byte
  BY DEF ProtocolLevel4, Byte
<1>5. PICK p : p = <<ProtocolLevel4, 2>>
  OBVIOUS
<1>6. p \in Seq(Byte) /\ Len(p) = 2 /\ p[1] = ProtocolLevel4 /\ p[2] = 2
  BY <1>4, <1>5
<1>7. PICK b \in Seq(Byte) : b = p \o c /\ Len(b) = 2 + Len(c)
  <2>1. p \o c \in Seq(Byte) /\ Len(p \o c) = Len(p) + Len(c)
    BY <1>6, ConcatProperties
  <2> QED
    BY <1>6, <2>1
<1>8. b[1] = ProtocolLevel4 /\ b[2] = 2
  <2>1. 1 \in 1..Len(p) /\ 2 \in 1..Len(p)
    BY <1>6
  <2>2. \A i \in 1..Len(p) : (p \o c)[i] = p[i]
    BY <1>6, ConcatElements
  <2> QED
    BY <1>6, <1>7, <2>1, <2>2
<1>9. SubSeq(b, 3, Len(b)) = c
  <2>1. SubSeq(p \o c, Len(p) + 1, Len(p \o c)) = c
    BY <1>6, CutConcat
  <2>2. Len(p) + 1 = 3
    BY <1>6
  <2> QED
    BY <1>7, <2>1, <2>2
<1>10. From(b, 3) = c /\ From(b, 5) = d
  <2>1. From(c, 3) = SubSeq(c, 3, Len(c))
    BY DEF From
  <2>2. SubSeq(SubSeq(b, 3, Len(b)), 3, Len(c)) = SubSeq(b, 5, Len(b))
    <3>1. PICK n \in Nat : n = Len(b)
      OBVIOUS
    <3>2. /\ 3 \in 1..Len(b) /\ n \in 1..Len(b)
          /\ 3 \in 1..(n - 3 + 1) /\ Len(c) \in 1..(n - 3 + 1)
          /\ 3 + 3 - 1 = 5 /\ 3 + Len(c) - 1 = n
      BY <1>2, <1>3, <1>7, <3>1
    <3>3. SubSeq(SubSeq(b, 3, n), 3, Len(c)) = SubSeq(b, 3 + 3 - 1, 3 + Len(c) - 1)
      BY <3>2, SubSeqOfSubSeq
    <3> QED
      BY <3>1, <3>2, <3>3
  <2> QED
    BY <1>3, <1>9, <2>1, <2>2 DEF From
<1>11. Body(m) = EncodeString(ProtocolName) \o b
  BY <1>2, <1>3, <1>5, <1>7, BodyParts
<1>12. Len(ProtocolName) < StringSpan /\ Len(m.id) < StringSpan
  <2>1. PICK a \in Seq(Byte) : a = EncodeString(ProtocolName) /\ Len(a) = 2 + Len(ProtocolName)
    BY <1>0, EncodedString
  <2>2. Len(Body(m)) = Len(a) + Len(b)
    BY <1>11, <2>1, ConcatProperties
  <2>3. MaxPacketSize <= StringSpan + 1 /\ StringSpan \in Nat
    BY MqttAssumption
  <2>4. PICK k \in Nat, n \in Nat : k = Len(ProtocolName) /\ n = Len(m.id)
    BY <1>0, <1>1
  <2>5. Len(Body(m)) = (2 + k) + (2 + (2 + (2 + n)))
    BY <1>2, <1>3, <1>7, <2>1, <2>2, <2>4
  <2>6. k < StringSpan /\ n < StringSpan
    BY <2>3, <2>5, MaxPacketIsNat
  <2> QED
    BY <2>4, <2>6
<1>13. /\ StartsWithString(Body(m))
       /\ StringOf(Body(m)) = ProtocolName
       /\ AfterString(Body(m)) = b
  BY <1>0, <1>11, <1>12, StringBack
<1>14. StartsWithString(d) /\ StringOf(d) = m.id
  BY <1>1, <1>2, <1>12, StringAloneBack
<1>15. ~HasCredentials(b[2])
  BY <1>8 DEF HasCredentials
<1>16. ~(Len(b) < 4)
  BY <1>2, <1>3, <1>7
<1>17. ConnectOf(b) = [type |-> CONNECT, id |-> m.id, keepAlive |-> m.keepAlive]
  BY <1>3, <1>8, <1>10, <1>14, <1>15, <1>16 DEF ConnectOf
<1> QED
  BY <1>13, <1>17, MessageParts DEF DecodeConnect

\* A publish that fits a packet is decoded as it was.
LEMMA PublishBack ==
    ASSUME NEW m \in Messages, m.type = PUBLISH, Len(Body(m)) <= MaxPacketSize
    PROVE  DecodePublish(Header(m) % 16, Body(m)) = m
<1>1. /\ m.topic \in Seq(Byte) /\ m.payload \in Seq(Byte)
      /\ m.qos \in {0, 1} /\ m.packetID \in Uint16
      /\ m.qos = 0 => m.packetID = 0
      /\ m = [type |-> PUBLISH, topic |-> m.topic, qos |-> m.qos,
              packetID |-> m.packetID, payload |-> m.payload]
  BY MessageParts
<1>2. PICK b \in Seq(Byte) :
         b = (IF m.qos > 0 THEN AppendUint16(m.packetID) ELSE <<>>) \o m.payload
  <2>1. AppendUint16(m.packetID) \in Seq(Byte) /\ <<>> \in Seq(Byte)
    BY <1>1, Uint16Bytes
  <2>2. (IF m.qos > 0 THEN AppendUint16(m.packetID) ELSE <<>>) \in Seq(Byte)
    BY <2>1
  <2> QED
    BY <1>1, <2>2, ConcatProperties
<1>3. Body(m) = EncodeString(m.topic) \o b
  BY <1>2, BodyParts
<1>4. Len(m.topic) < StringSpan
  <2>1. PICK a \in Seq(Byte) : a = EncodeString(m.topic) /\ Len(a) = 2 + Len(m.topic)
    BY <1>1, EncodedString
  <2>2. Len(Body(m)) = Len(a) + Len(b)
    BY <1>3, <2>1, ConcatProperties
  <2>3. MaxPacketSize <= StringSpan + 1 /\ StringSpan \in Nat
    BY MqttAssumption
  <2>4. Len(m.topic) \in Nat /\ Len(b) \in Nat
    BY <1>1
  <2> QED
    BY <2>1, <2>2, <2>3, <2>4, MaxPacketIsNat
<1>5. StartsWithString(Body(m)) /\ StringOf(Body(m)) = m.topic /\ AfterString(Body(m)) = b
  BY <1>1, <1>3, <1>4, StringBack
<1>6. PublishOf(m.topic, m.qos, b) = m
  <2>1. CASE m.qos = 0
    <3>1. b = m.payload
      <4>1. b = <<>> \o m.payload
        BY <1>2, <2>1
      <4> QED
        BY <1>1, <4>1, ConcatEmptySeq
    <3> QED
      BY <1>1, <2>1, <3>1 DEF PublishOf
  <2>2. CASE m.qos = 1
    <3>1. b = AppendUint16(m.packetID) \o m.payload
      BY <1>2, <2>2
    <3>2. Len(b) = 2 + Len(m.payload) /\ ToNumber(b) = m.packetID /\ From(b, 3) = m.payload
      <4>1. m.packetID \in Uint16 /\ m.payload \in Seq(Byte)
        BY <1>1
      <4> QED
        BY <3>1, <4>1, NumberBack
    <3>3. ~(Len(b) < 2)
      BY <1>1, <3>2
    <3> QED
      BY <1>1, <2>2, <3>2, <3>3 DEF PublishOf
  <2> QED
    BY <1>1, <2>1, <2>2
<1>7. ((Header(m) % 16) \div 2) % 4 = m.qos /\ m.qos <= 1
  BY <1>1, HeaderBack
<1> QED
  BY <1>5, <1>6, <1>7 DEF DecodePublish

\* What a message that fits a packet is read as is that message.
LEMMA DecodeBack ==
    ASSUME NEW m \in Messages, Writable(m), NEW p,
           p.header = Header(m), p.body = Body(m)
    PROVE  Decode(p) = m
<1>1. TypeOf(p) = m.type
  BY HeaderBack DEF TypeOf
<1>2. Len(Body(m)) <= MaxPacketSize
  BY DEF Writable
<1>3. CASE m.type = CONNECT
  <2>1. Decode(p) = DecodeConnect(p.body)
    BY <1>1, <1>3 DEF Decode, CONNECT, PUBLISH, PINGREQ, DISCONNECT
  <2> QED
    BY <1>2, <1>3, <2>1, ConnectBack
<1>4. CASE m.type = PUBLISH
  <2>1. Decode(p) = DecodePublish(p.header % 16, p.body)
    BY <1>1, <1>4 DEF Decode, CONNECT, PUBLISH, PINGREQ, DISCONNECT
  <2> QED
    BY <1>2, <1>4, <2>1, PublishBack
<1>5. CASE m.type \in {PINGREQ, DISCONNECT}
  BY <1>1, <1>5, MessageParts DEF Decode, CONNECT, PUBLISH, PINGREQ, DISCONNECT
<1> QED
  BY <1>3, <1>4, <1>5, MessageParts

\* A publish that is decoded from a packet's body is all of it.
LEMMA WholePublish ==
    ASSUME NEW h \in Byte, NEW b \in Seq(Byte), Len(b) <= MaxPacketSize,
           DecodePublish(h % 16, b).type = PUBLISH
    PROVE  EncodePublish(DecodePublish(h % 16, b)) = b
<1>1. PICK q : q = ((h % 16) \div 2) % 4
  OBVIOUS
<1>2. /\ q <= 1 /\ StartsWithString(b)
      /\ DecodePublish(h % 16, b) = PublishOf(StringOf(b), q, AfterString(b))
  BY <1>1 DEF DecodePublish, Malformed, PUBLISH
<1>3. q \in {0, 1}
  <2>1. h \in Nat
    BY DEF Byte
  <2>2. q \in 0..3
    BY <1>1, <2>1
  <2> QED
    BY <1>2, <2>2
<1>4. PICK n \in Nat : n = Len(b)
  OBVIOUS
<1>5. n >= 2
  BY <1>2, <1>4 DEF StartsWithString
<1>6. PICK k \in Uint16 : k = ToNumber(b)
  BY <1>4, <1>5, TwoBytesFirst
<1>7. k \in Nat /\ 2 + k <= n
  BY <1>2, <1>4, <1>6 DEF StartsWithString, Uint16
<1>8. PICK t : t = SubSeq(b, 3, 2 + k)
  OBVIOUS
<1>9. t \in Seq(Byte) /\ Len(t) = k
  <2>1. 3 \in Int /\ 2 + k \in Int /\ \A i \in 3..(2 + k) : b[i] \in Byte
    BY <1>4, <1>7, ElementOfSeq
  <2>2. /\ SubSeq(b, 3, 2 + k) \in Seq(Byte)
        /\ Len(SubSeq(b, 3, 2 + k)) = IF 3 <= 2 + k THEN (2 + k) - 3 + 1 ELSE 0
    BY <2>1, SubSeqProperties
  <2> QED
    BY <1>7, <1>8, <2>2
<1>10. PICK r : r = SubSeq(b, 3 + k, n)
  OBVIOUS
<1>11. r \in Seq(Byte)
  <2>1. 3 + k \in Int /\ n \in Int /\ \A i \in (3 + k)..n : b[i] \in Byte
    BY <1>4, <1>7, ElementOfSeq
  <2>2. SubSeq(b, 3 + k, n) \in Seq(Byte)
    BY <2>1, SubSeqProperties
  <2> QED
    BY <1>10, <2>2
<1>12. StringOf(b) = t /\ AfterString(b) = r
  BY <1>4, <1>6, <1>8, <1>10 DEF StringOf, AfterString, From
<1>13. EncodeString(t) = SubSeq(b, 1, 2 + k)
  <2>1. k < StringSpan
    <3>1. MaxPacketSize <= StringSpan + 1 /\ StringSpan \in Nat
      BY MqttAssumption
    <3> QED
      BY <1>4, <1>7, <3>1, MaxPacketIsNat
  <2>2. EncodeString(t) = AppendUint16(k) \o t
    BY <1>9, <2>1, EncodedString
  <2>3. AppendUint16(k) = SubSeq(b, 1, 2)
    BY <1>4, <1>5, <1>6, TwoBytesFirst
  <2>4. SubSeq(b, 1, 2) \o SubSeq(b, 3, 2 + k) = SubSeq(b, 1, 2 + k)
    <3>1. 1 \in 1..(Len(b) + 1) /\ 2 \in (1 - 1)..Len(b) /\ 2 + k \in 2..Len(b)
      BY <1>4, <1>7
    <3>2. SubSeq(b, 1, 2) \o SubSeq(b, 2 + 1, 2 + k) = SubSeq(b, 1, 2 + k)
      BY <3>1, ConcatAdjacentSubSeq
    <3>3. 2 + 1 = 3
      OBVIOUS
    <3> QED
      BY Zenon, <3>2, <3>3
  <2> QED
    BY <1>8, <2>2, <2>3, <2>4
<1>14. EncodeString(t) \o r = b
  <2>1. 1 \in 1..(Len(b) + 1) /\ 2 + k \in (1 - 1)..Len(b) /\ n \in (2 + k)..Len(b)
    BY <1>4, <1>7
  <2>2. SubSeq(b, 1, 2 + k) \o SubSeq(b, (2 + k) + 1, n) = SubSeq(b, 1, n)
    BY <2>1, ConcatAdjacentSubSeq
  <2>3. SubSeq(b, 1, n) = b
    BY <1>4, SubSeqFull
  <2>4. (2 + k) + 1 = 3 + k
    BY <1>7
  <2> QED
    BY <1>10, <1>13, <2>2, <2>3, <2>4
<1>15. PICK a \in Seq(Byte) : a = EncodeString(t)
  BY <1>9, EncodedString
<1>16. PICK p : p = PublishOf(t, q, r)
  OBVIOUS
<1>17. EncodePublish(p) = b
  <2>1. CASE q = 0
    <3>1. p.topic = t /\ p.qos = 0 /\ p.payload = r
      BY <1>16, <2>1 DEF PublishOf
    <3>2. EncodePublish(p) = (a \o <<>>) \o r
      BY <1>15, <3>1 DEF EncodePublish
    <3>3. a \o <<>> = a
      BY ConcatEmptySeq
    <3> QED
      BY <1>14, <1>15, <3>2, <3>3
  <2>2. CASE q = 1
    <3>1. ~(Len(r) < 2)
      BY <1>2, <1>12, <2>2 DEF PublishOf, Malformed, PUBLISH
    <3>2. p.topic = t /\ p.qos = 1 /\ p.packetID = ToNumber(r) /\ p.payload = From(r, 3)
      BY <1>16, <2>2, <3>1 DEF PublishOf
    <3>3. Len(r) >= 2
      BY <1>11, <3>1
    <3>4. PICK u \in Seq(Byte), y \in Seq(Byte) : u = AppendUint16(ToNumber(r)) /\ y = From(r, 3)
      <4>1. AppendUint16(ToNumber(r)) \in Seq(Byte) /\ From(r, 3) \in Seq(Byte)
        BY <1>11, <3>3, TwoBytesFirst, Uint16Bytes
      <4> QED
        BY <4>1
    <3>5. u \o y = r
      BY <1>11, <3>3, <3>4, TwoBytesFirst
    <3>6. EncodePublish(p) = (a \o u) \o y
      BY <1>15, <3>2, <3>4 DEF EncodePublish
    <3>7. Regroup(a, u, y)
      BY Regroups
    <3> QED
      BY <1>14, <1>15, <3>5, <3>6, <3>7 DEF Regroup
  <2> QED
    BY <1>3, <2>1, <2>2
<1> QED
  BY <1>2, <1>12, <1>16, <1>17

\* A frame is the header, the digits of the length, and the body.
LEMMA FrameParts ==
    ASSUME NEW m \in Messages
    PROVE  /\ <<Header(m)>> \in Seq(Byte) /\ Len(<<Header(m)>>) = 1
           /\ Len(Body(m)) \in Nat
           /\ AppendVarint[Len(Body(m))] \in Seq(Byte)
           /\ AppendVarint[Len(Body(m))] \o Body(m) \in Seq(Byte)
           /\ Frame(m) \in Seq(Byte)
           /\ Frame(m) = <<Header(m)>> \o (AppendVarint[Len(Body(m))] \o Body(m))
<1>1. PICK b \in Seq(Byte) : b = Body(m)
  BY BodyParts
<1>2. PICK v \in Seq(Byte) : v = AppendVarint[Len(b)]
  <2>1. PICK n \in Nat : n = Len(b)
    OBVIOUS
  <2> QED
    BY <2>1, AppendVarintIs
<1>3. PICK h : h = <<Header(m)>>
  OBVIOUS
<1>4. h \in Seq(Byte) /\ Len(h) = 1
  BY <1>3, HeaderBack
<1>5. Regroup(h, v, b)
  BY <1>4, Regroups
<1>6. Frame(m) = (h \o v) \o b
  BY Zenon, <1>1, <1>2, <1>3 DEF Frame
<1>7. v \o b \in Seq(Byte)
  BY ConcatProperties
<1>8. h \o (v \o b) \in Seq(Byte)
  BY <1>4, <1>7, ConcatProperties
<1> QED
  BY <1>1, <1>2, <1>3, <1>4, <1>5, <1>6, <1>7, <1>8 DEF Regroup

-----------------------------------------------------------------------------
(* Types. *)

\* At the start every variable has its type.
LEMMA TypeInit == SessionInit => TypeOK
<1> SUFFICES ASSUME SessionInit
             PROVE  TypeOK
  OBVIOUS
<1>1. stream \in Seq(Byte)
  <2>1. <<>> \in Seq(Byte) /\ StrayStreams \subseteq Seq(Byte)
    BY MqttAssumption
  <2> QED
    BY <2>1 DEF SessionInit, Init
<1>2. partial \in [header : Byte, length : Nat, digits : 0..4]
  <2>1. 0 \in Byte
    BY DEF Byte
  <2> QED
    BY <2>1 DEF SessionInit, Init, NoPartial
<1> QED
  BY <1>1, <1>2 DEF SessionInit, Init, TypeOK

\* What the server has not read yet is bytes.
LEMMA FromType ==
    ASSUME NEW s \in Seq(Byte), NEW n \in 0..Len(s)
    PROVE  From(s, n + 1) \in Seq(Byte)
BY SplitAt DEF From

\* Write leaves every variable its type.
LEMMA TypeWrite ==
    ASSUME TypeOK, NEW m \in Messages, Write(m)
    PROVE  TypeOK'
<1>1. written' \in Seq(Messages)
  BY AppendProperties DEF TypeOK, Write
<1>2. stream' \in Seq(Byte)
  BY FrameParts, ConcatProperties DEF TypeOK, Write
<1> QED
  BY <1>1, <1>2 DEF TypeOK, Write, readVars

\* So does the end of the connection.
LEMMA TypeHangUp ==
    ASSUME TypeOK, HangUp
    PROVE  TypeOK'
<1>1. stream' \in Seq(Byte)
  <2>1. PICK n \in 0..Len(stream) : stream' = SubSeq(stream, 1, n)
    BY DEF HangUp
  <2> QED
    BY <2>1, SplitAt DEF TypeOK
<1> QED
  BY <1>1 DEF TypeOK, HangUp, readVars

\* So does a read of the header.
LEMMA TypeReadHeader ==
    ASSUME TypeOK, ReadHeader
    PROVE  TypeOK'
<1>1. Len(stream) >= 1 /\ stream \in Seq(Byte) /\ stream' = From(stream, 1 + 1)
  BY DEF TypeOK, ReadHeader, Consume
<1>2. stream' \in Seq(Byte)
  BY <1>1, FromType
<1>3. Head(stream) \in Byte
  BY <1>1
<1>4. partial' \in [header : Byte, length : Nat, digits : 0..4] /\ partial'.digits = 0
  BY <1>3 DEF TypeOK, ReadHeader, NoPartial
<1> QED
  BY <1>2, <1>4 DEF TypeOK, ReadHeader, Consume

\* So does a read of a digit of the length.
LEMMA TypeReadLengthByte ==
    ASSUME TypeOK, ReadLengthByte
    PROVE  TypeOK'
<1>1. Len(stream) >= 1 /\ stream \in Seq(Byte) /\ stream' = From(stream, 1 + 1)
  BY DEF TypeOK, ReadLengthByte, Consume
<1>2. stream' \in Seq(Byte)
  BY <1>1, FromType
<1>3. PICK b \in Nat : b = Head(stream)
  BY <1>1 DEF Byte
<1>4. PICK digit \in Nat : digit = b % Radix
  BY DivRadix
<1>5. PICK d \in 0..3 : d = partial.digits
  BY DEF TypeOK, ReadLengthByte
<1>6. PICK w \in Nat : w = Weight[d + 1]
  BY Weights
<1>7. PICK len \in Nat : len = partial.length + digit * w
  <2>1. digit * w \in Nat /\ partial.length \in Nat
    BY DEF TypeOK
  <2> QED
    BY <2>1
<1>8. partial' = [partial EXCEPT !.length = len, !.digits = d + 1]
  BY <1>3, <1>4, <1>5, <1>6, <1>7 DEF ReadLengthByte
<1>9. /\ partial' \in [header : Byte, length : Nat, digits : 0..4]
      /\ partial'.digits = d + 1 /\ partial'.length = len
  <2>1. partial \in [header : Byte, length : Nat, digits : 0..4]
    BY DEF TypeOK
  <2>2. d + 1 \in 0..4
    OBVIOUS
  <2> QED
    BY <1>8, <2>1, <2>2
<1>10. \E more \in BOOLEAN :
          at' = CASE more /\ d + 1 < 4           -> "length"
                  [] more /\ d + 1 = 4           -> "failed"
                  [] ~more /\ TooLarge(len)      -> "failed"
                  [] ~more /\ ~TooLarge(len)     -> "body"
  <2>1. ((b \div Radix) % 2 = 1) \in BOOLEAN
    OBVIOUS
  <2> QED
    BY <1>3, <1>4, <1>5, <1>6, <1>7, <2>1 DEF ReadLengthByte
<1>11. /\ at' \in {"length", "failed", "body"}
       /\ at' = "length" => d + 1 < 4
       /\ at' = "body" => ~TooLarge(len)
  BY <1>10
<1>12. ~TooLarge(len) => len <= MaxPacketSize
  BY MaxPacketIsNat DEF TooLarge
<1> QED
  BY <1>2, <1>9, <1>11, <1>12 DEF TypeOK, ReadLengthByte, Consume

\* So does a read of a body.
LEMMA TypeReadBody ==
    ASSUME TypeOK, ReadBody
    PROVE  TypeOK'
<1>1. PICK n \in 0..Len(stream) : n = partial.length /\ n <= MaxPacketSize
  BY DEF TypeOK, ReadBody, Consume
<1>2. stream \in Seq(Byte) /\ stream' = From(stream, n + 1)
  BY <1>1 DEF TypeOK, ReadBody, Consume
<1>3. stream' \in Seq(Byte)
  BY <1>2, FromType
<1>4. PICK b \in Seq(Byte) : b = SubSeq(stream, 1, n) /\ Len(b) = n
  BY <1>2, SplitAt
<1>5. PICK p \in [header : Byte, body : Seq(Byte)] :
         p = [header |-> partial.header, body |-> b] /\ p.body = b
  <2>1. partial.header \in Byte
    BY DEF TypeOK
  <2>2. PICK p : p = [header |-> partial.header, body |-> b]
    OBVIOUS
  <2>3. p \in [header : Byte, body : Seq(Byte)] /\ p.body = b
    BY <2>1, <2>2
  <2> QED
    BY <2>2, <2>3
<1>6. got \in Seq([header : Byte, body : Seq(Byte)]) /\ got' = Append(got, p)
  BY <1>1, <1>4, <1>5 DEF TypeOK, ReadBody
<1>7. /\ got' \in Seq([header : Byte, body : Seq(Byte)])
      /\ Len(got') = Len(got) + 1
      /\ \A i \in 1..Len(got) : got'[i] = got[i]
      /\ got'[Len(got) + 1] = p
  BY <1>6, AppendProperties
<1>8. ASSUME NEW i \in 1..Len(got')
      PROVE  Len(got'[i].body) <= MaxPacketSize
  <2>1. i \in 1..Len(got) \/ i = Len(got) + 1
    BY <1>6, <1>7
  <2> QED
    BY <1>1, <1>4, <1>5, <1>7, <2>1 DEF TypeOK
<1>9. partial' \in [header : Byte, length : Nat, digits : 0..4]
  <2>1. 0 \in Byte
    BY DEF Byte
  <2> QED
    BY <2>1 DEF ReadBody, NoPartial
<1> QED
  BY <1>3, <1>7, <1>8, <1>9 DEF TypeOK, ReadBody, Consume

\* A step is one of the device, of the connection or of the server's Read, or
\* leaves all that Mqtt keeps as it is.
LEMMA SessionSteps ==
    ASSUME [SessionNext]_allVars
    PROVE  \/ \E m \in Messages : Write(m)
           \/ HangUp
           \/ Receive
           \/ UNCHANGED <<peerVars, readVars>>
BY DEF SessionNext, RefuseConnect, AcceptConnect, TakePublish, Ping, End, Finish, allVars

\* Every step leaves every variable its type.
LEMMA TypeStep ==
    ASSUME TypeOK, [SessionNext]_allVars
    PROVE  TypeOK'
<1>1. CASE \E m \in Messages : Write(m)
  BY <1>1, TypeWrite
<1>2. CASE HangUp
  BY <1>2, TypeHangUp
<1>3. CASE Receive
  <2>1. CASE ReadHeader
    BY <2>1, TypeReadHeader
  <2>2. CASE ReadLengthByte
    BY <2>2, TypeReadLengthByte
  <2>3. CASE ReadBody
    BY <2>3, TypeReadBody
  <2>4. CASE ReadFails
    BY <2>4 DEF TypeOK, ReadFails, peerVars
  <2> QED
    BY <1>3, <2>1, <2>2, <2>3, <2>4 DEF Receive, Read
<1>4. CASE UNCHANGED <<peerVars, readVars>>
  BY <1>4 DEF TypeOK, peerVars, readVars
<1>5. \/ \E m \in Messages : Write(m)
      \/ HangUp
      \/ Receive
      \/ UNCHANGED <<peerVars, readVars>>
  BY SessionSteps
<1> QED
  BY <1>1, <1>2, <1>3, <1>4, <1>5

-----------------------------------------------------------------------------
(* Where the server is in a device's stream. *)

\* The frames of the messages that come after the first n.
Frames(w, n) == [i \in 1..(Len(w) - n) |-> Frame(w[n + i])]
Ahead(w, n)  == FlattenSeq(Frames(w, n))

\* These bytes are on their way, all of them as long as the connection is up.
OnTheWay(bytes) == IsPrefix(stream, bytes) /\ (open => stream = bytes)

\* The server waits for the next frame.
AtHeader == OnTheWay(Ahead(written, Len(got)))

\* It has read digits of the length of m's body: q is left of the length, and
\* the digits of q come next.
AtLength(m) ==
    /\ partial.header = Header(m)
    /\ \E q \in 0..MaxPacketSize :
          /\ Len(Body(m)) = partial.length + q * Weight[partial.digits + 1]
          /\ q > 0 \/ partial.digits = 0
          /\ OnTheWay(AppendVarint[q] \o (Body(m) \o Ahead(written, Len(got) + 1)))

\* It waits for m's body.
AtBody(m) ==
    /\ partial.header = Header(m)
    /\ partial.length = Len(Body(m))
    /\ OnTheWay(Body(m) \o Ahead(written, Len(got) + 1))

\* What the server has read are the first messages, and it is where the next
\* one says, until the connection ends.
InSync ==
    /\ \A i \in 1..Len(written) : Writable(written[i])
    /\ Len(got) <= Len(written)
    /\ \A i \in 1..Len(got) : Decode(got[i]) = written[i]
    /\ at = "header" => AtHeader
    /\ at \in {"length", "body"} => Len(got) < Len(written)
    /\ at = "length" => AtLength(written[Len(got) + 1])
    /\ at = "body" => AtBody(written[Len(got) + 1])
    /\ at = "failed" => ~open

StreamInv == TypeOK /\ (honest => InSync)

\* The frames are sequences of bytes.
LEMMA FramesType ==
    ASSUME NEW w \in Seq(Messages), NEW n \in 0..Len(w)
    PROVE  /\ Frames(w, n) \in Seq(Seq(Byte))
           /\ Len(Frames(w, n)) = Len(w) - n
           /\ \A i \in 1..(Len(w) - n) : Frames(w, n)[i] = Frame(w[n + i])
<1>1. PICK k \in Nat : k = Len(w) - n
  OBVIOUS
<1>2. \A i \in 1..k : Frame(w[n + i]) \in Seq(Byte)
  <2> TAKE i \in 1..k
  <2>1. n + i \in 1..Len(w)
    BY <1>1
  <2>2. w[n + i] \in Messages
    BY <2>1, ElementOfSeq
  <2> QED
    BY <2>2, FrameParts
<1>3. PICK f : f = [i \in 1..k |-> Frame(w[n + i])]
  OBVIOUS
<1>4. f \in Seq(Seq(Byte)) /\ Len(f) = k /\ \A i \in 1..k : f[i] = Frame(w[n + i])
  BY <1>2, <1>3, IsASeq
<1> QED
  BY <1>1, <1>3, <1>4 DEF Frames

\* What is ahead is bytes.
LEMMA AheadType ==
    ASSUME NEW w \in Seq(Messages), NEW n \in 0..Len(w)
    PROVE  Ahead(w, n) \in Seq(Byte)
BY FramesType, FlattenType DEF Ahead

\* After the last message nothing is ahead.
LEMMA AheadNone ==
    ASSUME NEW w \in Seq(Messages)
    PROVE  Ahead(w, Len(w)) = <<>>
<1>1. PICK n \in 0..Len(w) : n = Len(w)
  OBVIOUS
<1>2. Frames(w, n) \in Seq(Seq(Byte)) /\ Len(Frames(w, n)) = 0
  BY <1>1, FramesType
<1>3. Frames(w, n) = <<>>
  BY <1>2, EmptySeq
<1> QED
  BY <1>1, <1>3, FlattenEmpty DEF Ahead

\* Before it, the next message's frame comes first.
LEMMA AheadNext ==
    ASSUME NEW w \in Seq(Messages), NEW n \in Nat, n < Len(w)
    PROVE  Ahead(w, n) = Frame(w[n + 1]) \o Ahead(w, n + 1)
<1>1. PICK k \in Nat : k = Len(w)
  OBVIOUS
<1>2. n \in 0..Len(w) /\ n + 1 \in 0..Len(w) /\ n + 1 \in 1..Len(w) /\ n < k
  BY <1>1
<1>3. PICK f \in Seq(Byte) : f = Frame(w[n + 1])
  BY <1>2, ElementOfSeq, FrameParts
<1>4. PICK ss \in Seq(Seq(Byte)) : ss = Frames(w, n + 1)
  BY <1>2, FramesType
<1>5. Len(ss) = k - (n + 1) /\ \A i \in 1..(k - (n + 1)) : ss[i] = Frame(w[(n + 1) + i])
  BY <1>1, <1>2, <1>4, FramesType
<1>6. PICK tt \in Seq(Seq(Byte)) : tt = Frames(w, n)
  BY <1>2, FramesType
<1>7. Len(tt) = k - n /\ \A i \in 1..(k - n) : tt[i] = Frame(w[n + i])
  BY <1>1, <1>2, <1>6, FramesType
<1>8. PICK uu : uu = <<f>> \o ss
  OBVIOUS
<1>9. uu \in Seq(Seq(Byte)) /\ Len(uu) = 1 + Len(ss)
  <2>1. <<f>> \in Seq(Seq(Byte)) /\ Len(<<f>>) = 1
    OBVIOUS
  <2> QED
    BY <1>8, <2>1, ConcatProperties
<1>10. uu[1] = f /\ \A i \in 1..Len(ss) : uu[1 + i] = ss[i]
  BY <1>8
<1>11. ASSUME NEW i \in 1..Len(tt)
       PROVE  tt[i] = uu[i]
  <2>1. CASE i = 1
    BY <1>2, <1>3, <1>7, <1>10, <2>1
  <2>2. CASE i # 1
    <3>1. PICK j \in 1..Len(ss) : i = 1 + j
      <4>1. i - 1 \in 1..Len(ss) /\ i = 1 + (i - 1)
        BY <1>2, <1>5, <1>7, <2>2
      <4> QED
        BY <4>1
    <3>2. (n + 1) + j = n + i
      BY <3>1
    <3> QED
      BY <1>5, <1>7, <1>10, <3>1, <3>2
  <2> QED
    BY <2>1, <2>2
<1>12. Len(tt) = Len(uu)
  BY <1>2, <1>5, <1>7, <1>9
<1>13. tt = uu
  BY <1>9, <1>11, <1>12, SeqEqual
<1>14. FlattenSeq(uu) = f \o FlattenSeq(ss)
  BY <1>8, FlattenFront
<1> QED
  BY <1>3, <1>4, <1>6, <1>13, <1>14 DEF Ahead

\* What is written comes last.
LEMMA AheadAppend ==
    ASSUME NEW w \in Seq(Messages), NEW m \in Messages, NEW n \in 0..Len(w)
    PROVE  Ahead(Append(w, m), n) = Ahead(w, n) \o Frame(m)
<1>1. PICK k \in Nat : k = Len(w)
  OBVIOUS
<1>2. PICK v : v = Append(w, m)
  OBVIOUS
<1>3. /\ v \in Seq(Messages) /\ Len(v) = k + 1
      /\ \A i \in 1..k : v[i] = w[i]
      /\ v[k + 1] = m
  BY <1>1, <1>2, AppendProperties
<1>4. n \in 0..k /\ n \in 0..Len(v)
  BY <1>1, <1>3
<1>5. PICK f \in Seq(Byte) : f = Frame(m)
  BY FrameParts
<1>6. PICK ss \in Seq(Seq(Byte)) : ss = Frames(w, n)
  BY FramesType
<1>7. Len(ss) = k - n /\ \A i \in 1..(k - n) : ss[i] = Frame(w[n + i])
  BY <1>1, <1>6, FramesType
<1>8. PICK tt \in Seq(Seq(Byte)) : tt = Frames(v, n)
  BY <1>3, <1>4, FramesType
<1>9. Len(tt) = (k + 1) - n /\ \A i \in 1..((k + 1) - n) : tt[i] = Frame(v[n + i])
  BY <1>3, <1>4, <1>8, FramesType
<1>10. PICK uu : uu = Append(ss, f)
  OBVIOUS
<1>11. /\ uu \in Seq(Seq(Byte)) /\ Len(uu) = Len(ss) + 1
       /\ \A i \in 1..Len(ss) : uu[i] = ss[i]
       /\ uu[Len(ss) + 1] = f
  BY <1>10, AppendProperties
<1>12. ASSUME NEW i \in 1..Len(tt)
       PROVE  tt[i] = uu[i]
  <2>1. CASE i = Len(ss) + 1
    <3>1. n + i = k + 1
      BY <1>4, <1>7, <2>1
    <3> QED
      BY <1>3, <1>5, <1>9, <1>11, <2>1, <3>1
  <2>2. CASE i # Len(ss) + 1
    <3>1. i \in 1..Len(ss) /\ n + i \in 1..k /\ i \in 1..(k - n)
      BY <1>4, <1>7, <1>9, <2>2
    <3> QED
      BY <1>3, <1>7, <1>9, <1>11, <3>1
  <2> QED
    BY <2>1, <2>2
<1>13. Len(tt) = Len(uu)
  BY <1>4, <1>7, <1>9, <1>11
<1>14. tt = uu
  BY <1>11, <1>12, <1>13, SeqEqual
<1>15. FlattenSeq(uu) = FlattenSeq(ss) \o f
  BY <1>10, FlattenAppend
<1> QED
  BY <1>2, <1>5, <1>6, <1>8, <1>14, <1>15 DEF Ahead

\* The server takes the first of the bytes that are on their way.
LEMMA TakeBytes ==
    ASSUME NEW a \in Seq(Byte), NEW x \in Seq(Byte), stream \in Seq(Byte),
           OnTheWay(a \o x), Consume(Len(a))
    PROVE  SubSeq(stream, 1, Len(a)) = a /\ OnTheWay(x)'
<1>1. Len(stream) >= Len(a) /\ IsPrefix(stream, a \o x) /\ (open => stream = a \o x)
  BY DEF Consume, OnTheWay
<1>2. /\ SubSeq(stream, 1, Len(a)) = a
      /\ IsPrefix(SubSeq(stream, Len(a) + 1, Len(stream)), x)
      /\ stream = a \o x => SubSeq(stream, Len(a) + 1, Len(stream)) = x
  BY <1>1, TakeFront
<1> QED
  BY <1>1, <1>2 DEF Consume, From, OnTheWay

\* Of one byte.
LEMMA TakeByte ==
    ASSUME NEW b \in Byte, NEW x \in Seq(Byte), stream \in Seq(Byte),
           OnTheWay(<<b>> \o x), Consume(1)
    PROVE  Head(stream) = b /\ OnTheWay(x)'
<1>1. PICK a : a = <<b>>
  OBVIOUS
<1>2. a \in Seq(Byte) /\ Len(a) = 1 /\ a[1] = b
  BY <1>1
<1>3. SubSeq(stream, 1, 1) = a /\ OnTheWay(x)'
  BY <1>1, <1>2, TakeBytes
<1>4. Len(stream) >= 1
  BY DEF Consume
<1>5. SubSeq(stream, 1, 1)[1] = stream[1]
  BY <1>4
<1>6. Head(stream) = stream[1]
  BY <1>4
<1> QED
  BY <1>2, <1>3, <1>5, <1>6

\* When bytes are written behind them, they are still on their way.
LEMMA WriteBytes ==
    ASSUME NEW x \in Seq(Byte), NEW y \in Seq(Byte), OnTheWay(x), open,
           stream' = stream \o y
    PROVE  OnTheWay(x \o y)'
<1>1. stream' = x \o y
  BY DEF OnTheWay
<1>2. x \o y \in Seq(Byte)
  BY ConcatProperties
<1>3. IsPrefix(x \o y, x \o y)
  BY <1>2 DEF IsPrefix
<1> QED
  BY <1>1, <1>3 DEF OnTheWay

\* When the end is lost, those before it still are.
LEMMA LoseBytes ==
    ASSUME NEW x \in Seq(Byte), stream \in Seq(Byte), OnTheWay(x), HangUp
    PROVE  OnTheWay(x)'
<1>1. PICK n \in 0..Len(stream) : stream' = SubSeq(stream, 1, n)
  BY DEF HangUp
<1>2. IsPrefix(SubSeq(stream, 1, n), x)
  BY PrefixOfPrefix DEF OnTheWay
<1> QED
  BY <1>1, <1>2 DEF OnTheWay, HangUp

\* At the start the server waits for the first frame.
LEMMA SyncInit ==
    ASSUME SessionInit, honest
    PROVE  InSync
<1>1. written = <<>> /\ got = <<>> /\ stream = <<>> /\ at = "header"
  BY DEF SessionInit, Init
<1>2. <<>> \in Seq(Messages) /\ Len(<<>>) = 0
  OBVIOUS
<1>3. Ahead(<<>>, Len(<<>>)) = <<>>
  BY <1>2, AheadNone
<1>4. IsPrefix(<<>>, <<>>)
  BY DEF IsPrefix
<1>5. AtHeader
  BY <1>1, <1>3, <1>4 DEF AtHeader, OnTheWay
<1> QED
  BY <1>1, <1>2, <1>5 DEF InSync

\* Of the message that the server reads: its body, and what comes after it, to
\* which Write has added f.
NextIs(v, w, n, f) ==
    \E b \in Seq(Byte), x \in Seq(Byte) :
        /\ b = Body(w[n + 1]) /\ v[n + 1] = w[n + 1]
        /\ x = Ahead(w, n + 1) /\ Ahead(v, n + 1) = x \o f

\* What Write lets out comes behind what is on its way.
LEMMA SyncWrite ==
    ASSUME TypeOK, InSync, NEW m \in Messages, Write(m)
    PROVE  InSync'
<1>1. PICK w \in Seq(Messages), n \in Nat : w = written /\ n = Len(got) /\ n <= Len(w)
  BY DEF TypeOK, InSync
<1>2. PICK v : v = Append(w, m)
  OBVIOUS
<1>3. /\ v \in Seq(Messages) /\ Len(v) = Len(w) + 1
      /\ \A i \in 1..Len(w) : v[i] = w[i]
      /\ v[Len(w) + 1] = m
  BY <1>2, AppendProperties
<1>4. written' = v /\ got' = got /\ at' = at /\ partial' = partial /\ open' = open
  BY <1>1, <1>2 DEF Write, readVars
<1>5. PICK f \in Seq(Byte) : f = Frame(m) /\ stream' = stream \o f
  BY FrameParts DEF Write
<1>6. open
  BY DEF Write
<1>7. \A i \in 1..Len(v) : Writable(v[i])
  <2> TAKE i \in 1..Len(v)
  <2>1. i \in 1..Len(w) \/ i = Len(w) + 1
    BY <1>3
  <2>2. Writable(m) /\ \A j \in 1..Len(w) : Writable(w[j])
    BY <1>1 DEF Write, InSync
  <2> QED
    BY <1>3, <2>1, <2>2
<1>8. Len(got') <= Len(v) /\ \A i \in 1..Len(got') : Decode(got'[i]) = v[i]
  <2>1. \A i \in 1..n : i \in 1..Len(w) /\ Decode(got[i]) = w[i]
    BY <1>1 DEF InSync
  <2> QED
    BY <1>1, <1>3, <1>4, <2>1
<1>9. at = "header" => AtHeader'
  <2> SUFFICES ASSUME at = "header"
               PROVE  AtHeader'
    OBVIOUS
  <2>1. PICK x \in Seq(Byte) : x = Ahead(w, n)
    BY <1>1, AheadType
  <2>2. OnTheWay(x)
    BY <1>1, <2>1 DEF InSync, AtHeader
  <2>3. OnTheWay(x \o f)'
    BY <1>5, <1>6, <2>2, WriteBytes
  <2>4. x \o f = Ahead(v, n)
    <3>1. n \in 0..Len(w)
      BY <1>1
    <3> QED
      BY <1>2, <1>5, <2>1, <3>1, AheadAppend
  <2>5. AtHeader' <=> OnTheWay(Ahead(v, n))'
    BY <1>1, <1>4 DEF AtHeader, OnTheWay
  <2> QED
    BY <2>3, <2>4, <2>5 DEF OnTheWay
<1>10. ASSUME n < Len(w)
       PROVE  NextIs(v, w, n, f)
  <2>1. n + 1 \in 1..Len(w) /\ n + 1 \in 0..Len(w)
    BY <1>1, <1>10
  <2>2. w[n + 1] \in Messages /\ v[n + 1] = w[n + 1]
    BY <1>3, <2>1, ElementOfSeq
  <2>3. PICK b \in Seq(Byte) : b = Body(w[n + 1])
    BY <2>2, BodyParts
  <2>4. PICK x \in Seq(Byte) : x = Ahead(w, n + 1)
    BY <2>1, AheadType
  <2>5. Ahead(v, n + 1) = x \o f
    BY <1>2, <1>5, <2>1, <2>4, AheadAppend
  <2> QED
    BY <2>2, <2>3, <2>4, <2>5 DEF NextIs
<1>11. at = "length" => AtLength(written[Len(got) + 1])'
  <2> SUFFICES ASSUME at = "length"
               PROVE  AtLength(written[Len(got) + 1])'
    OBVIOUS
  <2>1. n < Len(w) /\ AtLength(w[n + 1])
    BY <1>1 DEF InSync
  <2>2. PICK b \in Seq(Byte), x \in Seq(Byte) :
           /\ b = Body(w[n + 1]) /\ v[n + 1] = w[n + 1]
           /\ x = Ahead(w, n + 1) /\ Ahead(v, n + 1) = x \o f
    BY <1>10, <2>1 DEF NextIs
  <2>3. PICK q \in 0..MaxPacketSize :
           /\ Len(b) = partial.length + q * Weight[partial.digits + 1]
           /\ q > 0 \/ partial.digits = 0
           /\ OnTheWay(AppendVarint[q] \o (b \o x))
    BY <1>1, <2>1, <2>2 DEF AtLength
  <2>4. PICK a \in Seq(Byte) : a = AppendVarint[q]
    <3>1. q \in Nat
      BY MaxPacketIsNat
    <3> QED
      BY <3>1, AppendVarintIs
  <2>5. b \o x \in Seq(Byte) /\ a \o (b \o x) \in Seq(Byte)
    BY ConcatProperties
  <2>6. OnTheWay((a \o (b \o x)) \o f)'
    BY <1>5, <1>6, <2>3, <2>4, <2>5, WriteBytes
  <2>7. Regroup(a, b \o x, f) /\ Regroup(b, x, f)
    BY <2>5, Regroups
  <2>8. (a \o (b \o x)) \o f = AppendVarint[q] \o (Body(v[n + 1]) \o Ahead(v, n + 1))
    BY <2>2, <2>4, <2>7 DEF Regroup
  <2>9. OnTheWay(AppendVarint[q] \o (Body(v[n + 1]) \o Ahead(v, n + 1)))'
    BY <2>6, <2>8 DEF OnTheWay
  <2>10. partial.header = Header(v[n + 1])
    BY <2>1, <2>2 DEF AtLength
  <2>11. /\ Len(Body(v[n + 1])) = partial'.length + q * Weight[partial'.digits + 1]
         /\ q > 0 \/ partial'.digits = 0
    BY <1>4, <2>2, <2>3
  <2> QED
    BY <1>1, <1>4, <2>9, <2>10, <2>11 DEF AtLength, OnTheWay
<1>12. at = "body" => AtBody(written[Len(got) + 1])'
  <2> SUFFICES ASSUME at = "body"
               PROVE  AtBody(written[Len(got) + 1])'
    OBVIOUS
  <2>1. n < Len(w) /\ AtBody(w[n + 1])
    BY <1>1 DEF InSync
  <2>2. PICK b \in Seq(Byte), x \in Seq(Byte) :
           /\ b = Body(w[n + 1]) /\ v[n + 1] = w[n + 1]
           /\ x = Ahead(w, n + 1) /\ Ahead(v, n + 1) = x \o f
    BY <1>10, <2>1 DEF NextIs
  <2>3. OnTheWay(b \o x) /\ partial.header = Header(v[n + 1]) /\ partial.length = Len(b)
    BY <1>1, <2>1, <2>2 DEF AtBody
  <2>4. b \o x \in Seq(Byte)
    BY ConcatProperties
  <2>5. OnTheWay((b \o x) \o f)'
    BY <1>5, <1>6, <2>3, <2>4, WriteBytes
  <2>6. Regroup(b, x, f)
    BY Regroups
  <2>7. (b \o x) \o f = Body(v[n + 1]) \o Ahead(v, n + 1)
    BY <2>2, <2>6 DEF Regroup
  <2>8. OnTheWay(Body(v[n + 1]) \o Ahead(v, n + 1))'
    BY <2>5, <2>7 DEF OnTheWay
  <2> QED
    BY <1>1, <1>4, <2>2, <2>3, <2>8 DEF AtBody, OnTheWay
<1>13. at \in {"length", "body"} => Len(got') < Len(v)
  BY <1>1, <1>3, <1>4 DEF InSync
<1>14. at # "failed"
  BY <1>6 DEF InSync
<1> QED
  BY <1>4, <1>7, <1>8, <1>9, <1>11, <1>12, <1>13, <1>14 DEF InSync

\* What is lost was the end of what is on its way.
LEMMA SyncHangUp ==
    ASSUME TypeOK, InSync, HangUp
    PROVE  InSync'
<1>1. PICK w \in Seq(Messages), n \in Nat : w = written /\ n = Len(got) /\ n <= Len(w)
  BY DEF TypeOK, InSync
<1>2. written' = w /\ got' = got /\ at' = at /\ partial' = partial /\ open' = FALSE
  BY <1>1 DEF HangUp, readVars
<1>3. stream \in Seq(Byte)
  BY DEF TypeOK
<1>4. at = "header" => AtHeader'
  <2> SUFFICES ASSUME at = "header"
               PROVE  AtHeader'
    OBVIOUS
  <2>1. PICK x \in Seq(Byte) : x = Ahead(w, n)
    <3>1. n \in 0..Len(w)
      BY <1>1
    <3> QED
      BY <3>1, AheadType
  <2>2. OnTheWay(x)
    BY <1>1, <2>1 DEF InSync, AtHeader
  <2>3. OnTheWay(x)'
    BY <1>3, <2>2, LoseBytes
  <2> QED
    BY <1>1, <1>2, <2>1, <2>3 DEF AtHeader, OnTheWay
<1>5. ASSUME n < Len(w)
      PROVE  /\ Body(w[n + 1]) \in Seq(Byte)
             /\ Ahead(w, n + 1) \in Seq(Byte)
             /\ Body(w[n + 1]) \o Ahead(w, n + 1) \in Seq(Byte)
  <2>1. n + 1 \in 1..Len(w) /\ n + 1 \in 0..Len(w)
    BY <1>1, <1>5
  <2>2. Body(w[n + 1]) \in Seq(Byte)
    BY <2>1, ElementOfSeq, BodyParts
  <2>3. Ahead(w, n + 1) \in Seq(Byte)
    BY <2>1, AheadType
  <2> QED
    BY <2>2, <2>3, ConcatProperties
<1>6. at = "length" => AtLength(written[Len(got) + 1])'
  <2> SUFFICES ASSUME at = "length"
               PROVE  AtLength(written[Len(got) + 1])'
    OBVIOUS
  <2>1. n < Len(w) /\ AtLength(w[n + 1])
    BY <1>1 DEF InSync
  <2>2. PICK y \in Seq(Byte) : y = Body(w[n + 1]) \o Ahead(w, n + 1)
    BY <1>5, <2>1
  <2>3. PICK q \in 0..MaxPacketSize :
           /\ Len(Body(w[n + 1])) = partial.length + q * Weight[partial.digits + 1]
           /\ q > 0 \/ partial.digits = 0
           /\ OnTheWay(AppendVarint[q] \o y)
    BY <1>1, <2>1, <2>2 DEF AtLength
  <2>4. AppendVarint[q] \o y \in Seq(Byte)
    <3>1. q \in Nat
      BY MaxPacketIsNat
    <3>2. AppendVarint[q] \in Seq(Byte)
      BY <3>1, AppendVarintIs
    <3> QED
      BY <3>2, ConcatProperties
  <2>5. OnTheWay(AppendVarint[q] \o y)'
    BY <1>3, <2>3, <2>4, LoseBytes
  <2>6. partial.header = Header(w[n + 1])
    BY <2>1 DEF AtLength
  <2> QED
    BY <1>1, <1>2, <2>2, <2>3, <2>5, <2>6 DEF AtLength, OnTheWay
<1>7. at = "body" => AtBody(written[Len(got) + 1])'
  <2> SUFFICES ASSUME at = "body"
               PROVE  AtBody(written[Len(got) + 1])'
    OBVIOUS
  <2>1. n < Len(w) /\ AtBody(w[n + 1])
    BY <1>1 DEF InSync
  <2>2. PICK y \in Seq(Byte) : y = Body(w[n + 1]) \o Ahead(w, n + 1)
    BY <1>5, <2>1
  <2>3. OnTheWay(y) /\ partial.header = Header(w[n + 1]) /\ partial.length = Len(Body(w[n + 1]))
    BY <1>1, <2>1, <2>2 DEF AtBody
  <2>4. OnTheWay(y)'
    BY <1>3, <2>3, LoseBytes
  <2> QED
    BY <1>1, <1>2, <2>2, <2>3, <2>4 DEF AtBody, OnTheWay
<1>8. Len(got') <= Len(w) /\ \A i \in 1..Len(got') : Decode(got'[i]) = w[i]
  BY <1>1, <1>2 DEF InSync
<1> QED
  BY <1>1, <1>2, <1>4, <1>6, <1>7, <1>8 DEF InSync

\* The header of the next message is read.
LEMMA SyncReadHeader ==
    ASSUME TypeOK, InSync, ReadHeader
    PROVE  InSync'
<1>1. PICK w \in Seq(Messages), n \in Nat : w = written /\ n = Len(got) /\ n <= Len(w)
  BY DEF TypeOK, InSync
<1>2. written' = w /\ got' = got /\ at' = "length" /\ open' = open
  BY <1>1 DEF ReadHeader, Consume
<1>3. stream \in Seq(Byte) /\ Consume(1)
  BY DEF TypeOK, ReadHeader
<1>4. OnTheWay(Ahead(w, n))
  BY <1>1 DEF InSync, AtHeader, ReadHeader
<1>5. n < Len(w)
  <2> SUFFICES ASSUME n = Len(w)
               PROVE  FALSE
    BY <1>1
  <2>1. Ahead(w, n) = <<>>
    BY AheadNone
  <2>2. Len(stream) <= 0
    BY <1>4, <2>1 DEF OnTheWay, IsPrefix
  <2> QED
    BY <1>3, <2>2 DEF Consume
<1>6. n + 1 \in 1..Len(w) /\ n + 1 \in 0..Len(w)
  BY <1>1, <1>5
<1>7. PICK m \in Messages : m = w[n + 1]
  BY <1>6, ElementOfSeq
<1>8. PICK b \in Seq(Byte) : b = Body(m)
  BY BodyParts
<1>9. PICK q \in 0..MaxPacketSize : q = Len(b)
  <2>1. Writable(m)
    BY <1>1, <1>6, <1>7 DEF InSync
  <2> QED
    BY <1>8, <2>1, MaxPacketIsNat DEF Writable
<1>10. PICK a \in Seq(Byte) : a = AppendVarint[q]
  <2>1. q \in Nat
    BY MaxPacketIsNat
  <2> QED
    BY <2>1, AppendVarintIs
<1>11. PICK x \in Seq(Byte) : x = Ahead(w, n + 1)
  BY <1>6, AheadType
<1>12. PICK h \in Byte : h = Header(m)
  BY HeaderBack
<1>13. PICK g : g = <<h>>
  OBVIOUS
<1>14. g \in Seq(Byte)
  BY <1>13
<1>15. a \o b \in Seq(Byte) /\ b \o x \in Seq(Byte) /\ a \o (b \o x) \in Seq(Byte)
  BY ConcatProperties
<1>16. Ahead(w, n) = <<h>> \o (a \o (b \o x))
  <2>1. Ahead(w, n) = Frame(m) \o x
    BY <1>5, <1>7, <1>11, AheadNext
  <2>2. Frame(m) = g \o (a \o b)
    BY <1>8, <1>9, <1>10, <1>12, <1>13, FrameParts
  <2>3. Regroup(g, a \o b, x) /\ Regroup(a, b, x)
    BY <1>14, <1>15, Regroups
  <2> QED
    BY <1>13, <2>1, <2>2, <2>3 DEF Regroup
<1>17. Head(stream) = h /\ OnTheWay(a \o (b \o x))'
  BY <1>3, <1>4, <1>15, <1>16, TakeByte
<1>18. partial' = [NoPartial EXCEPT !.header = h]
  BY <1>17 DEF ReadHeader
<1>19. partial'.header = h /\ partial'.length = 0 /\ partial'.digits = 0
  BY <1>18 DEF NoPartial
<1>20. Len(b) = partial'.length + q * Weight[partial'.digits + 1]
  <2>1. q \in Nat
    BY MaxPacketIsNat
  <2>2. Weight[0 + 1] = 1
    BY Weights
  <2> QED
    BY <1>9, <1>19, <2>1, <2>2
<1>21. AtLength(written[Len(got) + 1])'
  BY <1>1, <1>2, <1>7, <1>8, <1>10, <1>11, <1>12, <1>17, <1>19, <1>20 DEF AtLength, OnTheWay
<1>22. Len(got') <= Len(w) /\ \A i \in 1..Len(got') : Decode(got'[i]) = w[i]
  BY <1>1, <1>2 DEF InSync
<1> QED
  BY <1>1, <1>2, <1>5, <1>21, <1>22 DEF InSync

\* A digit of the next message's length is read.
LEMMA SyncReadLengthByte ==
    ASSUME TypeOK, InSync, ReadLengthByte
    PROVE  InSync'
<1>1. PICK w \in Seq(Messages), n \in Nat : w = written /\ n = Len(got) /\ n <= Len(w)
  BY DEF TypeOK, InSync
<1>2. written' = w /\ got' = got /\ open' = open
  BY <1>1 DEF ReadLengthByte, Consume
<1>3. stream \in Seq(Byte) /\ Consume(1)
  BY DEF TypeOK, ReadLengthByte
<1>4. n < Len(w) /\ AtLength(w[n + 1])
  BY <1>1 DEF InSync, ReadLengthByte
<1>5. n + 1 \in 1..Len(w) /\ n + 1 \in 0..Len(w)
  BY <1>1, <1>4
<1>6. PICK m \in Messages : m = w[n + 1]
  BY <1>5, ElementOfSeq
<1>7. PICK b \in Seq(Byte) : b = Body(m)
  BY BodyParts
<1>8. PICK x \in Seq(Byte) : x = Ahead(w, n + 1)
  BY <1>5, AheadType
<1>9. PICK y \in Seq(Byte) : y = b \o x
  BY ConcatProperties
<1>10. PICK q \in Nat :
          /\ Len(b) = partial.length + q * Weight[partial.digits + 1]
          /\ q > 0 \/ partial.digits = 0
          /\ OnTheWay(AppendVarint[q] \o y)
  BY <1>1, <1>4, <1>6, <1>7, <1>8, <1>9, MaxPacketIsNat DEF AtLength
<1>11. PICK d \in 0..3, len \in Nat : d = partial.digits /\ len = partial.length
  BY DEF TypeOK, ReadLengthByte
<1>12. PICK s \in Nat \ {0} : s = Weight[d + 1]
  BY Weights
<1>13. PICK size \in Nat : size = Len(b) /\ size <= MaxPacketSize
  <2>1. Writable(m)
    BY <1>1, <1>5, <1>6 DEF InSync
  <2> QED
    BY <1>7, <2>1 DEF Writable
<1>14. size = len + q * s
  BY <1>10, <1>11, <1>12, <1>13
<1>15. PICK p \in Nat, r \in 0..(Radix - 1) :
          /\ p = q \div Radix /\ r = q % Radix /\ q = p * Radix + r
          /\ q < Radix => p = 0 /\ r = q
          /\ q >= Radix => p # 0 /\ p < q
  BY DivRadix
<1>16. Radix \in Nat /\ r \in Nat
  BY MqttAssumption
<1>17. partial.header = Header(m)
  BY <1>4, <1>6 DEF AtLength
<1>18. ASSUME NEW c \in Byte, Head(stream) = c, c % Radix = r
       PROVE  /\ partial' = [partial EXCEPT !.length = len + r * s, !.digits = d + 1]
              /\ partial'.header = Header(m)
              /\ partial'.length = len + r * s
              /\ partial'.digits = d + 1
              /\ (c \div Radix) % 2 = 1 /\ d + 1 < 4 => at' = "length"
              /\ ~((c \div Radix) % 2 = 1) /\ ~TooLarge(len + r * s) => at' = "body"
  <2>1. partial' = [partial EXCEPT !.length = len + r * s, !.digits = d + 1]
    BY <1>11, <1>12, <1>18 DEF ReadLengthByte
  <2>2. partial \in [header : Byte, length : Nat, digits : 0..4]
    BY DEF TypeOK
  <2>3. /\ partial'.header = Header(m) /\ partial'.length = len + r * s
        /\ partial'.digits = d + 1
    BY <1>17, <2>1, <2>2
  <2>4. at' = CASE (c \div Radix) % 2 = 1 /\ d + 1 < 4                      -> "length"
                [] (c \div Radix) % 2 = 1 /\ d + 1 = 4                      -> "failed"
                [] ~((c \div Radix) % 2 = 1) /\ TooLarge(len + r * s)       -> "failed"
                [] ~((c \div Radix) % 2 = 1) /\ ~TooLarge(len + r * s)      -> "body"
    BY <1>11, <1>12, <1>18 DEF ReadLengthByte
  <2>5. PICK more \in BOOLEAN : more <=> (c \div Radix) % 2 = 1
    OBVIOUS
  <2>6. PICK large \in BOOLEAN : large <=> TooLarge(len + r * s)
    OBVIOUS
  <2>7. at' = CASE more /\ d + 1 < 4  -> "length"
                [] more /\ d + 1 = 4  -> "failed"
                [] ~more /\ large     -> "failed"
                [] ~more /\ ~large    -> "body"
    BY <2>4, <2>5, <2>6
  <2>8. (more /\ d + 1 < 4 => at' = "length") /\ (~more /\ ~large => at' = "body")
    BY <2>7
  <2> QED
    BY <2>1, <2>3, <2>5, <2>6, <2>8
<1>19. CASE q < Radix
  <2>1. AppendVarint[q] = <<q>> /\ q = r /\ q \in Byte /\ q % Radix = r
        /\ (q \div Radix) % 2 # 1
    BY <1>15, <1>19, AppendVarintIs, DigitOfByte
  <2>2. Head(stream) = q /\ OnTheWay(y)'
    BY <1>3, <1>10, <2>1, TakeByte
  <2>3. ~TooLarge(len + r * s)
    <3>1. len + r * s = size
      BY <1>14, <2>1
    <3> QED
      BY <1>13, <3>1, MaxPacketIsNat DEF TooLarge
  <2>4. /\ partial'.header = Header(m) /\ partial'.length = len + r * s
        /\ at' = "body"
    BY <1>18, <2>1, <2>2, <2>3
  <2>5. AtBody(written[Len(got) + 1])'
    <3>1. partial'.length = Len(b)
      BY <1>13, <1>14, <2>1, <2>4
    <3> QED
      BY <1>1, <1>2, <1>6, <1>7, <1>8, <1>9, <2>2, <2>4, <3>1 DEF AtBody, OnTheWay
  <2> QED
    BY <1>1, <1>2, <1>4, <2>4, <2>5 DEF InSync
<1>20. CASE q >= Radix
  <2>1. PICK c \in Byte : c = Radix + r /\ c % Radix = r /\ (c \div Radix) % 2 = 1
    BY DigitOfByte
  <2>2. PICK a \in Seq(Byte) : a = AppendVarint[p]
    BY AppendVarintIs
  <2>3. AppendVarint[q] = <<c>> \o a
    BY <1>15, <1>16, <1>20, <2>1, <2>2, AppendVarintIs
  <2>4. PICK e : e = <<c>>
    OBVIOUS
  <2>5. e \in Seq(Byte)
    BY <2>4
  <2>6. AppendVarint[q] \o y = <<c>> \o (a \o y)
    <3>1. Regroup(e, a, y)
      BY <2>5, Regroups
    <3> QED
      BY <2>3, <2>4, <3>1 DEF Regroup
  <2>7. a \o y \in Seq(Byte)
    BY ConcatProperties
  <2>8. Head(stream) = c /\ OnTheWay(a \o y)'
    BY <1>3, <1>10, <2>6, <2>7, TakeByte
  <2>9. PICK t \in Nat : t = s * Radix
    BY <1>16
  <2>10. size = (len + r * s) + p * t
    <3>1. q * s = (p * Radix + r) * s
      BY <1>15
    <3>2. (p * Radix + r) * s = p * (s * Radix) + r * s
      BY <1>16, Distribute
    <3>3. p * (s * Radix) = p * t
      BY <2>9
    <3>4. PICK i \in Nat, j \in Nat : i = p * t /\ j = r * s
      BY <1>16
    <3> QED
      BY <1>14, <3>1, <3>2, <3>3, <3>4
  <2>11. p > 0 /\ p * t >= t
    <3>1. p >= 1
      BY <1>15, <1>20
    <3> QED
      BY <3>1
  <2>12. d # 3
    <3> SUFFICES ASSUME d = 3
                 PROVE  FALSE
      OBVIOUS
    <3>1. MaxPacketSize < t
      BY <1>12, <2>9, Weights
    <3>2. PICK i \in Nat, j \in Nat : i = p * t /\ j = r * s
      BY <1>16
    <3>3. size = (len + j) + i /\ i >= t
      BY <2>10, <2>11, <3>2
    <3> QED
      BY <1>13, <3>1, <3>3, MaxPacketIsNat
  <2>13. t = Weight[(d + 1) + 1]
    <3>1. d + 1 \in 1..3
      BY <2>12
    <3> QED
      BY <1>12, <2>9, <3>1, Weights
  <2>14. /\ partial'.header = Header(m) /\ partial'.length = len + r * s
         /\ partial'.digits = d + 1 /\ at' = "length"
    <3>1. d + 1 < 4
      BY <2>12
    <3> QED
      BY <1>18, <2>1, <2>8, <3>1
  <2>15. p \in 0..MaxPacketSize
    <3>1. t >= 1
      <4>1. Weight[(d + 1) + 1] \in Nat \ {0}
        <5>1. (d + 1) + 1 \in 1..4
          BY <2>12
        <5> QED
          BY <5>1, Weights
      <4> QED
        BY <2>13, <4>1
    <3>2. p * t >= p
      BY <3>1
    <3>3. PICK i \in Nat, j \in Nat : i = p * t /\ j = r * s
      BY <1>16
    <3>4. size = (len + j) + i /\ i >= p
      BY <2>10, <3>2, <3>3
    <3> QED
      BY <1>13, <3>4, MaxPacketIsNat
  <2>16. Len(b) = partial'.length + p * Weight[partial'.digits + 1]
    BY <1>13, <2>10, <2>13, <2>14
  <2>17. AtLength(written[Len(got) + 1])'
    BY <1>1, <1>2, <1>6, <1>7, <1>8, <1>9, <2>2, <2>8, <2>11, <2>14, <2>15, <2>16
       DEF AtLength, OnTheWay
  <2> QED
    BY <1>1, <1>2, <1>4, <2>14, <2>17 DEF InSync
<1> QED
  BY <1>16, <1>19, <1>20

\* The next message is read, and is the one that was written.
LEMMA SyncReadBody ==
    ASSUME TypeOK, InSync, ReadBody
    PROVE  InSync'
<1>1. PICK w \in Seq(Messages), n \in Nat : w = written /\ n = Len(got) /\ n <= Len(w)
  BY DEF TypeOK, InSync
<1>2. n < Len(w) /\ AtBody(w[n + 1])
  BY <1>1 DEF InSync, ReadBody
<1>3. n + 1 \in 1..Len(w) /\ n + 1 \in 0..Len(w)
  BY <1>1, <1>2
<1>4. PICK m \in Messages : m = w[n + 1]
  BY <1>3, ElementOfSeq
<1>5. PICK b \in Seq(Byte) : b = Body(m)
  BY BodyParts
<1>6. PICK x \in Seq(Byte) : x = Ahead(w, n + 1)
  BY <1>3, AheadType
<1>7. partial.header = Header(m) /\ partial.length = Len(b) /\ OnTheWay(b \o x)
  BY <1>1, <1>2, <1>4, <1>5, <1>6 DEF AtBody
<1>8. stream \in Seq(Byte) /\ Consume(Len(b))
  BY <1>7 DEF TypeOK, ReadBody
<1>9. SubSeq(stream, 1, Len(b)) = b /\ OnTheWay(x)'
  BY <1>7, <1>8, TakeBytes
<1>10. PICK p : p = [header |-> Header(m), body |-> b]
  OBVIOUS
<1>11. p.header = Header(m) /\ p.body = b
  BY <1>10
<1>12. got' = Append(got, p) /\ got \in Seq([header : Byte, body : Seq(Byte)])
  BY <1>7, <1>9, <1>10 DEF ReadBody, TypeOK
<1>13. p \in [header : Byte, body : Seq(Byte)]
  BY <1>10, HeaderBack
<1>14. /\ Len(got') = n + 1
       /\ \A i \in 1..n : got'[i] = got[i]
       /\ got'[n + 1] = p
  BY <1>1, <1>12, <1>13, AppendProperties
<1>15. Decode(p) = m
  <2>1. Writable(m)
    BY <1>1, <1>3, <1>4 DEF InSync
  <2> QED
    BY <1>5, <1>11, <2>1, DecodeBack
<1>16. \A i \in 1..Len(got') : Decode(got'[i]) = w[i]
  <2> TAKE i \in 1..Len(got')
  <2>1. i \in 1..n \/ i = n + 1
    BY <1>14
  <2>2. \A j \in 1..n : Decode(got[j]) = w[j]
    BY <1>1 DEF InSync
  <2> QED
    BY <1>4, <1>14, <1>15, <2>1, <2>2
<1>17. written' = w /\ at' = "header" /\ open' = open
  BY <1>1 DEF ReadBody, Consume
<1>18. AtHeader'
  BY <1>6, <1>9, <1>14, <1>17 DEF AtHeader, OnTheWay
<1> QED
  BY <1>1, <1>3, <1>14, <1>16, <1>17, <1>18 DEF InSync

\* A read fails only when the connection has ended.
LEMMA SyncReadFails ==
    ASSUME InSync, ReadFails
    PROVE  InSync'
BY DEF InSync, ReadFails, peerVars

\* The invariant holds at the start.
LEMMA StreamInit == SessionInit => StreamInv
BY TypeInit, SyncInit DEF StreamInv

\* Every step, of the device, of the connection or of the server, preserves it.
LEMMA StreamStep ==
    ASSUME StreamInv, [SessionNext]_allVars
    PROVE  StreamInv'
<1>1. TypeOK'
  BY TypeStep DEF StreamInv
<1>2. ASSUME honest'
      PROVE  InSync'
  <2>1. honest' = honest
    <3>1. \/ \E m \in Messages : Write(m)
          \/ HangUp
          \/ Receive
          \/ UNCHANGED <<peerVars, readVars>>
      BY SessionSteps
    <3> QED
      BY <3>1 DEF Write, HangUp, Receive, Read, ReadHeader, ReadLengthByte, ReadBody,
                  ReadFails, Consume, peerVars
  <2>2. TypeOK /\ InSync
    BY <1>2, <2>1 DEF StreamInv
  <2>3. CASE \E m \in Messages : Write(m)
    BY <2>2, <2>3, SyncWrite
  <2>4. CASE HangUp
    BY <2>2, <2>4, SyncHangUp
  <2>5. CASE Receive
    BY <2>2, <2>5, SyncReadHeader, SyncReadLengthByte, SyncReadBody, SyncReadFails
       DEF Receive, Read
  <2>6. CASE UNCHANGED <<peerVars, readVars>>
    BY <2>2, <2>6 DEF InSync, AtHeader, AtLength, AtBody, OnTheWay, peerVars, readVars
  <2> QED
    BY <2>3, <2>4, <2>5, <2>6, SessionSteps
<1> QED
  BY <1>1, <1>2 DEF StreamInv

-----------------------------------------------------------------------------
(* What follows of Mqtt. *)

\* Every variable keeps its type, and no buffer exceeds the limit.
THEOREM MqttTypes == SessionSpec => []TypeOK
<1>1. StreamInv => TypeOK
  BY DEF StreamInv
<1> QED
  BY <1>1, StreamInit, StreamStep, PTL DEF SessionSpec

\* What a server has read of a device is what the device wrote, in its order.
THEOREM DevicesAreInStep == SessionSpec => []InStep
<1>1. StreamInv => InStep
  BY DEF StreamInv, InSync, InStep
<1> QED
  BY <1>1, StreamInit, StreamStep, PTL DEF SessionSpec

\* No read of a device's stream fails while the connection is up: the four
\* digits are enough for every packet that Write lets out.
THEOREM DevicesAreReadable == SessionSpec => []WrittenIsReadable
<1>1. StreamInv => WrittenIsReadable
  BY DEF StreamInv, InSync, WrittenIsReadable
<1> QED
  BY <1>1, StreamInit, StreamStep, PTL DEF SessionSpec

\* A CONNECT's body is decoded to a CONNECT or to an error.
LEMMA DecodedConnectType ==
    ASSUME NEW b
    PROVE  DecodeConnect(b).type \in {CONNECT, 0}
BY DEF DecodeConnect, ConnectOf, Malformed, CredsInCon

\* Only a packet of type PUBLISH is decoded to a publish.
LEMMA PublishFromPublish ==
    ASSUME NEW p, Decode(p).type = PUBLISH
    PROVE  Decode(p) = DecodePublish(p.header % 16, p.body)
<1>1. CASE TypeOf(p) = CONNECT
  <2>1. Decode(p) = DecodeConnect(p.body)
    BY <1>1 DEF Decode, CONNECT, PUBLISH, PINGREQ, DISCONNECT
  <2> QED
    BY <2>1, DecodedConnectType DEF CONNECT, PUBLISH
<1>2. CASE TypeOf(p) = PUBLISH
  BY <1>2 DEF Decode, CONNECT, PUBLISH, PINGREQ, DISCONNECT
<1>3. CASE TypeOf(p) \in {PINGREQ, DISCONNECT}
  <2>1. Decode(p) = [type |-> TypeOf(p)]
    BY <1>3 DEF Decode, CONNECT, PUBLISH, PINGREQ, DISCONNECT
  <2> QED
    BY <1>3, <2>1 DEF PUBLISH, PINGREQ, DISCONNECT
<1>4. CASE TypeOf(p) \notin {CONNECT, PUBLISH, PINGREQ, DISCONNECT}
  <2>1. Decode(p) = Malformed
    BY <1>4 DEF Decode
  <2> QED
    BY <2>1 DEF Malformed, PUBLISH
<1> QED
  BY <1>1, <1>2, <1>3, <1>4

\* Whatever a peer sends, a publish that is decoded is all of its body.
THEOREM PublishesAreWhole == SessionSpec => []DecodedIsWhole
<1>1. TypeOK => DecodedIsWhole
  <2> SUFFICES ASSUME TypeOK, NEW i \in 1..Len(got), Decode(got[i]).type = PUBLISH
               PROVE  EncodePublish(Decode(got[i])) = got[i].body
    BY DEF DecodedIsWhole
  <2>1. got \in Seq([header : Byte, body : Seq(Byte)])
    BY DEF TypeOK
  <2>2. PICK p \in [header : Byte, body : Seq(Byte)] : p = got[i]
    BY <2>1, ElementOfSeq
  <2>3. Len(p.body) <= MaxPacketSize /\ p.header \in Byte /\ p.body \in Seq(Byte)
    BY <2>2 DEF TypeOK
  <2>4. Decode(p) = DecodePublish(p.header % 16, p.body) /\ Decode(p).type = PUBLISH
    BY <2>2, PublishFromPublish
  <2>5. EncodePublish(DecodePublish(p.header % 16, p.body)) = p.body
    BY <2>3, <2>4, WholePublish
  <2> QED
    BY <2>2, <2>4, <2>5
<1> QED
  BY <1>1, MqttTypes, PTL

-----------------------------------------------------------------------------
(* What the server answers. *)

\* The answers a session writes.
Answers ==
    {ConnAck(ConnAccepted), ConnAck(ConnRefusedBadProtocol), ConnAck(ConnRefusedNotAuthed)}
      \union {PubAck(id) : id \in Uint16}
      \union {PingResp}

\* Where the session is, and what that says of its answers.
ToldInv ==
    /\ talk \in {"connecting", "session", "ended"}
    /\ handled \in 0..Len(got)
    /\ answers \in Seq(Answers)
    /\ talk = "connecting" => answers = <<>>
    /\ talk = "session" => Len(answers) >= 1
    /\ ToldOnce

\* Only a CONNACK tells whether a CONNECT was taken.
LEMMA ReadAnswer ==
    /\ ReadConnAck(ConnAck(ConnAccepted)) = 0
    /\ ReadConnAck(ConnAck(ConnRefusedBadProtocol)) = 1
    /\ ReadConnAck(ConnAck(ConnRefusedNotAuthed)) = 5
    /\ ReadConnAck(PingResp) = -1
    /\ \A id \in Uint16 : ReadConnAck(PubAck(id)) = -1
<1>1. ASSUME NEW code
      PROVE  ReadConnAck(ConnAck(code)) = code
  <2>1. PICK p : p = ConnAck(code)
    OBVIOUS
  <2>2. p.header = 32 /\ p.body = <<0, code>>
    BY <2>1 DEF ConnAck, Packet, CONNACK
  <2>3. TypeOf(p) = CONNACK /\ Len(p.body) = 2 /\ p.body[2] = code
    BY <2>2 DEF TypeOf, CONNACK
  <2> QED
    BY <2>1, <2>3 DEF ReadConnAck
<1>2. ReadConnAck(PingResp) = -1
  <2>1. PICK p : p = PingResp
    OBVIOUS
  <2>2. p.header = 208
    BY <2>1 DEF PingResp, Packet, PINGRESP
  <2>3. TypeOf(p) # CONNACK
    BY <2>2 DEF TypeOf, CONNACK
  <2> QED
    BY <2>1, <2>3 DEF ReadConnAck
<1>3. ASSUME NEW id \in Uint16
      PROVE  ReadConnAck(PubAck(id)) = -1
  <2>1. PICK p : p = PubAck(id)
    OBVIOUS
  <2>2. p.header = 64
    BY <2>1 DEF PubAck, Packet, PUBACK
  <2>3. TypeOf(p) # CONNACK
    BY <2>2 DEF TypeOf, CONNACK
  <2> QED
    BY <2>1, <2>3 DEF ReadConnAck
<1> QED
  BY <1>1, <1>2, <1>3 DEF ConnAccepted, ConnRefusedBadProtocol, ConnRefusedNotAuthed

\* The identifier of a publish that is decoded from a packet has 16 bits.
LEMMA DecodedId ==
    ASSUME NEW p \in [header : Byte, body : Seq(Byte)],
           Decode(p).type = PUBLISH, Decode(p).qos = 1
    PROVE  Decode(p).packetID \in Uint16
<1>1. PICK b \in Seq(Byte), h \in Byte : b = p.body /\ h = p.header
  OBVIOUS
<1>2. PICK q : q = ((h % 16) \div 2) % 4
  OBVIOUS
<1>3. Decode(p) = DecodePublish(h % 16, b)
  BY <1>1, PublishFromPublish
<1>4. PICK r : r = AfterString(b)
  OBVIOUS
<1>5. StartsWithString(b) /\ Decode(p) = PublishOf(StringOf(b), q, r)
  BY <1>2, <1>3, <1>4 DEF DecodePublish, Malformed, PUBLISH
<1>6. PICK n \in Nat : n = Len(b)
  OBVIOUS
<1>7. PICK k \in Nat : k = ToNumber(b) /\ 2 + k <= n
  <2>1. n >= 2 /\ n >= 2 + ToNumber(b)
    BY <1>5, <1>6 DEF StartsWithString
  <2>2. ToNumber(b) \in Nat
    BY <1>6, <2>1, TwoBytesFirst DEF Uint16
  <2> QED
    BY <2>1, <2>2
<1>8. r \in Seq(Byte)
  <2>1. 3 + k \in Int /\ n \in Int /\ \A i \in (3 + k)..n : b[i] \in Byte
    BY <1>6, <1>7, ElementOfSeq
  <2>2. SubSeq(b, 3 + k, n) \in Seq(Byte)
    BY <2>1, SubSeqProperties
  <2> QED
    BY <1>4, <1>6, <1>7, <2>2 DEF AfterString, From
<1>9. Len(r) >= 2 /\ Decode(p).packetID = ToNumber(r)
  BY <1>5, <1>8 DEF PublishOf, Malformed, PUBLISH
<1> QED
  BY <1>8, <1>9, TwoBytesFirst

\* An answer more does not change what was told, unless it is the first.
LEMMA ToldMore ==
    ASSUME answers \in Seq(Answers), talk = "session", Len(answers) >= 1, ToldOnce,
           NEW a \in Answers, ReadConnAck(a) = -1,
           answers' = answers \o <<a>>
    PROVE  answers' \in Seq(Answers) /\ Len(answers') >= 1 /\ ToldOnce'
<1>1. PICK s \in Seq(Answers), k \in Nat : s = answers /\ k = Len(s) /\ k >= 1
  OBVIOUS
<1>2. PICK t : t = Append(s, a)
  OBVIOUS
<1>3. /\ t \in Seq(Answers) /\ Len(t) = k + 1
      /\ \A i \in 1..k : t[i] = s[i]
      /\ t[k + 1] = a
  BY <1>1, <1>2, AppendProperties
<1>4. answers' = t
  BY <1>1, <1>2, AppendIsConcat
<1>5. ASSUME NEW i \in 1..Len(t)
      PROVE  /\ ReadConnAck(t[i]) >= 0 <=> i = 1
             /\ ~(ReadConnAck(t[i]) > 0)
  <2>1. CASE i \in 1..k
    BY <1>1, <1>3, <2>1 DEF ToldOnce
  <2>2. CASE i = k + 1
    BY <1>1, <1>3, <2>2
  <2> QED
    BY <1>3, <2>1, <2>2
<1> QED
  BY <1>3, <1>4, <1>5 DEF ToldOnce

\* The first answer tells it, and one that refuses is the last.
LEMMA ToldNow ==
    ASSUME answers = <<>>, NEW a \in Answers, ReadConnAck(a) >= 0,
           answers' = answers \o <<a>>,
           ReadConnAck(a) > 0 => talk' = "ended"
    PROVE  answers' \in Seq(Answers) /\ Len(answers') >= 1 /\ ToldOnce'
<1>1. PICK t : t = <<a>>
  OBVIOUS
<1>2. t \in Seq(Answers) /\ Len(t) = 1 /\ t[1] = a
  BY <1>1
<1>3. answers' = t
  BY <1>1, <1>2, ConcatEmptySeq
<1>4. \A i \in 1..Len(t) : i = 1 /\ t[i] = a
  BY <1>2
<1> QED
  BY <1>2, <1>3, <1>4 DEF ToldOnce

\* When no answer is written the session ends or goes on as it is.
LEMMA ToldNothing ==
    ASSUME ToldInv, answers' = answers, talk' \in {talk, "ended"}, handled' \in 0..Len(got')
    PROVE  ToldInv'
BY DEF ToldInv, ToldOnce

\* At the start nothing is told.
LEMMA ToldInit == SessionInit => ToldInv
<1> SUFFICES ASSUME SessionInit
             PROVE  ToldInv
  OBVIOUS
<1>1. talk = "connecting" /\ handled = 0 /\ answers = <<>> /\ got = <<>>
  BY DEF SessionInit, Init
<1>2. <<>> \in Seq(Answers) /\ Len(<<>>) = 0
  OBVIOUS
<1> QED
  BY <1>1, <1>2 DEF ToldInv, ToldOnce

\* Every step tells a CONNECT's fate at most once, and first.
LEMMA ToldStep ==
    ASSUME TypeOK, ToldInv, [SessionNext]_allVars
    PROVE  ToldInv'
<1>1. PICK g \in Seq([header : Byte, body : Seq(Byte)]), h \in Nat, k \in Nat :
         g = got /\ h = handled /\ k = Len(got) /\ h <= k
  <2>1. PICK g \in Seq([header : Byte, body : Seq(Byte)]) : g = got
    BY DEF TypeOK
  <2>2. PICK k \in Nat : k = Len(g)
    OBVIOUS
  <2>3. handled \in Nat /\ handled <= k
    BY <2>1, <2>2 DEF ToldInv
  <2> QED
    BY <2>1, <2>2, <2>3
<1>2. answers \in Seq(Answers)
  BY DEF ToldInv
<1>3. ASSUME NEW state \in {"session", "ended"}, NEW answer, Finish(state, answer), h < k
      PROVE  /\ got' = got /\ handled' \in 0..Len(got')
             /\ \/ talk' = state /\ answers' = answers \o answer
                \/ talk' = "ended" /\ answers' = answers
  BY <1>1, <1>3 DEF Finish, readVars
<1>4. CASE \E m \in Messages : Write(m) /\ UNCHANGED sessionVars
  BY <1>4, ToldNothing DEF Write, readVars, sessionVars, ToldInv
<1>5. CASE HangUp /\ UNCHANGED sessionVars
  BY <1>5, ToldNothing DEF HangUp, readVars, sessionVars, ToldInv
<1>6. CASE Receive
  <2>1. k <= Len(got') /\ Len(got') \in Nat
    <3>1. CASE ReadBody
      <4>1. got' \in Seq([header : Byte, body : Seq(Byte)])
        BY <3>1, TypeReadBody DEF TypeOK
      <4>2. PICK p : got' = Append(g, p)
        BY <1>1, <3>1 DEF ReadBody
      <4> QED
        BY <1>1, <4>1, <4>2
    <3>2. CASE got' = got
      BY <1>1, <3>2
    <3> QED
      BY <1>6, <3>1, <3>2 DEF Receive, Read, ReadHeader, ReadLengthByte, ReadFails
  <2>2. handled' = h /\ answers' = answers /\ talk' \in {talk, "ended"}
    BY <1>1, <1>6 DEF Receive
  <2>3. handled' \in 0..Len(got')
    BY <1>1, <2>1, <2>2
  <2> QED
    BY <2>2, <2>3, ToldNothing
<1>7. CASE RefuseConnect
  <2>1. PICK a : a = ConnAck(IF Message = CredsInCon THEN ConnRefusedNotAuthed
                             ELSE ConnRefusedBadProtocol)
    OBVIOUS
  <2>2. a \in Answers /\ ReadConnAck(a) >= 0
    BY <2>1, ReadAnswer DEF Answers
  <2>3. talk = "connecting" /\ h < k /\ Finish("ended", <<a>>)
    BY <1>1, <1>7, <2>1 DEF RefuseConnect, Due
  <2>4. answers = <<>>
    BY <2>3 DEF ToldInv
  <2>5. CASE talk' = "ended" /\ answers' = answers \o <<a>>
    <3>1. answers' \in Seq(Answers) /\ ToldOnce'
      BY <2>2, <2>4, <2>5, ToldNow
    <3> QED
      BY <1>3, <2>3, <2>5, <3>1 DEF ToldInv
  <2>6. CASE talk' = "ended" /\ answers' = answers
    BY <1>3, <2>3, <2>6, ToldNothing
  <2> QED
    BY <1>3, <2>3, <2>5, <2>6
<1>8. CASE AcceptConnect
  <2>1. PICK a : a = ConnAck(ConnAccepted)
    OBVIOUS
  <2>2. a \in Answers /\ ReadConnAck(a) = 0
    BY <2>1, ReadAnswer DEF Answers
  <2>3. talk = "connecting" /\ h < k /\ Finish("session", <<a>>)
    BY <1>1, <1>8, <2>1 DEF AcceptConnect, Due
  <2>4. answers = <<>>
    BY <2>3 DEF ToldInv
  <2>5. CASE talk' = "session" /\ answers' = answers \o <<a>>
    <3>1. answers' \in Seq(Answers) /\ Len(answers') >= 1 /\ ToldOnce'
      BY <2>2, <2>4, <2>5, ToldNow
    <3> QED
      BY <1>3, <2>3, <2>5, <3>1 DEF ToldInv
  <2>6. CASE talk' = "ended" /\ answers' = answers
    BY <1>3, <2>3, <2>6, ToldNothing
  <2> QED
    BY <1>3, <2>3, <2>5, <2>6
<1>9. ASSUME NEW a \in Answers, ReadConnAck(a) = -1, talk = "session", h < k,
             Finish("session", <<a>>)
      PROVE  ToldInv'
  <2>1. Len(answers) >= 1 /\ ToldOnce
    BY <1>9 DEF ToldInv
  <2>2. CASE talk' = "session" /\ answers' = answers \o <<a>>
    <3>1. answers' \in Seq(Answers) /\ Len(answers') >= 1 /\ ToldOnce'
      BY <1>2, <1>9, <2>1, <2>2, ToldMore
    <3> QED
      BY <1>3, <1>9, <2>2, <3>1 DEF ToldInv
  <2>3. CASE talk' = "ended" /\ answers' = answers
    BY <1>3, <1>9, <2>3, ToldNothing
  <2> QED
    BY <1>3, <1>9, <2>2, <2>3
<1>10. ASSUME NEW state \in {"session", "ended"}, state \in {talk, "ended"}, h < k,
              Finish(state, <<>>)
       PROVE  ToldInv'
  <2>1. answers \o <<>> = answers
    BY <1>2, ConcatEmptySeq
  <2>2. answers' = answers /\ talk' \in {talk, "ended"} /\ handled' \in 0..Len(got')
    BY <1>3, <1>10, <2>1
  <2> QED
    BY <2>2, ToldNothing
<1>11. CASE TakePublish
  <2>1. talk = "session" /\ h < k /\ Message.type = PUBLISH
    BY <1>1, <1>11 DEF TakePublish, Due
  <2>2. CASE Message.qos = 1
    <3>1. PICK p \in [header : Byte, body : Seq(Byte)] : p = got[handled + 1]
      <4>1. h + 1 \in 1..Len(g)
        BY <1>1, <2>1
      <4>2. g[h + 1] \in [header : Byte, body : Seq(Byte)]
        BY <4>1, ElementOfSeq
      <4> QED
        BY <1>1, <4>2
    <3>2. Message.packetID \in Uint16
      BY <2>1, <2>2, <3>1, DecodedId DEF Message
    <3>3. PICK a : a = PubAck(Message.packetID)
      OBVIOUS
    <3>4. a \in Answers /\ ReadConnAck(a) = -1
      BY <3>2, <3>3, ReadAnswer DEF Answers
    <3>5. Finish("session", <<a>>)
      BY <1>11, <2>2, <3>3 DEF TakePublish
    <3> QED
      BY <1>9, <2>1, <3>4, <3>5
  <2>3. CASE Message.qos # 1
    <3>1. Finish("session", <<>>)
      BY <1>11, <2>3 DEF TakePublish
    <3> QED
      BY <1>10, <2>1, <3>1
  <2> QED
    BY <2>2, <2>3
<1>12. CASE Ping
  <2>1. talk = "session" /\ h < k /\ Finish("session", <<PingResp>>)
    BY <1>1, <1>12 DEF Ping, Due
  <2>2. PingResp \in Answers /\ ReadConnAck(PingResp) = -1
    BY ReadAnswer DEF Answers
  <2> QED
    BY <1>9, <2>1, <2>2
<1>13. CASE End
  <2>1. h < k /\ Finish("ended", <<>>)
    BY <1>1, <1>13 DEF End, Due
  <2> QED
    BY <1>10, <2>1
<1>14. CASE UNCHANGED allVars
  <2>1. answers' = answers /\ talk' = talk /\ handled' = handled /\ got' = got
    BY <1>14 DEF allVars, readVars, sessionVars
  <2> QED
    BY <2>1, ToldNothing DEF ToldInv
<1> QED
  BY <1>4, <1>5, <1>6, <1>7, <1>8, <1>11, <1>12, <1>13, <1>14 DEF SessionNext

\* Whatever a peer sends, the server tells it once and first whether its CONNECT
\* was taken, and after a refusal nothing.
THEOREM PeersAreToldOnce == SessionSpec => []ToldOnce
<1>1. SessionInit => TypeOK /\ ToldInv
  BY TypeInit, ToldInit
<1>2. TypeOK /\ ToldInv /\ [SessionNext]_allVars => (TypeOK /\ ToldInv)'
  BY TypeStep, ToldStep
<1>3. ToldInv => ToldOnce
  BY DEF ToldInv
<1> QED
  BY <1>1, <1>2, <1>3, PTL DEF SessionSpec

-----------------------------------------------------------------------------
(* The order of the answers. *)

\* The answers that the device waits for after the first n of the messages in w.
WantedOf(w, n) == FlattenSeq([i \in 1..n |-> Wanted(w[i])])

\* Each is one that a session writes.
LEMMA WantedType ==
    ASSUME NEW m \in Messages
    PROVE  Wanted(m) \in Seq(Answers)
<1>1. ConnAck(ConnAccepted) \in Answers /\ PingResp \in Answers
  BY DEF Answers
<1>2. m.type = PUBLISH => PubAck(m.packetID) \in Answers
  BY MessageParts DEF Answers
<1>3. <<>> \in Seq(Answers) /\ \A a \in Answers : <<a>> \in Seq(Answers)
  OBVIOUS
<1>4. CASE m.type = CONNECT
  BY <1>1, <1>3, <1>4 DEF Wanted, CONNECT, PUBLISH, PINGREQ
<1>5. CASE m.type = PUBLISH /\ m.qos = 1
  BY <1>2, <1>3, <1>5 DEF Wanted, CONNECT, PUBLISH, PINGREQ
<1>6. CASE m.type = PINGREQ
  BY <1>1, <1>3, <1>6 DEF Wanted, CONNECT, PUBLISH, PINGREQ
<1>7. CASE m.type # CONNECT /\ ~(m.type = PUBLISH /\ m.qos = 1) /\ m.type # PINGREQ
  BY <1>3, <1>7 DEF Wanted
<1> QED
  BY <1>4, <1>5, <1>6, <1>7

\* One message more is one answer more, or none.
LEMMA WantedNext ==
    ASSUME NEW w \in Seq(Messages), NEW n \in Nat, n < Len(w)
    PROVE  /\ WantedOf(w, n) \in Seq(Answers)
           /\ WantedOf(w, n + 1) = WantedOf(w, n) \o Wanted(w[n + 1])
<1>1. \A i \in 1..(n + 1) : Wanted(w[i]) \in Seq(Answers)
  <2> TAKE i \in 1..(n + 1)
  <2>1. i \in 1..Len(w)
    OBVIOUS
  <2> QED
    BY <2>1, ElementOfSeq, WantedType
<1>2. PICK s : s = [i \in 1..n |-> Wanted(w[i])]
  OBVIOUS
<1>3. s \in Seq(Seq(Answers)) /\ Len(s) = n /\ \A i \in 1..n : s[i] = Wanted(w[i])
  BY <1>1, <1>2, IsASeq
<1>4. PICK t : t = [i \in 1..(n + 1) |-> Wanted(w[i])]
  OBVIOUS
<1>5. t \in Seq(Seq(Answers)) /\ Len(t) = n + 1 /\ \A i \in 1..(n + 1) : t[i] = Wanted(w[i])
  BY <1>1, <1>4, IsASeq
<1>6. PICK a \in Seq(Answers) : a = Wanted(w[n + 1])
  BY <1>1
<1>7. PICK u : u = Append(s, a)
  OBVIOUS
<1>8. u \in Seq(Seq(Answers)) /\ Len(u) = n + 1 /\ u[n + 1] = a /\ \A i \in 1..n : u[i] = s[i]
  BY <1>3, <1>7, AppendProperties
<1>9. \A i \in 1..Len(t) : t[i] = u[i]
  <2> TAKE i \in 1..Len(t)
  <2>1. i \in 1..n \/ i = n + 1
    BY <1>5
  <2> QED
    BY <1>3, <1>5, <1>6, <1>8, <2>1
<1>10. t = u
  BY <1>5, <1>8, <1>9, SeqEqual
<1>11. FlattenSeq(u) = FlattenSeq(s) \o a
  BY <1>3, <1>7, FlattenAppend
<1>12. FlattenSeq(s) \in Seq(Answers)
  BY <1>3, FlattenType
<1> QED
  BY <1>2, <1>4, <1>6, <1>10, <1>11, <1>12 DEF WantedOf

\* Of the first messages the answers stay as they are when more are written.
LEMMA WantedSame ==
    ASSUME NEW v, NEW w, NEW n \in Nat, \A i \in 1..n : v[i] = w[i]
    PROVE  WantedOf(v, n) = WantedOf(w, n)
<1>1. [i \in 1..n |-> Wanted(v[i])] = [i \in 1..n |-> Wanted(w[i])]
  OBVIOUS
<1> QED
  BY <1>1 DEF WantedOf

\* The answers are those to the first messages, and the session that goes on has
\* answered all that it has dealt with.
AnswersInv ==
    honest => \E n \in 0..handled :
                 answers = WantedOf(written, n) /\ (talk # "ended" => n = handled)

\* Nothing has been answered at the start.
LEMMA OrderInit == SessionInit => AnswersInv
<1> SUFFICES ASSUME SessionInit
             PROVE  AnswersInv
  OBVIOUS
<1>1. handled = 0 /\ answers = <<>>
  BY DEF SessionInit
<1>2. WantedOf(written, 0) = <<>>
  <2>1. PICK s : s = [i \in 1..0 |-> Wanted(written[i])]
    OBVIOUS
  <2>2. s \in Seq({}) /\ Len(s) = 0
    BY <2>1, IsASeq
  <2>3. s = <<>>
    BY <2>2, EmptySeq
  <2> QED
    BY <2>1, <2>3, FlattenEmpty DEF WantedOf
<1> QED
  BY <1>1, <1>2 DEF AnswersInv

\* When no answer is written, the session goes on as it is or has ended.
LEMMA OrderNothing ==
    ASSUME AnswersInv, honest' = honest, written' = written, answers' = answers,
           handled \in Nat, handled' = handled, talk' \in {talk, "ended"}
    PROVE  AnswersInv'
BY DEF AnswersInv

\* An answer to the message at hand keeps the order, whether it is written or not.
LEMMA OrderFinish ==
    ASSUME TypeOK, InSync, ToldInv, AnswersInv, honest, handled < Len(got), talk # "ended",
           NEW state, NEW answer, Finish(state, answer),
           answer = Wanted(written[handled + 1])
    PROVE  AnswersInv'
<1>1. PICK w \in Seq(Messages), h \in Nat : w = written /\ h = handled /\ h < Len(w)
  <2>1. PICK w \in Seq(Messages) : w = written
    BY DEF TypeOK
  <2>2. handled \in Nat /\ Len(got) \in Nat /\ Len(got) <= Len(w) /\ Len(w) \in Nat
    BY <2>1 DEF TypeOK, ToldInv, InSync
  <2> QED
    BY <2>1, <2>2
<1>2. answers = WantedOf(w, h)
  BY <1>1 DEF AnswersInv
<1>3. written' = w /\ handled' = h + 1 /\ honest' = honest
  BY <1>1 DEF Finish, peerVars
<1>4. CASE talk' = state /\ answers' = answers \o answer
  <2>1. answers' = WantedOf(w, h + 1)
    BY <1>1, <1>2, <1>4, WantedNext
  <2>2. h + 1 \in 0..(h + 1)
    OBVIOUS
  <2> QED
    BY <1>3, <2>1, <2>2 DEF AnswersInv
<1>5. CASE talk' = "ended" /\ answers' = answers
  <2>1. h \in 0..(h + 1)
    OBVIOUS
  <2> QED
    BY <1>2, <1>3, <1>5, <2>1 DEF AnswersInv
<1> QED
  BY <1>4, <1>5 DEF Finish

\* What a device wrote is what the session deals with.
LEMMA MessageIsWritten ==
    ASSUME TypeOK, InSync, handled \in Nat, handled < Len(got)
    PROVE  /\ Message = written[handled + 1]
           /\ Message \in Messages
           /\ TypeOf(got[handled + 1]) = CONNECT => Message.type = CONNECT
<1>1. PICK w \in Seq(Messages) : w = written
  BY DEF TypeOK
<1>2. PICK k \in Nat : k = Len(got) /\ k <= Len(w)
  BY <1>1 DEF TypeOK, InSync
<1>3. handled + 1 \in 1..k /\ handled + 1 \in 1..Len(w)
  BY <1>2
<1>4. Message = w[handled + 1]
  BY <1>1, <1>2, <1>3 DEF InSync, Message
<1>5. w[handled + 1] \in Messages
  BY <1>3, ElementOfSeq
<1>6. ASSUME TypeOf(got[handled + 1]) = CONNECT
      PROVE  Message.type = CONNECT
  <2>1. Message.type \in {CONNECT, PUBLISH, PINGREQ, DISCONNECT}
    BY <1>4, <1>5, MessageParts
  <2>2. Message = DecodeConnect(got[handled + 1].body)
    BY <1>6 DEF Message, Decode, CONNECT, PUBLISH, PINGREQ, DISCONNECT
  <2>3. Message.type \in {CONNECT, 0}
    BY <2>2, DecodedConnectType
  <2> QED
    BY <2>1, <2>3 DEF CONNECT, PUBLISH, PINGREQ, DISCONNECT
<1> QED
  BY <1>1, <1>4, <1>5, <1>6

\* Every step keeps the answers in the order of the messages.
LEMMA OrderStep ==
    ASSUME StreamInv, ToldInv, AnswersInv, [SessionNext]_allVars
    PROVE  AnswersInv'
<1>1. honest' = honest
  <2>1. \/ \E m \in Messages : Write(m)
        \/ HangUp
        \/ Receive
        \/ UNCHANGED <<peerVars, readVars>>
    BY SessionSteps
  <2> QED
    BY <2>1 DEF Write, HangUp, Receive, Read, ReadHeader, ReadLengthByte, ReadBody,
                ReadFails, Consume, peerVars
<1> SUFFICES ASSUME honest
             PROVE  AnswersInv'
  BY <1>1 DEF AnswersInv
<1>2. TypeOK /\ InSync
  BY DEF StreamInv
<1>3. PICK w \in Seq(Messages), h \in Nat, k \in Nat :
         w = written /\ h = handled /\ k = Len(got) /\ h <= k /\ k <= Len(w)
  <2>1. PICK w \in Seq(Messages) : w = written
    BY <1>2 DEF TypeOK
  <2>2. PICK k \in Nat : k = Len(got) /\ k <= Len(w)
    BY <1>2, <2>1 DEF TypeOK, InSync
  <2>3. handled \in Nat /\ handled <= k
    BY <2>2 DEF ToldInv
  <2> QED
    BY <2>1, <2>2, <2>3
<1>4. PICK m : m = written[h + 1]
  OBVIOUS
<1>5. ASSUME h < k
      PROVE  Message = m /\ m \in Messages
             /\ (TypeOf(got[handled + 1]) = CONNECT => m.type = CONNECT)
  BY <1>2, <1>3, <1>4, <1>5, MessageIsWritten
<1>6. CASE \E x \in Messages : Write(x) /\ UNCHANGED sessionVars
  <2>1. PICK x \in Messages : Write(x) /\ UNCHANGED sessionVars
    BY <1>6
  <2>2. PICK v : v = Append(w, x)
    OBVIOUS
  <2>3. \A i \in 1..Len(w) : v[i] = w[i]
    BY <2>2, AppendProperties
  <2>4. written' = v /\ handled' = h /\ answers' = answers /\ talk' = talk
    BY <1>3, <2>1, <2>2 DEF Write, sessionVars
  <2>5. PICK n \in 0..h : answers = WantedOf(w, n) /\ (talk # "ended" => n = h)
    BY <1>3 DEF AnswersInv
  <2>6. WantedOf(v, n) = WantedOf(w, n)
    <3>1. n \in Nat /\ \A i \in 1..n : i \in 1..Len(w)
      BY <1>3
    <3>2. \A i \in 1..n : v[i] = w[i]
      BY <2>3, <3>1
    <3> QED
      BY <3>1, <3>2, WantedSame
  <2> QED
    BY <1>3, <2>4, <2>5, <2>6 DEF AnswersInv
<1>7. CASE HangUp /\ UNCHANGED sessionVars
  BY <1>1, <1>3, <1>7, OrderNothing DEF HangUp, sessionVars
<1>8. CASE Receive
  BY <1>1, <1>3, <1>8, OrderNothing
     DEF Receive, Read, ReadHeader, ReadLengthByte, ReadBody, ReadFails, Consume, peerVars
<1>9. CASE RefuseConnect
  <2>1. h < k /\ TypeOf(got[handled + 1]) = CONNECT /\ Message.type # CONNECT
    BY <1>3, <1>9 DEF RefuseConnect, Due
  <2> QED
    BY <1>5, <2>1
<1>10. CASE AcceptConnect
  <2>1. /\ h < k /\ talk = "connecting" /\ Message.type = CONNECT
        /\ Finish("session", <<ConnAck(ConnAccepted)>>)
    BY <1>3, <1>10 DEF AcceptConnect, Due
  <2>2. <<ConnAck(ConnAccepted)>> = Wanted(written[handled + 1])
    BY <1>3, <1>4, <1>5, <2>1 DEF Wanted, CONNECT, PUBLISH, PINGREQ
  <2> QED
    BY <1>2, <1>3, <2>1, <2>2, OrderFinish
<1>11. CASE TakePublish
  <2>1. h < k /\ talk = "session" /\ Message.type = PUBLISH
    BY <1>3, <1>11 DEF TakePublish, Due
  <2>2. PICK a : a = IF Message.qos = 1 THEN <<PubAck(Message.packetID)>> ELSE <<>>
    OBVIOUS
  <2>3. Finish("session", a)
    BY <1>11, <2>2 DEF TakePublish
  <2>4. a = Wanted(written[handled + 1])
    BY <1>3, <1>4, <1>5, <2>1, <2>2 DEF Wanted, CONNECT, PUBLISH, PINGREQ
  <2> QED
    BY <1>2, <1>3, <2>1, <2>3, <2>4, OrderFinish
<1>12. CASE Ping
  <2>1. /\ h < k /\ talk = "session" /\ Message.type = PINGREQ
        /\ Finish("session", <<PingResp>>)
    BY <1>3, <1>12 DEF Ping, Due
  <2>2. <<PingResp>> = Wanted(written[handled + 1])
    BY <1>3, <1>4, <1>5, <2>1 DEF Wanted, CONNECT, PUBLISH, PINGREQ
  <2> QED
    BY <1>2, <1>3, <2>1, <2>2, OrderFinish
<1>13. CASE End
  <2>1. talk # "ended" /\ Finish("ended", <<>>)
    BY <1>13 DEF End, Due
  <2>2. answers = WantedOf(w, h) /\ answers \in Seq(Answers)
    BY <1>3, <2>1 DEF AnswersInv, ToldInv
  <2>3. answers \o <<>> = answers
    BY <2>2, ConcatEmptySeq
  <2>4. talk' = "ended" /\ answers' = answers /\ handled' = h + 1 /\ written' = w
    BY <1>3, <2>1, <2>3 DEF Finish, peerVars
  <2>5. h \in 0..(h + 1)
    OBVIOUS
  <2> QED
    BY <2>2, <2>4, <2>5 DEF AnswersInv
<1>14. CASE UNCHANGED allVars
  BY <1>1, <1>3, <1>14, OrderNothing DEF allVars, peerVars, sessionVars
<1> QED
  BY <1>6, <1>7, <1>8, <1>9, <1>10, <1>11, <1>12, <1>13, <1>14 DEF SessionNext

\* A device can match answers to its messages by their order alone.
THEOREM AnswersComeInOrder == SessionSpec => []AnswersInOrder
<1>1. SessionInit => StreamInv /\ ToldInv /\ AnswersInv
  BY StreamInit, ToldInit, OrderInit
<1>2. StreamInv /\ ToldInv /\ AnswersInv /\ [SessionNext]_allVars
        => (StreamInv /\ ToldInv /\ AnswersInv)'
  <2>1. StreamInv => TypeOK
    BY DEF StreamInv
  <2> QED
    BY <2>1, StreamStep, ToldStep, OrderStep
<1>3. AnswersInv => AnswersInOrder
  BY DEF AnswersInv, AnswersInOrder, WantedOf, WantedUpTo
<1> QED
  BY <1>1, <1>2, <1>3, PTL DEF SessionSpec
=============================================================================
