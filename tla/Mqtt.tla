--------------------------------- MODULE Mqtt ----------------------------------
(***************************************************************************)
(* The framing of internal/mqtt/packet.go: a device writes its CONNECT and *)
(* its publishes, the bytes travel, and the server reads one packet after  *)
(* the other and decodes its body.                                         *)
(*                                                                         *)
(* A byte is a number.  The radix of a digit of the remaining length, the  *)
(* number of lengths a string's prefix tells apart and the limit of a      *)
(* packet are constants, so that small messages reach the limits.  A stray *)
(* is a peer that sends what it likes.  What the server answers is in      *)
(* MqttSession.                                                            *)
(***************************************************************************)
EXTENDS Integers, Sequences

CONSTANTS
    Radix,            \* 128 in the code
    StringSpan,       \* 65536 in the code: a string's length is cut to 16 bits
    MaxPacketSize,    \* 65536 in the code
    ProtocolName,     \* the bytes of "MQTT" in the code
    Messages,         \* what a device may want to send
    StrayStreams,     \* what a stray may send
    MaxWrites         \* bound of the model: messages a device sends

CONNECT    == 1
PUBLISH    == 3
PINGREQ    == 12
DISCONNECT == 14
ProtocolLevel4 == 4

Byte   == {n \in Nat : n < 256}
Uint16 == {n \in Nat : n < 65536}

\* The messages a device has the types for.  At QoS 0 there is no identifier.
Connect == [type : {CONNECT}, id : Seq(Byte), keepAlive : Uint16]

Publish ==
    [type : {PUBLISH}, topic : Seq(Byte), qos : {0}, packetID : {0}, payload : Seq(Byte)]
      \union
    [type : {PUBLISH}, topic : Seq(Byte), qos : {1}, packetID : Uint16, payload : Seq(Byte)]

Bodiless == [type : {PINGREQ, DISCONNECT}]

\* The weight of a digit of the remaining length, the first being the least.
Weight == <<1, Radix, Radix * Radix, Radix * Radix * Radix>>

\* The remaining length of the largest packet fits its four digits, and a
\* string too long for its prefix makes a packet larger than the largest.
ASSUME MqttAssumption ==
    /\ Radix \in 2..128
    /\ StringSpan \in 1..65536
    /\ MaxPacketSize \in 0..(Radix * Weight[4] - 1)
    /\ MaxPacketSize <= StringSpan + 1
    /\ MaxWrites \in Nat
    /\ ProtocolName \in Seq(Byte)
    /\ Messages \subseteq Connect \union Publish \union Bodiless
    /\ StrayStreams \subseteq Seq(Byte)

VARIABLES
    honest,     \* whether the peer is a device that uses this package
    written,    \* the messages Write has taken
    stream,     \* the bytes on their way
    open,       \* whether more may come
    at,         \* of the server: "header", "length", "body", "failed"
    partial,    \* what it has read of a packet: header, length, digits
    got         \* the packets it has read

peerVars == <<honest, written, stream, open>>
readVars == <<at, partial, got>>

-----------------------------------------------------------------------------
(* Encoding. *)

AppendVarint[n \in Nat] ==
    IF n < Radix THEN <<n>>
    ELSE <<Radix + (n % Radix)>> \o AppendVarint[n \div Radix]

AppendUint16(n) == <<n \div 256, n % 256>>

\* The length of a string of StringSpan bytes or more wraps around.
EncodeString(s) == AppendUint16(Len(s) % StringSpan) \o s

EncodeConnect(c) ==
    EncodeString(ProtocolName) \o <<ProtocolLevel4, 2>> \o AppendUint16(c.keepAlive)
        \o EncodeString(c.id)

EncodePublish(p) ==
    EncodeString(p.topic)
        \o (IF p.qos > 0 THEN AppendUint16(p.packetID) ELSE <<>>) \o p.payload

Body(m) == CASE m.type = CONNECT -> EncodeConnect(m)
             [] m.type = PUBLISH -> EncodePublish(m)
             [] OTHER            -> <<>>

Flags(m) == IF m.type = PUBLISH THEN (m.qos % 4) * 2 ELSE 0

Header(m) == (m.type * 16) + (Flags(m) % 16)

Frame(m) == <<Header(m)>> \o AppendVarint[Len(Body(m))] \o Body(m)

-----------------------------------------------------------------------------
(* Decoding.  A body that cannot be decoded gives the error. *)

Malformed  == [type |-> 0, error |-> "malformed"]
CredsInCon == [type |-> 0, error |-> "credentials"]

ToNumber(b) == b[1] * 256 + b[2]

From(b, i) == SubSeq(b, i, Len(b))

\* Mutant: the string's last byte must not be the body's.
StartsWithStringAndMore(b) == Len(b) >= 2 /\ Len(b) > 2 + ToNumber(b)

StartsWithString(b) == Len(b) >= 2 /\ Len(b) >= 2 + ToNumber(b)

StringOf(b) == SubSeq(b, 3, 2 + ToNumber(b))
AfterString(b) == From(b, 3 + ToNumber(b))

\* user name and password are the two high bits of the flags.
HasCredentials(flags) == flags \div 64 # 0

ConnectOf(rest) ==
    IF Len(rest) < 4 \/ rest[1] # ProtocolLevel4 THEN Malformed
    ELSE IF HasCredentials(rest[2]) THEN CredsInCon
    ELSE IF ~StartsWithString(From(rest, 5)) THEN Malformed
    ELSE [type |-> CONNECT, id |-> StringOf(From(rest, 5)),
          keepAlive |-> ToNumber(From(rest, 3))]

DecodeConnect(body) ==
    IF StartsWithString(body) /\ StringOf(body) = ProtocolName
    THEN ConnectOf(AfterString(body)) ELSE Malformed

\* Mutant: the packet identifier stays in the payload.
PublishWithIdInPayload(topic, qos, rest) ==
    IF qos > 0 /\ Len(rest) < 2 THEN Malformed
    ELSE [type |-> PUBLISH, topic |-> topic, qos |-> qos,
          packetID |-> IF qos > 0 THEN ToNumber(rest) ELSE 0, payload |-> rest]

PublishOf(topic, qos, rest) ==
    IF qos = 0
    THEN [type |-> PUBLISH, topic |-> topic, qos |-> 0, packetID |-> 0, payload |-> rest]
    ELSE IF Len(rest) < 2 THEN Malformed
    ELSE [type |-> PUBLISH, topic |-> topic, qos |-> qos,
          packetID |-> ToNumber(rest), payload |-> From(rest, 3)]

DecodePublish(flags, body) ==
    LET qos == (flags \div 2) % 4
    IN  IF qos <= 1 /\ StartsWithString(body)
        THEN PublishOf(StringOf(body), qos, AfterString(body)) ELSE Malformed

TypeOf(packet) == packet.header \div 16

\* Of a type without a body, body and flags are not looked at.
Decode(packet) ==
    CASE TypeOf(packet) = CONNECT -> DecodeConnect(packet.body)
      [] TypeOf(packet) = PUBLISH -> DecodePublish(packet.header % 16, packet.body)
      [] TypeOf(packet) \in {PINGREQ, DISCONNECT} -> [type |-> TypeOf(packet)]
      [] OTHER -> Malformed

-----------------------------------------------------------------------------

NoPartial == [header |-> 0, length |-> 0, digits |-> 0]

Init ==
    /\ honest \in BOOLEAN
    /\ written = <<>>
    /\ stream \in IF honest THEN {<<>>} ELSE StrayStreams
    /\ open = honest
    /\ at = "header"
    /\ partial = NoPartial
    /\ got = <<>>

(* The device. *)

\* Mutant: Write lets out what is too large.
Fits(m) == TRUE

Writable(m) == Len(Body(m)) <= MaxPacketSize

\* CONNECT comes first; what is too large is refused with ErrTooLarge.
Write(m) ==
    /\ honest /\ open
    /\ Len(written) < MaxWrites
    /\ m.type = CONNECT <=> written = <<>>
    /\ Writable(m)
    /\ written' = Append(written, m)
    /\ stream' = stream \o Frame(m)
    /\ UNCHANGED <<honest, open, readVars>>

\* The connection ends, and of what was under way only a part arrives.
HangUp ==
    /\ open
    /\ open' = FALSE
    /\ \E n \in 0..Len(stream) : stream' = SubSeq(stream, 1, n)
    /\ UNCHANGED <<honest, written, readVars>>

(* The server. *)

Consume(n) ==
    /\ Len(stream) >= n
    /\ stream' = From(stream, n + 1)
    /\ UNCHANGED <<honest, written, open>>

ReadHeader ==
    /\ at = "header"
    /\ Consume(1)
    /\ partial' = [NoPartial EXCEPT !.header = Head(stream)]
    /\ at' = "length"
    /\ UNCHANGED got

\* Mutant: the limit is not applied.
NeverTooLarge(n) == FALSE

TooLarge(n) == n > MaxPacketSize

ReadLengthByte ==
    /\ at = "length"
    /\ Consume(1)
    /\ LET digit  == Head(stream) % Radix
           more   == (Head(stream) \div Radix) % 2 = 1
           length == partial.length + digit * Weight[partial.digits + 1]
           digits == partial.digits + 1
       IN  /\ partial' = [partial EXCEPT !.length = length, !.digits = digits]
           /\ at' = CASE more /\ digits < 4           -> "length"
                      [] more /\ digits = 4           -> "failed"
                      [] ~more /\ TooLarge(length)    -> "failed"
                      [] ~more /\ ~TooLarge(length)   -> "body"
    /\ UNCHANGED got

ReadBody ==
    /\ at = "body"
    /\ Consume(partial.length)
    /\ got' = Append(got, [header |-> partial.header,
                           body |-> SubSeq(stream, 1, partial.length)])
    /\ partial' = NoPartial
    /\ at' = "header"

\* The stream has ended before what is to be read.
ReadFails ==
    /\ ~open
    /\ at \in {"header", "length", "body"}
    /\ Len(stream) < IF at = "body" THEN partial.length ELSE 1
    /\ at' = "failed"
    /\ UNCHANGED <<peerVars, partial, got>>

Read == ReadHeader \/ ReadLengthByte \/ ReadBody \/ ReadFails

-----------------------------------------------------------------------------
(* Properties. *)

\* Every variable keeps its type, and no buffer exceeds the limit.
TypeOK ==
    /\ honest \in BOOLEAN
    /\ open \in BOOLEAN
    /\ written \in Seq(Messages)
    /\ stream \in Seq(Byte)
    /\ at \in {"header", "length", "body", "failed"}
    /\ partial \in [header : Byte, length : Nat, digits : 0..4]
    /\ at = "length" => partial.digits < 4
    /\ at = "body" => partial.length <= MaxPacketSize
    /\ got \in Seq([header : Byte, body : Seq(Byte)])
    /\ \A i \in 1..Len(got) : Len(got[i].body) <= MaxPacketSize

\* What the server decodes is, message by message, what the device wrote:
\* wherever bytes are cut off, no packet is taken for another or for a part of
\* one, and no string or identifier loses or gains a byte.
InStep ==
    honest =>
        /\ Len(got) <= Len(written)
        /\ \A i \in 1..Len(got) : Decode(got[i]) = written[i]

\* Nothing that Write lets out is refused by Read, up to the largest packet: as
\* long as the connection is up, a device's stream does not fail.
WrittenIsReadable == honest /\ open => at # "failed"

\* A publish that decodes, whoever sent it, is all of its body: encoding it
\* again gives every byte back.
DecodedIsWhole ==
    \A i \in 1..Len(got) :
        LET m == Decode(got[i])
        IN  m.type = PUBLISH => EncodePublish(m) = got[i].body
=============================================================================
