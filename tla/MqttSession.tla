------------------------------- MODULE MqttSession ------------------------------
(***************************************************************************)
(* A device's conversation with the server, over the bytes of Mqtt: the    *)
(* session of internal/ingest/server.go reads a packet, deals with it and  *)
(* answers it before it reads the next.                                    *)
(*                                                                         *)
(* The text of a payload is left out: record may refuse any.  Answers are  *)
(* as Read gives them to the device.  Slots, deadlines and the store are   *)
(* in Ingest.                                                              *)
(***************************************************************************)
EXTENDS Mqtt, SequencesExt

CONSTANT Topics    \* topics of devices

VARIABLES
    topic,      \* the topic of the device that the certificate names
    talk,       \* "connecting", "session", "ended"
    handled,    \* packets the session has dealt with
    answers     \* packets it has written

sessionVars == <<topic, talk, handled, answers>>
allVars     == <<peerVars, readVars, sessionVars>>

CONNACK  == 2
PUBACK   == 4
PINGRESP == 13

ConnAccepted           == 0
ConnRefusedBadProtocol == 1
ConnRefusedNotAuthed   == 5

Packet(type, body) == [header |-> type * 16, body |-> body]

ConnAck(code) == Packet(CONNACK, <<0, code>>)
PubAck(id)    == Packet(PUBACK, AppendUint16(id))
PingResp      == Packet(PINGRESP, <<>>)

\* The return code of a CONNACK, -1 for any other packet.
ReadConnAck(packet) ==
    IF TypeOf(packet) = CONNACK /\ Len(packet.body) = 2 THEN packet.body[2] ELSE -1

SessionInit ==
    /\ Init
    /\ topic \in Topics
    /\ talk = "connecting"
    /\ handled = 0
    /\ answers = <<>>

-----------------------------------------------------------------------------

Receive ==
    /\ talk # "ended"
    /\ handled = Len(got)
    /\ Read
    /\ talk' = IF at' = "failed" THEN "ended" ELSE talk
    /\ UNCHANGED <<topic, handled, answers>>

\* The packet is dealt with; an answer that cannot be written ends the session.
Finish(state, answer) ==
    /\ handled' = handled + 1
    /\ \/ talk' = state /\ answers' = answers \o answer
       \/ ~open /\ answer # <<>> /\ talk' = "ended" /\ answers' = answers
    /\ UNCHANGED <<peerVars, readVars, topic>>

\* The packet to deal with, decoded.
Message == Decode(got[handled + 1])

Due(state) == talk = state /\ handled < Len(got)

\* Mutant: a CONNECT that is refused is answered, and the session goes on.
RefuseConnectOnly ==
    /\ Due("connecting")
    /\ TypeOf(got[handled + 1]) = CONNECT
    /\ Message.type # CONNECT
    /\ Finish("session",
              <<ConnAck(IF Message = CredsInCon THEN ConnRefusedNotAuthed
                        ELSE ConnRefusedBadProtocol)>>)

RefuseConnect ==
    /\ Due("connecting")
    /\ TypeOf(got[handled + 1]) = CONNECT
    /\ Message.type # CONNECT
    /\ Finish("ended",
              <<ConnAck(IF Message = CredsInCon THEN ConnRefusedNotAuthed
                        ELSE ConnRefusedBadProtocol)>>)

AcceptConnect ==
    /\ Due("connecting")
    /\ Message.type = CONNECT
    /\ Finish("session", <<ConnAck(ConnAccepted)>>)

\* Mutant: every PUBLISH is acknowledged.
AcknowledgeAny ==
    /\ Due("session")
    /\ Message.type = PUBLISH
    /\ Message.topic = topic
    /\ Finish("session", <<PubAck(Message.packetID)>>)

\* A sample for the device's own topic is recorded, and acknowledged at QoS 1.
TakePublish ==
    /\ Due("session")
    /\ Message.type = PUBLISH
    /\ Message.topic = topic
    /\ Finish("session", IF Message.qos = 1 THEN <<PubAck(Message.packetID)>> ELSE <<>>)

Ping ==
    /\ Due("session")
    /\ Message.type = PINGREQ
    /\ Finish("session", <<PingResp>>)

\* Anything else ends the session: a first packet that is no CONNECT, a foreign
\* topic, a sample that record refuses, DISCONNECT, what cannot be decoded, and
\* what a device does not send.
End ==
    /\ \/ Due("connecting") /\ TypeOf(got[handled + 1]) # CONNECT
       \/ Due("session") /\ Message.type # PINGREQ
    /\ Finish("ended", <<>>)

SessionNext ==
    \/ (\E m \in Messages : Write(m)) /\ UNCHANGED sessionVars
    \/ HangUp /\ UNCHANGED sessionVars
    \/ Receive
    \/ RefuseConnect
    \/ AcceptConnect
    \/ TakePublish
    \/ Ping
    \/ End

SessionSpec == SessionInit /\ [][SessionNext]_allVars

-----------------------------------------------------------------------------
(* Properties. *)

Wanted(m) ==
    CASE m.type = CONNECT -> <<ConnAck(ConnAccepted)>>
      [] m.type = PUBLISH /\ m.qos = 1 -> <<PubAck(m.packetID)>>
      [] m.type = PINGREQ -> <<PingResp>>
      [] OTHER -> <<>>

\* The answers that the device waits for after its first n messages.
WantedUpTo(n) == FlattenSeq([i \in 1..n |-> Wanted(written[i])])

\* A device can match answers to its messages by their order alone: they are the
\* answers to the messages it has written, in the order it wrote them, each with
\* the identifier of its own publish, and none is left out while it is open.
AnswersInOrder ==
    honest =>
        \E n \in 0..handled :
            answers = WantedUpTo(n) /\ (talk # "ended" => n = handled)

\* Whatever a peer sends, it is told once whether its CONNECT was taken, before
\* anything else, and one that was refused is told nothing more.
ToldOnce ==
    \A i \in 1..Len(answers) :
        /\ ReadConnAck(answers[i]) >= 0 <=> i = 1
        /\ ReadConnAck(answers[i]) > 0 => Len(answers) = 1 /\ talk = "ended"
=============================================================================
