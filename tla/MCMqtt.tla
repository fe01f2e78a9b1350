-------------------------------- MODULE MCMqtt ---------------------------------
(***************************************************************************)
(* A small instance of MqttSession for TLC: digits of one bit, strings of  *)
(* up to 15 bytes and packets of up to 12.  There are topics that fill a   *)
(* packet exactly and topics whose length wraps around to 0.               *)
(***************************************************************************)
EXTENDS MqttSession

Times(n, b) == [i \in 1..n |-> b]

DevicePublishes(topics, ids) ==
    [type : {PUBLISH}, topic : topics, qos : {0}, packetID : {0}, payload : {<<>>, <<0, 2>>}]
      \union
    [type : {PUBLISH}, topic : topics, qos : {1}, packetID : ids, payload : {<<>>, <<0, 2>>}]

Name == <<77>>

DeviceMessages ==
    [type : {CONNECT}, id : {<<>>, <<1, 0, 3>>}, keepAlive : {770}]
      \union DevicePublishes({<<1>>, Times(8, 3), Times(10, 1), Times(16, 0)}, {0, 258})
      \union [type : {PINGREQ, DISCONNECT}]

OwnTopics == {<<1>>, Times(8, 3)}

\* The bytes of a CONNECT.
ConnectBytes(level, flags) == <<16, 3, 2, 2, 1, 0, 1, 77, level, flags, 0, 1, 0, 0>>

\* A good CONNECT, a header of each QoS and then any bytes; CONNECT with and
\* without credentials and of another level, followed by a ping; something else
\* first.
Strays ==
    {ConnectBytes(4, 2) \o <<header>> \o bytes :
        header \in {48, 50, 52}, bytes \in BoundedSeq(0..3, 5)}
      \union
    {ConnectBytes(level, flags) \o <<192, 0>> : level \in {3, 4}, flags \in {2, 66, 194}}
      \union
    {<<48, 1, 0>>, <<192, 0>>}
=============================================================================
