-------------------------------- MODULE Ingest ---------------------------------
(***************************************************************************)
(* The Ingest API of internal/ingest/server.go over the Telemetry DB:      *)
(* Serve with its accept loop, connection slots and wait group, and one    *)
(* goroutine per connection that runs handle and session.                  *)
(*                                                                         *)
(* A connection is dialled with a certificate, and the packets that come   *)
(* in on it are whatever its peer sends.  TLS itself, the framing and the  *)
(* text of a sample are left out: a packet is good or ends the session.    *)
(* A payload is the samples its JSON documents spell, one after another:   *)
(* the decoder of record stops after the first, and what follows is lost.  *)
(* PINGREQ changes nothing and is left out.  Of time only this is kept: a  *)
(* deadline may end a read, and must do so when the peer has gone quiet.   *)
(*                                                                         *)
(* The fleet is enrolled before Serve is called and stays as it is.        *)
(***************************************************************************)
EXTENDS TelemetryDB, FiniteSets

CONSTANTS
    Conns,        \* connections, each dialled at most once
    FleetOrg,     \* the fleet file: organisation of each enrolled device
    NoDevice,     \* no usable certificate
    Payloads,     \* what a PUBLISH may carry: non-empty sequences of samples
    MaxConns      \* 512 in the code

ASSUME IngestAssumption ==
    /\ DOMAIN FleetOrg \subseteq Devices
    /\ \A d \in DOMAIN FleetOrg : FleetOrg[d] \in Orgs
    /\ NoDevice \notin Devices
    /\ Payloads \subseteq Seq(Samples) \ {<<>>}
    /\ IsFiniteSet(Conns)
    /\ MaxConns \in Int

VARIABLES
    phase,     \* of Serve: "serving", "draining", "returned"
    done,      \* the context of Serve is done
    listening, \* the listener is open
    conn,      \* where each connection stands
    cert,      \* the device its certificate names
    quiet,     \* connections whose peer will send nothing more
    slots,     \* connections that hold a slot
    wg,        \* count of the wait group
    pending,   \* the payload whose PUBACK is still to be written
    acked      \* <<device, payload>> pairs that were acknowledged

loopVars  == <<phase, done, listening>>
serveVars == <<loopVars, conn, cert, quiet, slots, wg, pending, acked>>
allVars   == <<dbVars, serveVars>>

\* "backlog": dialled, not accepted; "closing": handle has returned;
\* "releasing": the socket is closed; "leaving": the slot is free.
ConnStates == {"new", "backlog", "handshake", "connecting", "session", "acking",
               "closing", "releasing", "leaving", "closed"}

\* What each device reports carries its name.
OwnSample(d, sample) == sample.by = d

OwnPayload(d, payload) == \A i \in 1..Len(payload) : OwnSample(d, payload[i])

IngestInit ==
    /\ devices = [d \in Devices |->
                    IF d \in DOMAIN FleetOrg
                    THEN [org |-> FleetOrg[d], seen |-> FALSE] ELSE Unknown]
    /\ readings = [d \in Devices |-> <<>>]
    /\ history = [d \in Devices |-> <<>>]
    /\ phase = "serving"
    /\ done = FALSE
    /\ listening = TRUE
    /\ conn = [c \in Conns |-> "new"]
    /\ cert = [c \in Conns |-> NoDevice]
    /\ quiet = {}
    /\ slots = {}
    /\ wg = 0
    /\ pending = [c \in Conns |-> <<>>]
    /\ acked = {}

Goto(c, state) == conn' = [conn EXCEPT ![c] = state]

-----------------------------------------------------------------------------
(* The peers (external). *)

\* An open listener takes connections, whether or not anyone accepts them.
Dial(c, id) ==
    /\ listening
    /\ conn[c] = "new"
    /\ cert' = [cert EXCEPT ![c] = id]
    /\ Goto(c, "backlog")
    /\ UNCHANGED <<dbVars, loopVars, quiet, slots, wg, pending, acked>>

\* The peer falls silent for good, without closing.
GoQuiet(c) ==
    /\ conn[c] \in {"backlog", "handshake", "connecting", "session"}
    /\ c \notin quiet
    /\ quiet' = quiet \union {c}
    /\ UNCHANGED <<dbVars, loopVars, conn, cert, slots, wg, pending, acked>>

-----------------------------------------------------------------------------
(* The accept loop. *)

\* slots has room for at least one connection.
Capacity == IF MaxConns > 1 THEN MaxConns ELSE 1

\* Mutant: one connection more than there are slots.
HasSlotOrEqual == Cardinality(slots) <= Capacity

HasSlot == Cardinality(slots) < Capacity

AcceptConn(c) ==
    /\ phase = "serving"
    /\ conn[c] = "backlog"
    /\ HasSlot
    /\ slots' = slots \union {c}
    /\ wg' = wg + 1
    /\ Goto(c, "handshake")
    /\ UNCHANGED <<dbVars, loopVars, cert, quiet, pending, acked>>

\* At capacity the connection is closed at once, with no slot and no goroutine.
Shed(c) ==
    /\ phase = "serving"
    /\ conn[c] = "backlog"
    /\ ~HasSlot
    /\ Goto(c, "closed")
    /\ UNCHANGED <<dbVars, loopVars, cert, quiet, slots, wg, pending, acked>>

Cancel ==
    /\ ~done
    /\ done' = TRUE
    /\ UNCHANGED <<dbVars, phase, listening, conn, cert, quiet, slots, wg, pending, acked>>

\* Mutant: without the deferred cancel.
AcceptFailsUncancelled ==
    /\ phase = "serving"
    /\ phase' = "draining"
    /\ UNCHANGED <<dbVars, done, listening, conn, cert, quiet, slots, wg, pending, acked>>

\* Accept fails, because the listener was closed or by itself: the loop ends
\* and its deferred cancel runs.  The listener may well be open still.
AcceptFails ==
    /\ phase = "serving"
    /\ phase' = "draining"
    /\ done' = TRUE
    /\ UNCHANGED <<dbVars, listening, conn, cert, quiet, slots, wg, pending, acked>>

\* The goroutine that waits for the context, which no one waits for, closes the
\* listener, and whoever is in its backlog is turned away.  After Serve has
\* returned it may be the deferred Close of cmd/ingest, or the exit, instead.
CloseListener ==
    /\ done
    /\ listening
    /\ listening' = FALSE
    /\ conn' = [c \in Conns |-> IF conn[c] = "backlog" THEN "closed" ELSE conn[c]]
    /\ UNCHANGED <<dbVars, phase, done, cert, quiet, slots, wg, pending, acked>>

\* Mutant: without the deferred wg.Wait.
ReturnWithoutWaiting ==
    /\ phase = "draining"
    /\ phase' = "returned"
    /\ UNCHANGED <<dbVars, done, listening, conn, cert, quiet, slots, wg, pending, acked>>

Return ==
    /\ phase = "draining"
    /\ wg = 0
    /\ phase' = "returned"
    /\ UNCHANGED <<dbVars, done, listening, conn, cert, quiet, slots, wg, pending, acked>>

-----------------------------------------------------------------------------
(* handle and session. *)

Shake(c) ==
    /\ conn[c] = "handshake"
    /\ c \notin quiet
    /\ cert[c] # NoDevice
    /\ Goto(c, IF Enrolled(cert[c]) THEN "connecting" ELSE "closing")
    /\ UNCHANGED <<dbVars, loopVars, cert, quiet, slots, wg, pending, acked>>

\* A good CONNECT is answered and opens the session.
Connect(c) ==
    /\ conn[c] = "connecting"
    /\ c \notin quiet
    /\ Goto(c, "session")
    /\ UNCHANGED <<dbVars, loopVars, cert, quiet, slots, wg, pending, acked>>

OwnTopic(c, topic) == topic = cert[c]

\* record takes the first document of the payload; the device's clock is its own.
Recorded(payload) == Head(payload)

\* After a PUBLISH has been recorded: at QoS 1 a PUBACK is due.
Acknowledge(c, payload, qos) ==
    IF qos = 1
    THEN /\ pending' = [pending EXCEPT ![c] = payload]
         /\ Goto(c, "acking")
    ELSE UNCHANGED <<pending, conn>>

\* Mutant: the sample is recorded for the device the topic names.
PublishByTopic(c, topic, payload, qos) ==
    /\ conn[c] = "session"
    /\ c \notin quiet
    /\ RecordReading(topic, Recorded(payload))
    /\ Acknowledge(c, payload, qos)
    /\ UNCHANGED <<loopVars, cert, quiet, slots, wg, acked>>

\* Mutant: an error of record is logged, and the PUBACK sent all the same.
PublishUnrecorded(c, topic, payload, qos) ==
    /\ conn[c] = "session"
    /\ c \notin quiet
    /\ OwnTopic(c, topic)
    /\ RecordReading(cert[c], Recorded(payload)) \/ UNCHANGED dbVars
    /\ Acknowledge(c, payload, qos)
    /\ UNCHANGED <<loopVars, cert, quiet, slots, wg, acked>>

\* A PUBLISH of a good sample to the peer's own topic is recorded for the
\* device of the certificate.
Publish(c, topic, payload, qos) ==
    /\ conn[c] = "session"
    /\ c \notin quiet
    /\ OwnTopic(c, topic)
    /\ RecordReading(cert[c], Recorded(payload))
    /\ Acknowledge(c, payload, qos)
    /\ UNCHANGED <<loopVars, cert, quiet, slots, wg, acked>>

PubAck(c) ==
    /\ conn[c] = "acking"
    /\ acked' = acked \union {<<cert[c], pending[c]>>}
    /\ pending' = [pending EXCEPT ![c] = <<>>]
    /\ Goto(c, "session")
    /\ UNCHANGED <<dbVars, loopVars, cert, quiet, slots, wg>>

\* handle returns: handshake refused, bad or unexpected packet, foreign topic,
\* bad sample, DISCONNECT, end of stream or failed write.
End(c) ==
    /\ conn[c] \in {"handshake", "connecting", "session", "acking"}
    /\ Goto(c, "closing")
    /\ pending' = [pending EXCEPT ![c] = <<>>]
    /\ UNCHANGED <<dbVars, loopVars, cert, quiet, slots, wg, acked>>

\* Mutant: the first deadline is set after the CONNECT.
OverdueInSession(c) == conn[c] = "session" /\ c \in quiet

\* The handshake and the CONNECT each have to be complete in time; in a session
\* the deadline starts anew with every packet, and only a quiet peer meets it.
Overdue(c) ==
    \/ conn[c] \in {"handshake", "connecting"}
    \/ conn[c] = "session" /\ c \in quiet

Deadline(c) == Overdue(c) /\ End(c)

\* The deferred calls, last first: conn.Close, the slot, wg.Done.
CloseConn(c) ==
    /\ conn[c] = "closing"
    /\ Goto(c, "releasing")
    /\ UNCHANGED <<dbVars, loopVars, cert, quiet, slots, wg, pending, acked>>

ReleaseSlot(c) ==
    /\ conn[c] = "releasing"
    /\ slots' = slots \ {c}
    /\ Goto(c, "leaving")
    /\ UNCHANGED <<dbVars, loopVars, cert, quiet, wg, pending, acked>>

\* Mutant: wg.Done is deferred twice.
DoneTwice(c) ==
    /\ conn[c] = "leaving"
    /\ wg' = wg - 2
    /\ Goto(c, "closed")
    /\ UNCHANGED <<dbVars, loopVars, cert, quiet, slots, pending, acked>>

Done(c) ==
    /\ conn[c] = "leaving"
    /\ wg' = wg - 1
    /\ Goto(c, "closed")
    /\ UNCHANGED <<dbVars, loopVars, cert, quiet, slots, pending, acked>>

-----------------------------------------------------------------------------

Leave(c) == CloseConn(c) \/ ReleaseSlot(c) \/ Done(c)

IngestNext ==
    \/ \E c \in Conns :
          \/ \E id \in Devices \union {NoDevice} : Dial(c, id)
          \/ GoQuiet(c)
          \/ AcceptConn(c)
          \/ Shed(c)
          \/ Shake(c)
          \/ Connect(c)
          \/ \E topic \in Devices, payload \in Payloads, qos \in {0, 1} :
                OwnPayload(cert[c], payload) /\ Publish(c, topic, payload, qos)
          \/ PubAck(c)
          \/ End(c)
          \/ Leave(c)
    \/ Cancel
    \/ AcceptFails
    \/ CloseListener
    \/ Return

\* A goroutine that can run does run, that which closes the listener included,
\* deadlines fire, and Accept fails on a closed listener; peers do what they like.
IngestFairness ==
    /\ \A c \in Conns :
          /\ WF_allVars(Deadline(c))
          /\ WF_allVars(Leave(c))
          /\ WF_allVars(conn[c] = "acking" /\ (PubAck(c) \/ End(c)))
    /\ WF_allVars(~listening /\ AcceptFails)
    /\ WF_allVars(CloseListener)
    /\ WF_allVars(Return)

IngestSpec == IngestInit /\ [][IngestNext]_allVars /\ IngestFairness

-----------------------------------------------------------------------------
(* Properties. *)

\* Every variable keeps its type; the wait group never goes below zero, where
\* it would panic.
IngestTypeOK ==
    /\ TypeOK
    /\ phase \in {"serving", "draining", "returned"}
    /\ done \in BOOLEAN
    /\ listening \in BOOLEAN
    /\ conn \in [Conns -> ConnStates]
    /\ cert \in [Conns -> Devices \union {NoDevice}]
    /\ quiet \subseteq Conns
    /\ slots \subseteq Conns
    /\ wg \in 0..Cardinality(Conns)
    /\ pending \in [Conns -> {<<>>} \union Payloads]
    /\ acked \subseteq Devices \X Payloads

Open == {c \in Conns : conn[c] \in {"handshake", "connecting", "session",
                                    "acking", "closing"}}

\* However accepts, hang-ups and deferred calls interleave, no more connections
\* are open than there are slots, and each open one holds a slot.
OpenWithinCapacity ==
    /\ Open \subseteq slots
    /\ Cardinality(slots) <= Capacity

\* Of what a device is acknowledged, the first sample is recorded for it, and is
\* shown to its organisation until the cap's worth of newer ones replaced it.
AckedIsRecorded ==
    \A a \in acked :
        LET d    == a[1]
            h    == history[d]
            rows == Readings(devices[d].org, d, 0)
        IN  \E i \in 1..Len(h) :
                /\ h[i] = Head(a[2])
                /\ Len(h) - i < MaxReadingsPerDevice =>
                      rows[Len(h) - i + 1] = Head(a[2])

\* What is recorded of a device was sent by the device: its name is on it.
NobodySpeaksForAnother ==
    \A d \in Devices : \A i \in 1..Len(history[d]) : OwnSample(d, history[d][i])

\* When Serve returns, no goroutine of it is left to write to the store and no
\* connection that it accepted is open.  What may be left are connections that
\* nobody accepted, until the listener is closed, which Serve does not wait for.
NothingLeftAfterReturn ==
    phase = "returned" =>
        /\ slots = {}
        /\ \A c \in Conns :
              \/ conn[c] \in {"new", "closed"}
              \/ conn[c] = "backlog" /\ listening

\* Those whom nobody will accept any more are let go, however the loop ended: a
\* device does not hang on a listener without a loop.
WaitersAreLetGo ==
    \A c \in Conns : phase # "serving" /\ conn[c] = "backlog" ~> conn[c] = "closed"

\* Serve returns after a cancellation or a failed Accept if every peer in a
\* session at last goes quiet or leaves; a session does not watch the context,
\* so a peer that keeps talking holds the process.
StopsOncePeersAreQuiet ==
    (\A c \in Conns : <>[](conn[c] = "session" => c \in quiet))
        => (done \/ phase = "draining" ~> phase = "returned")
=============================================================================
