------------------------------ MODULE IngestProofs ------------------------------
(***************************************************************************)
(* The Ingest API for any number of devices, connections and slots, and    *)
(* any payloads.                                                           *)
(*                                                                         *)
(* Two invariants, each inductive with the types alone.  Conduct says that *)
(* slots and wg are determined by where the connections stand and that     *)
(* none waits at a closed listener; Records says that a payload waiting    *)
(* for its PUBACK has been recorded already.                               *)
(***************************************************************************)
EXTENDS Ingest, TelemetryProofs, FiniteSetTheorems

InState(states) == {c \in Conns : conn[c] \in states}

\* A connection that holds a slot, and one that the wait group counts.
Holding == {"handshake", "connecting", "session", "acking", "closing", "releasing"}
Counted == Holding \union {"leaving"}

\* The types that do not depend on the protocol.
Types ==
    /\ phase \in {"serving", "draining", "returned"}
    /\ done \in BOOLEAN
    /\ listening \in BOOLEAN
    /\ conn \in [Conns -> ConnStates]
    /\ cert \in [Conns -> Devices \union {NoDevice}]
    /\ quiet \subseteq Conns
    /\ pending \in [Conns -> {<<>>} \union Payloads]

Conduct ==
    /\ slots = InState(Holding)
    /\ Cardinality(slots) <= Capacity
    /\ wg = Cardinality(InState(Counted))
    /\ ~listening => InState({"backlog"}) = {}
    /\ phase = "returned" => InState(Counted) = {}

InHistory(d, sample) == \E i \in 1..Len(history[d]) : history[d][i] = sample

Records ==
    /\ DBInv
    /\ acked \subseteq Devices \X Payloads
    /\ \A c \in Conns : conn[c] \in {"connecting", "session", "acking"} => cert[c] \in Devices
    /\ \A c \in Conns : conn[c] = "acking" =>
          pending[c] \in Payloads /\ InHistory(cert[c], Head(pending[c]))
    /\ \A a \in acked : InHistory(a[1], Head(a[2]))
    /\ NobodySpeaksForAnother

-----------------------------------------------------------------------------
(* Types. *)

\* The types hold in every reachable state.
LEMMA TypesInvariant == IngestSpec => []Types
<1>1. IngestInit => Types
  BY DEF IngestInit, Types, ConnStates
<1>2. Types /\ [IngestNext]_allVars => Types'
  <2> SUFFICES ASSUME Types, [IngestNext]_allVars PROVE Types'
    OBVIOUS
  <2> USE DEF Types, ConnStates, Goto, loopVars
  <2>1. ASSUME NEW c \in Conns, NEW id \in Devices \union {NoDevice}, Dial(c, id)
        PROVE  Types'
    BY <2>1 DEF Dial
  <2>2. ASSUME NEW c \in Conns,
               GoQuiet(c) \/ AcceptConn(c) \/ Shed(c) \/ Shake(c) \/ Connect(c)
        PROVE  Types'
    BY <2>2 DEF GoQuiet, AcceptConn, Shed, Shake, Connect
  <2>3. ASSUME NEW c \in Conns, NEW topic \in Devices, NEW payload \in Payloads,
               NEW qos \in {0, 1}, Publish(c, topic, payload, qos)
        PROVE  Types'
    BY <2>3 DEF Publish, Acknowledge
  <2>4. ASSUME NEW c \in Conns, PubAck(c) \/ End(c) \/ Leave(c)
        PROVE  Types'
    BY <2>4 DEF PubAck, End, Leave, CloseConn, ReleaseSlot, Done
  <2>5. ASSUME Cancel \/ AcceptFails \/ CloseListener \/ Return
        PROVE  Types'
    <3>1. CASE CloseListener
      BY <3>1 DEF CloseListener
    <3> QED
      BY <2>5, <3>1 DEF Cancel, AcceptFails, Return
  <2>6. CASE UNCHANGED allVars
    BY <2>6 DEF allVars, serveVars, loopVars
  <2> QED
    BY <2>1, <2>2, <2>3, <2>4, <2>5, <2>6 DEF IngestNext
<1> QED
  BY <1>1, <1>2, PTL DEF IngestSpec

-----------------------------------------------------------------------------
(* Slots and wait group. *)

\* A connection's move puts it into some classes of states and out of others.
LEMMA MoveOfOne ==
    ASSUME Types, NEW c \in Conns, NEW state, Goto(c, state), NEW states
    PROVE  InState(states)' = IF state \in states THEN InState(states) \union {c}
                              ELSE InState(states) \ {c}
BY DEF Types, Goto, InState

\* Every class of connections is finite.
LEMMA ClassesAreFinite ==
    ASSUME NEW states
    PROVE  /\ IsFiniteSet(InState(states))
           /\ Cardinality(InState(states)) \in 0..Cardinality(Conns)
<1>1. InState(states) \subseteq Conns /\ IsFiniteSet(Conns)
  BY IngestAssumption DEF InState
<1>2. /\ IsFiniteSet(InState(states))
      /\ Cardinality(InState(states)) <= Cardinality(Conns)
  BY <1>1, FS_Subset
<1>3. Cardinality(InState(states)) \in Nat /\ Cardinality(Conns) \in Nat
  BY <1>1, <1>2, FS_CardinalityType
<1> QED
  BY <1>2, <1>3

\* Conduct holds in every reachable state.
LEMMA ConductInvariant == IngestSpec => []Conduct
<1>1. IngestInit => Conduct
  <2> SUFFICES ASSUME IngestInit PROVE Conduct
    OBVIOUS
  <2>1. InState(Holding) = {} /\ InState(Counted) = {}
    BY DEF IngestInit, InState, Holding, Counted
  <2>2. 0 <= Capacity
    BY IngestAssumption DEF Capacity
  <2>3. Cardinality({}) = 0
    BY FS_EmptySet
  <2> QED
    BY <2>1, <2>2, <2>3 DEF IngestInit, Conduct
<1>2. Types /\ Conduct /\ [IngestNext]_allVars => Conduct'
  <2> SUFFICES ASSUME Types, Conduct, [IngestNext]_allVars PROVE Conduct'
    OBVIOUS
  <2> USE DEF loopVars
  <2>0. \A states : /\ IsFiniteSet(InState(states))
                    /\ Cardinality(InState(states)) \in Nat
    BY ClassesAreFinite
  <2>10. ASSUME NEW states, conn' = conn
         PROVE  InState(states)' = InState(states)
    BY <2>10 DEF InState
  <2>11. (Capacity \in Int /\ Capacity' = Capacity)
    BY IngestAssumption DEF Capacity
  <2>1. ASSUME NEW c \in Conns, NEW id, Dial(c, id)
        PROVE  Conduct'
    <3>1. c \notin InState(Holding) /\ c \notin InState(Counted)
      BY <2>1 DEF Dial, InState, Holding, Counted
    <3>2. InState(Holding)' = InState(Holding) /\ InState(Counted)' = InState(Counted)
      BY <2>1, <3>1, MoveOfOne DEF Dial, Holding, Counted
    <3> QED
      BY <2>1, <3>2 DEF Dial, Conduct, Capacity
  <2>2. ASSUME NEW c \in Conns, GoQuiet(c)
        PROVE  Conduct'
    BY <2>2, <2>10 DEF GoQuiet, Conduct, Capacity
  <2>3. ASSUME NEW c \in Conns, AcceptConn(c)
        PROVE  Conduct'
    <3>1. c \notin InState(Holding) /\ c \notin InState(Counted)
      BY <2>3 DEF AcceptConn, InState, Holding, Counted
    <3>2. /\ InState(Holding)' = InState(Holding) \union {c}
          /\ InState(Counted)' = InState(Counted) \union {c}
      BY <2>3, MoveOfOne DEF AcceptConn, Holding, Counted
    <3>3. /\ Cardinality(InState(Holding) \union {c}) = Cardinality(InState(Holding)) + 1
          /\ Cardinality(InState(Counted) \union {c}) = Cardinality(InState(Counted)) + 1
      BY <2>0, <3>1, FS_AddElement
    <3>4. Cardinality(InState(Holding)) < Capacity
      BY <2>3 DEF AcceptConn, HasSlot, Conduct
    <3>5. Cardinality(InState(Holding)) + 1 <= Capacity
      BY <2>0, <2>11, <3>4
    <3>6. InState({"backlog"})' = InState({"backlog"}) \ {c}
      BY <2>3, MoveOfOne DEF AcceptConn
    <3> QED
      BY <2>3, <3>2, <3>3, <3>5, <3>6 DEF AcceptConn, Conduct, Capacity
  <2>4. ASSUME NEW c \in Conns, Shed(c)
        PROVE  Conduct'
    <3>1. c \notin InState(Holding) /\ c \notin InState(Counted)
      BY <2>4 DEF Shed, InState, Holding, Counted
    <3>2. InState(Holding)' = InState(Holding) /\ InState(Counted)' = InState(Counted)
      BY <2>4, <3>1, MoveOfOne DEF Shed, Holding, Counted
    <3>3. InState({"backlog"})' = InState({"backlog"}) \ {c}
      BY <2>4, MoveOfOne DEF Shed
    <3> QED
      BY <2>4, <3>2, <3>3 DEF Shed, Conduct, Capacity
  <2>5. ASSUME NEW c \in Conns, NEW state \in Holding, Goto(c, state), conn[c] \in Holding,
               UNCHANGED <<loopVars, slots, wg>>
        PROVE  Conduct'
    <3>1. c \in InState(Holding) /\ c \in InState(Counted)
      BY <2>5 DEF InState, Counted
    <3>2. InState(Holding)' = InState(Holding) /\ InState(Counted)' = InState(Counted)
      <4>1. state \in Counted
        BY DEF Counted
      <4>2. InState(Holding)' = InState(Holding) \union {c}
        BY <2>5, MoveOfOne
      <4>3. InState(Counted)' = InState(Counted) \union {c}
        BY <2>5, <4>1, MoveOfOne
      <4> QED
        BY <3>1, <4>2, <4>3
    <3>3. InState({"backlog"})' = InState({"backlog"}) \ {c}
      BY <2>5, MoveOfOne DEF Holding
    <3> QED
      BY <2>5, <3>2, <3>3 DEF Conduct, Capacity
  <2>6. ASSUME NEW c \in Conns, Shake(c) \/ Connect(c) \/ PubAck(c) \/ End(c) \/ CloseConn(c)
        PROVE  Conduct'
    BY <2>5, <2>6 DEF Shake, Connect, PubAck, End, CloseConn, Holding
  <2>7. ASSUME NEW c \in Conns, NEW topic, NEW payload, NEW qos,
               Publish(c, topic, payload, qos)
        PROVE  Conduct'
    <3>1. CASE qos = 1
      BY <2>5, <2>7, <3>1 DEF Publish, Acknowledge, Holding
    <3>2. CASE qos # 1
      BY <2>7, <2>10, <3>2 DEF Publish, Acknowledge, Conduct, Capacity
    <3> QED
      BY <3>1, <3>2
  <2>8. ASSUME NEW c \in Conns, ReleaseSlot(c)
        PROVE  Conduct'
    <3>1. c \in InState(Holding) /\ c \in InState(Counted)
      BY <2>8 DEF ReleaseSlot, InState, Holding, Counted
    <3>2. /\ InState(Holding)' = InState(Holding) \ {c}
          /\ InState(Counted)' = InState(Counted)
          /\ InState({"backlog"})' = InState({"backlog"}) \ {c}
      <4>1. Goto(c, "leaving")
        BY <2>8 DEF ReleaseSlot
      <4>2. InState(Holding)' = InState(Holding) \ {c}
        BY <4>1, MoveOfOne DEF Holding
      <4>3. InState(Counted)' = InState(Counted)
        BY <3>1, <4>1, MoveOfOne DEF Counted
      <4>4. InState({"backlog"})' = InState({"backlog"}) \ {c}
        BY <4>1, MoveOfOne
      <4> QED
        BY <4>2, <4>3, <4>4
    <3>3. Cardinality(InState(Holding) \ {c}) = Cardinality(InState(Holding)) - 1
      BY <2>0, <3>1, FS_RemoveElement
    <3>4. Cardinality(InState(Holding)) - 1 <= Capacity
      BY <2>0, <2>11 DEF Conduct
    <3> QED
      BY <2>8, <3>2, <3>3, <3>4 DEF ReleaseSlot, Conduct, Capacity
  <2>9. ASSUME NEW c \in Conns, Done(c)
        PROVE  Conduct'
    <3>1. c \notin InState(Holding) /\ c \in InState(Counted)
      BY <2>9 DEF Done, InState, Holding, Counted
    <3>2. /\ InState(Holding)' = InState(Holding)
          /\ InState(Counted)' = InState(Counted) \ {c}
          /\ InState({"backlog"})' = InState({"backlog"}) \ {c}
      BY <2>9, <3>1, MoveOfOne DEF Done, Holding, Counted
    <3>3. Cardinality(InState(Counted) \ {c}) = Cardinality(InState(Counted)) - 1
      BY <2>0, <3>1, FS_RemoveElement
    <3> QED
      BY <2>9, <3>1, <3>2, <3>3 DEF Done, Conduct, Capacity
  <2>12. CASE Cancel
    BY <2>10, <2>12 DEF Cancel, Conduct, Capacity
  <2>13. CASE AcceptFails
    BY <2>10, <2>13 DEF AcceptFails, Conduct, Capacity
  <2>16. CASE CloseListener
    <3>1. conn' = [c \in Conns |-> IF conn[c] = "backlog" THEN "closed" ELSE conn[c]]
      BY <2>16 DEF CloseListener
    <3>2. /\ InState(Holding)' = InState(Holding) /\ InState(Counted)' = InState(Counted)
          /\ InState({"backlog"})' = {}
      BY <3>1 DEF InState, Holding, Counted
    <3> QED
      BY <2>16, <3>2 DEF CloseListener, Conduct, Capacity
  <2>14. CASE Return
    <3>1. InState(Counted) = {}
      BY <2>0, <2>14, FS_EmptySet DEF Return, Conduct
    <3> QED
      BY <2>10, <2>14, <3>1 DEF Return, Conduct, Capacity
  <2>15. CASE UNCHANGED allVars
    BY <2>10, <2>15 DEF allVars, serveVars, Conduct, Capacity
  <2> QED
    BY <2>1, <2>2, <2>3, <2>4, <2>6, <2>7, <2>8, <2>9, <2>12, <2>13, <2>14, <2>15, <2>16
    DEF IngestNext, Leave
<1> QED
  BY <1>1, <1>2, TypesInvariant, PTL DEF IngestSpec

-----------------------------------------------------------------------------
(* Records. *)

\* The store keeps Records through a step that leaves it and the PUBACKs alone
\* and lets no connection past the handshake whose certificate names no device.
LEMMA RecordsStay ==
    ASSUME Types, Records, UNCHANGED dbVars, acked' = acked,
           \A c \in Conns : conn'[c] \in {"connecting", "session", "acking"} =>
              /\ cert'[c] = cert[c]
              /\ conn[c] \in {"connecting", "session", "acking"} \/ cert[c] # NoDevice,
           \A c \in Conns : conn'[c] = "acking" => conn[c] = "acking" /\ pending'[c] = pending[c]
    PROVE  Records'
<1>1. DBInv'
  BY StandsStill DEF Records
<1>2. history' = history
  BY DEF dbVars
<1> QED
  BY <1>1, <1>2 DEF Types, Records, InHistory, NobodySpeaksForAnother, OwnSample

\* Records holds in every reachable state.
LEMMA RecordsInvariant == IngestSpec => []Records
<1>1. IngestInit => Records
  <2> SUFFICES ASSUME IngestInit PROVE Records
    OBVIOUS
  <2>1. devices \in [Devices -> [org : Orgs \union {NoOrg}, seen : BOOLEAN]]
    BY IngestAssumption DEF IngestInit, Unknown
  <2>2. DBInv
    BY <2>1, EmptyStore DEF IngestInit
  <2> QED
    BY <2>2 DEF IngestInit, Records, NobodySpeaksForAnother
<1>2. Types /\ Records /\ [IngestNext]_allVars => Records'
  <2> SUFFICES ASSUME Types, Records, [IngestNext]_allVars PROVE Records'
    OBVIOUS
  <2> USE DEF Types, Goto
  <2>1. ASSUME NEW c \in Conns, NEW id, Dial(c, id)
        PROVE  Records'
    BY <2>1, RecordsStay DEF Dial
  <2>2. ASSUME NEW c \in Conns,
               GoQuiet(c) \/ AcceptConn(c) \/ Shed(c) \/ Connect(c) \/ End(c) \/ Leave(c)
        PROVE  Records'
    BY <2>2, RecordsStay DEF GoQuiet, AcceptConn, Shed, Connect, End, Leave, CloseConn,
       ReleaseSlot, Done
  <2>3. ASSUME NEW c \in Conns, Shake(c)
        PROVE  Records'
    BY <2>3, RecordsStay DEF Shake
  <2>4. ASSUME NEW c \in Conns, NEW topic, NEW payload \in Payloads, NEW qos,
               OwnPayload(cert[c], payload), Publish(c, topic, payload, qos)
        PROVE  Records'
    <3>0. PICK d, sample : d = cert[c] /\ sample = Head(payload)
      OBVIOUS
    <3>1. payload \in Seq(Samples) /\ payload # <<>>
      BY IngestAssumption
    <3>2. sample \in Samples /\ OwnSample(d, sample)
      BY <2>4, <3>0, <3>1 DEF OwnPayload
    <3>3. d \in Devices /\ RecordReading(d, sample)
      BY <2>4, <3>0 DEF Publish, Recorded, Records
    <3>4. DBInv'
      BY <3>2, <3>3, RecordKeeps DEF Records
    <3>5. /\ history \in [Devices -> Seq(Samples)]
          /\ history' = [history EXCEPT ![d] = Append(@, sample)]
      BY <3>3 DEF RecordReading, Records, DBInv, TypeOK
    <3>6. /\ cert' = cert /\ acked' = acked
          /\ \A e \in Conns \ {c} : conn'[e] = conn[e] /\ pending'[e] = pending[e]
          /\ conn[c] = "session"
          /\ conn'[c] = "acking" => pending'[c] = payload
          /\ conn'[c] \in {"session", "acking"}
      <4>1. CASE qos = 1
        BY <2>4, <4>1 DEF Publish, Acknowledge
      <4>2. CASE qos # 1
        BY <2>4, <4>2 DEF Publish, Acknowledge
      <4> QED
        BY <4>1, <4>2
    <3>7. ASSUME NEW e \in Devices, NEW s, InHistory(e, s)
          PROVE  InHistory(e, s)'
      <4>1. PICK i \in 1..Len(history[e]) : history[e][i] = s
        BY <3>7 DEF InHistory
      <4>2. history'[e] = IF e = d THEN Append(history[e], sample) ELSE history[e]
        BY <3>3, <3>5
      <4>3. history[e] \in Seq(Samples)
        BY <3>5
      <4>4. i \in 1..Len(history'[e]) /\ history'[e][i] = s
        BY <3>2, <4>1, <4>2, <4>3
      <4> QED
        BY <4>4 DEF InHistory
    <3>8. InHistory(d, sample)'
      <4>1. history[d] \in Seq(Samples) /\ history'[d] = Append(history[d], sample)
        BY <3>3, <3>5
      <4>2. Len(history[d]) + 1 \in 1..Len(history'[d])
            /\ history'[d][Len(history[d]) + 1] = sample
        BY <3>2, <4>1
      <4> QED
        BY <4>2 DEF InHistory
    <3>9. NobodySpeaksForAnother'
      <4> SUFFICES ASSUME NEW e \in Devices, NEW i \in 1..Len(history'[e])
                   PROVE  OwnSample(e, history'[e][i])
        BY DEF NobodySpeaksForAnother, OwnSample
      <4>1. history[e] \in Seq(Samples)
        BY <3>5
      <4>2. CASE e # d
        BY <3>3, <3>5, <4>2 DEF Records, NobodySpeaksForAnother
      <4>3. CASE e = d
        <5>1. history'[e] = Append(history[e], sample)
          BY <3>3, <3>5, <4>3
        <5>2. history'[e][i] = sample \/ (i \in 1..Len(history[e]) /\ history'[e][i] = history[e][i])
          BY <4>1, <5>1
        <5> QED
          BY <3>2, <4>3, <5>2 DEF Records, NobodySpeaksForAnother
      <4> QED
        BY <4>2, <4>3
    <3>10. \A a \in acked' : InHistory(a[1], Head(a[2]))'
      <4> SUFFICES ASSUME NEW a \in acked
                   PROVE  InHistory(a[1], Head(a[2]))'
        BY <3>6
      <4>1. a[1] \in Devices /\ InHistory(a[1], Head(a[2]))
        BY DEF Records
      <4> QED
        BY <3>7, <4>1
    <3>11. ASSUME NEW e \in Conns, conn'[e] = "acking"
           PROVE  (pending[e] \in Payloads /\ InHistory(cert[e], Head(pending[e])))'
      <4>1. CASE e = c
        <5>1. pending'[e] = payload /\ cert'[e] = d
          BY <3>0, <3>6, <3>11, <4>1
        <5>2. InHistory(cert[e], Head(pending[e]))'
          BY <3>0, <3>8, <5>1 DEF InHistory
        <5> QED
          BY <5>1, <5>2
      <4>2. CASE e # c
        <5>1. /\ conn[e] = "acking" /\ pending'[e] = pending[e] /\ cert'[e] = cert[e]
              /\ cert[e] \in Devices
          BY <3>6, <3>11, <4>2 DEF Records
        <5>2. pending[e] \in Payloads /\ InHistory(cert[e], Head(pending[e]))
          BY <5>1 DEF Records
        <5>3. InHistory(cert[e], Head(pending[e]))'
          <6> PICK f, t : f = cert[e] /\ t = Head(pending[e])
            OBVIOUS
          <6>1. InHistory(f, t)'
            BY <3>7, <5>1, <5>2
          <6> QED
            BY <5>1, <6>1 DEF InHistory
        <5> QED
          BY <5>1, <5>2, <5>3
      <4> QED
        BY <4>1, <4>2
    <3>12. \A e \in Conns : conn'[e] \in {"connecting", "session", "acking"} =>
              cert'[e] \in Devices
      BY <3>0, <3>3, <3>6 DEF Records
    <3> QED
      BY <3>4, <3>6, <3>9, <3>10, <3>11, <3>12 DEF Records
  <2>5. ASSUME NEW c \in Conns, PubAck(c)
        PROVE  Records'
    <3>1. /\ conn[c] = "acking" /\ acked' = acked \union {<<cert[c], pending[c]>>}
          /\ cert' = cert /\ history' = history /\ UNCHANGED dbVars
          /\ conn' = [conn EXCEPT ![c] = "session"]
          /\ \A e \in Conns \ {c} : pending'[e] = pending[e]
      BY <2>5 DEF PubAck, dbVars
    <3>2. /\ cert[c] \in Devices /\ pending[c] \in Payloads
          /\ InHistory(cert[c], Head(pending[c]))
      BY <3>1 DEF Records
    <3>3. DBInv'
      BY <3>1, StandsStill DEF Records
    <3>4. NobodySpeaksForAnother'
      BY <3>1 DEF Records, NobodySpeaksForAnother, OwnSample
    <3>5. ASSUME NEW a \in acked'
          PROVE  a \in Devices \X Payloads /\ InHistory(a[1], Head(a[2]))'
      BY <3>1, <3>2 DEF Records, InHistory
    <3>6. \A e \in Conns : conn'[e] = "acking" =>
             (pending[e] \in Payloads /\ InHistory(cert[e], Head(pending[e])))'
      BY <3>1 DEF Records, InHistory
    <3>7. \A e \in Conns : conn'[e] \in {"connecting", "session", "acking"} =>
             cert'[e] \in Devices
      BY <3>1 DEF Records
    <3> QED
      BY <3>3, <3>4, <3>5, <3>6, <3>7 DEF Records
  <2>6. CASE Cancel \/ Return
    BY <2>6, RecordsStay DEF Cancel, Return
  <2>7. CASE AcceptFails \/ CloseListener
    BY <2>7, RecordsStay DEF AcceptFails, CloseListener
  <2>8. CASE UNCHANGED allVars
    BY <2>8, RecordsStay DEF allVars, serveVars
  <2> QED
    BY <2>1, <2>2, <2>3, <2>4, <2>5, <2>6, <2>7, <2>8 DEF IngestNext
<1> QED
  BY <1>1, <1>2, TypesInvariant, PTL DEF IngestSpec

-----------------------------------------------------------------------------
(* The results. *)

\* server.go, Serve: every variable keeps its type, and the wait group is never
\* negative.
THEOREM IngestTypeCorrect == IngestSpec => []IngestTypeOK
<1>1. Types /\ Conduct /\ Records => IngestTypeOK
  <2> SUFFICES ASSUME Types, Conduct, Records PROVE IngestTypeOK
    OBVIOUS
  <2>1. slots \subseteq Conns
    BY DEF Conduct, InState
  <2>2. wg \in 0..Cardinality(Conns)
    BY ClassesAreFinite DEF Conduct
  <2> QED
    BY <2>1, <2>2 DEF Types, Records, DBInv, IngestTypeOK
<1> QED
  BY <1>1, TypesInvariant, ConductInvariant, RecordsInvariant, PTL

\* Serve's slots channel bounds the connections that are open at once.
THEOREM CapacityIsKept == IngestSpec => []OpenWithinCapacity
<1>1. Conduct => OpenWithinCapacity
  BY DEF Conduct, InState, Holding, Open, OpenWithinCapacity
<1> QED
  BY <1>1, ConductInvariant, PTL

\* Serve returns after its wait group is empty: nothing of it runs any more, and
\* a connection that waits is one that nobody accepted, on a listener whose
\* closing Serve does not wait for.
THEOREM NothingIsLeft == IngestSpec => []NothingLeftAfterReturn
<1>1. Types /\ Conduct => NothingLeftAfterReturn
  <2> SUFFICES ASSUME Types, Conduct, phase = "returned"
               PROVE  /\ slots = {}
                      /\ \A c \in Conns :
                            \/ conn[c] \in {"new", "closed"}
                            \/ conn[c] = "backlog" /\ listening
    BY DEF NothingLeftAfterReturn
  <2>1. /\ InState(Counted) = {} /\ slots = InState(Holding)
        /\ ~listening => InState({"backlog"}) = {}
    BY DEF Conduct
  <2>2. slots = {}
    BY <2>1 DEF InState, Counted
  <2>3. ASSUME NEW c \in Conns
        PROVE  conn[c] \in {"new", "closed"} \/ (conn[c] = "backlog" /\ listening)
    BY <2>1 DEF Types, ConnStates, InState, Holding, Counted
  <2> QED
    BY <2>2, <2>3
<1> QED
  BY <1>1, TypesInvariant, ConductInvariant, PTL

\* session compares the topic with the certificate and record stores under the
\* certificate's device: no device writes another's readings.
THEOREM NobodySpeaks == IngestSpec => []NobodySpeaksForAnother
<1>1. Records => NobodySpeaksForAnother
  BY DEF Records
<1> QED
  BY <1>1, RecordsInvariant, PTL

\* session writes the PUBACK after record has returned without an error: what a
\* device saw acknowledged is recorded, and is shown until newer readings fill
\* the cap.
THEOREM AcknowledgedIsRecorded == IngestSpec => []AckedIsRecorded
<1>1. Records => AckedIsRecorded
  <2> SUFFICES ASSUME Records, NEW a \in acked
               PROVE  LET h    == history[a[1]]
                          rows == Readings(devices[a[1]].org, a[1], 0)
                      IN  \E i \in 1..Len(h) :
                             /\ h[i] = Head(a[2])
                             /\ Len(h) - i < MaxReadingsPerDevice =>
                                   rows[Len(h) - i + 1] = Head(a[2])
    BY DEF AckedIsRecorded
  <2> DEFINE d == a[1]
             h == history[d]
             rows == Readings(devices[d].org, d, 0)
  <2>1. d \in Devices /\ DBInv /\ InHistory(d, Head(a[2]))
    BY DEF Records
  <2>2. PICK i \in 1..Len(h) : h[i] = Head(a[2])
    BY <2>1 DEF InHistory
  <2>3. EffectiveLimit(0) = MaxReadingsPerDevice /\ MaxReadingsPerDevice \in Nat \ {0}
    BY TelemetryAssumption DEF EffectiveLimit
  <2>4. /\ Len(rows) = IF Len(h) < MaxReadingsPerDevice THEN Len(h) ELSE MaxReadingsPerDevice
        /\ \A j \in 1..Len(rows) : rows[j] = h[Len(h) - j + 1]
    <3>1. 0 \in Int
      OBVIOUS
    <3>2. \A limit \in Int :
             LET r == Readings(devices[d].org, d, limit)
             IN  /\ Len(r) = IF Len(h) < EffectiveLimit(limit) THEN Len(h)
                             ELSE EffectiveLimit(limit)
                 /\ \A j \in 1..Len(r) : r[j] = h[Len(h) - j + 1]
      BY <2>1, ReadingsAreNewest
    <3> HIDE DEF d, h
    <3> QED
      BY <2>3, <3>1, <3>2
  <2>5. Len(h) \in Nat
    BY <2>1 DEF DBInv, TypeOK
  <2> HIDE DEF d, h, rows
  <2>6. ASSUME Len(h) - i < MaxReadingsPerDevice
        PROVE  rows[Len(h) - i + 1] = h[i]
    <3>1. Len(h) - i + 1 \in 1..Len(rows)
      BY <2>3, <2>4, <2>5, <2>6
    <3>2. Len(h) - (Len(h) - i + 1) + 1 = i
      BY <2>5
    <3> QED
      BY <2>4, <3>1, <3>2
  <2> QED
    BY <2>2, <2>6 DEF d, h, rows
<1> QED
  BY <1>1, RecordsInvariant, PTL
=============================================================================
