------------------------------ MODULE TelemetryDB ------------------------------
(***************************************************************************)
(* The Telemetry DB of internal/store/store.go: the enrolled devices and,  *)
(* per device, its newest readings.  The store's mutex makes each          *)
(* operation one step.                                                     *)
(*                                                                         *)
(* A reading is its sample.  Clocks are left out; of LastSeen only whether *)
(* it is set is kept.                                                      *)
(***************************************************************************)
EXTENDS Integers, Sequences

CONSTANTS
    Devices,               \* device ids
    Orgs,                  \* organisations
    NoOrg,                 \* organisation of a device that is not enrolled
    Samples,               \* what a device may report
    MaxReadingsPerDevice,  \* 1024 in the code
    MaxHistory             \* bound of the model: readings recorded per device

ASSUME TelemetryAssumption ==
    /\ NoOrg \notin Orgs
    /\ MaxReadingsPerDevice \in Nat \ {0}
    /\ MaxHistory \in Nat

VARIABLES
    devices,     \* organisation of each device and whether it has been seen
    readings,    \* what the store keeps of each device, oldest first
    history      \* for the properties: all that was ever recorded of it

dbVars == <<devices, readings, history>>

Unknown == [org |-> NoOrg, seen |-> FALSE]

Enrolled(d) == devices[d].org # NoOrg

Init ==
    /\ devices = [d \in Devices |-> Unknown]
    /\ readings = [d \in Devices |-> <<>>]
    /\ history = [d \in Devices |-> <<>>]

\* Enrolment replaces the device's row and leaves its readings.
Enrol(d, org) ==
    /\ devices' = [devices EXCEPT ![d] = [org |-> org, seen |-> FALSE]]
    /\ UNCHANGED <<readings, history>>

\* Mutant: the readings of a device are not cut.
KeepAll(s) == s

\* Mutant: the cut keeps the oldest readings.
KeepOldest(s) == SubSeq(s, 1, IF Len(s) > MaxReadingsPerDevice
                              THEN MaxReadingsPerDevice ELSE Len(s))

\* The cap keeps the newest readings.
Keep(s) == SubSeq(s, IF Len(s) > MaxReadingsPerDevice
                     THEN Len(s) - MaxReadingsPerDevice + 1 ELSE 1, Len(s))

RecordReading(d, sample) ==
    /\ Enrolled(d)
    /\ Len(history[d]) < MaxHistory
    /\ devices' = [devices EXCEPT ![d].seen = TRUE]
    /\ readings' = [readings EXCEPT ![d] = Keep(Append(@, sample))]
    /\ history' = [history EXCEPT ![d] = Append(@, sample)]

\* By itself the store is fed with samples that say for whom they were taken.
\* An unknown device leaves the store as it is: ErrUnknownDevice.
Next ==
    \E d \in Devices :
        \/ \E org \in Orgs : Enrol(d, org)
        \/ \E sample \in Samples : sample.for = devices[d].org /\ RecordReading(d, sample)

Spec == Init /\ [][Next]_dbVars

-----------------------------------------------------------------------------
(* Reads, through the scope of an organisation. *)

Fleet(org) == {d \in Devices : devices[d].org = org}

EffectiveLimit(limit) ==
    IF limit <= 0 \/ limit > MaxReadingsPerDevice THEN MaxReadingsPerDevice ELSE limit

\* Mutant: the device is looked up, its organisation is not compared.
ReadingsOfAnyDevice(org, d, limit) ==
    LET s == readings[d]
    IN  [i \in 1..(IF Len(s) < EffectiveLimit(limit) THEN Len(s) ELSE EffectiveLimit(limit)) |->
            s[Len(s) - i + 1]]

\* Newest first; of a device that is not the organisation's own, no rows.
Readings(org, d, limit) ==
    LET s    == readings[d]
        rows == IF Len(s) < EffectiveLimit(limit) THEN Len(s) ELSE EffectiveLimit(limit)
    IN  IF devices[d].org # org THEN <<>>
        ELSE [i \in 1..rows |-> s[Len(s) - i + 1]]

-----------------------------------------------------------------------------
(* Properties. *)

\* Every variable keeps its type.
TypeOK ==
    /\ devices \in [Devices -> [org : Orgs \union {NoOrg}, seen : BOOLEAN]]
    /\ readings \in [Devices -> Seq(Samples)]
    /\ history \in [Devices -> Seq(Samples)]
    /\ \A d \in Devices : Len(readings[d]) <= MaxReadingsPerDevice

\* Whatever was recorded, evicted and enrolled anew, an organisation that asks
\* for a device of its fleet gets its newest readings, newest first and without
\* a gap, as many as it asked for, as there are, or as the cap allows.
NewestFirstWithoutGap ==
    \A d \in Devices : Enrolled(d) =>
        \A limit \in -1..(MaxReadingsPerDevice + 1) :
            LET h    == history[d]
                rows == Readings(devices[d].org, d, limit)
            IN  /\ \A i \in 1..Len(rows) : rows[i] = h[Len(h) - i + 1]
                /\ Len(rows) < Len(h) =>
                      Len(rows) = IF limit \in 1..MaxReadingsPerDevice
                                  THEN limit ELSE MaxReadingsPerDevice

\* store.go:113: RecordReading stores a sample "stamping it with the device's
\* organisation", so an organisation sees samples recorded for it only.
SamplesStayWithTheirOrg ==
    \A d \in Devices, org \in Orgs :
        LET rows == Readings(org, d, 0)
        IN  \A i \in 1..Len(rows) : rows[i].for = org
=============================================================================
