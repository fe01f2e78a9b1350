------------------------------- MODULE Deployment -------------------------------
(***************************************************************************)
(* The two processes of the telemetry path as cmd/ingest and cmd/dashboard *)
(* build them: each makes a store of its own (store.New), enrols in it the *)
(* fleet file as it finds it at its start (LoadFleet and EnrolAll of       *)
(* internal/store/fleet.go), and loses it when it ends.                    *)
(*                                                                         *)
(* What each does with its store is the subject of Ingest and Dashboard;   *)
(* here the one records readings and the other shows them.  Model and      *)
(* firmware version of a device are left out.                              *)
(***************************************************************************)
EXTENDS Integers, Sequences

CONSTANTS
    Devices, Orgs, NoOrg, Samples, MaxReadingsPerDevice, MaxHistory,  \* of TelemetryDB
    Blank,        \* an empty text
    FleetFiles,   \* what the fleet file may hold: sequences of [id, org]
    MaxStarts     \* bound of the model: starts of each process

VARIABLES
    fleetFile,    \* the file as it is now
    running,      \* which of "ingest" and "dashboard" run
    starts,       \* how often each has been started
    devices, readings, history,               \* the store of ingest
    shownDevices, shownReadings, shownHistory \* the store of dashboard

ingestStore    == <<devices, readings, history>>
dashboardStore == <<shownDevices, shownReadings, shownHistory>>
vars == <<fleetFile, running, starts, ingestStore, dashboardStore>>

Recorder == INSTANCE TelemetryDB
Viewer   == INSTANCE TelemetryDB WITH
                devices <- shownDevices, readings <- shownReadings, history <- shownHistory

Processes == {"ingest", "dashboard"}

DeploymentInit ==
    /\ fleetFile \in FleetFiles
    /\ running = {}
    /\ starts = [p \in Processes |-> 0]
    /\ Recorder!Init
    /\ Viewer!Init

-----------------------------------------------------------------------------

\* LoadFleet takes a file that enrols somebody, each with an id and an
\* organisation and nobody twice.
LoadsFleet(file) ==
    /\ file # <<>>
    /\ \A i \in 1..Len(file) :
          /\ file[i].id # Blank
          /\ file[i].org # Blank
          /\ \A j \in 1..(i - 1) : file[j].id # file[i].id

\* EnrolAll into an empty store.
Enrolled(file) ==
    [d \in Devices |->
        IF \E i \in 1..Len(file) : file[i].id = d
        THEN [org |-> file[CHOOSE i \in 1..Len(file) : file[i].id = d].org, seen |-> FALSE]
        ELSE Recorder!Unknown]

Nothing == [d \in Devices |-> <<>>]

\* The provisioning system (external) rewrites the file.
EditFile ==
    /\ fleetFile' \in FleetFiles
    /\ UNCHANGED <<running, starts, ingestStore, dashboardStore>>

Launch(p) ==
    /\ p \notin running
    /\ starts[p] < MaxStarts
    /\ LoadsFleet(fleetFile)
    /\ running' = running \union {p}
    /\ starts' = [starts EXCEPT ![p] = @ + 1]

StartIngest ==
    /\ Launch("ingest")
    /\ devices' = Enrolled(fleetFile)
    /\ readings' = Nothing /\ history' = Nothing
    /\ UNCHANGED <<fleetFile, dashboardStore>>

StartDashboard ==
    /\ Launch("dashboard")
    /\ shownDevices' = Enrolled(fleetFile)
    /\ shownReadings' = Nothing /\ shownHistory' = Nothing
    /\ UNCHANGED <<fleetFile, ingestStore>>

Stop(p) ==
    /\ p \in running
    /\ running' = running \ {p}
    /\ UNCHANGED <<fleetFile, starts, ingestStore, dashboardStore>>

Report(d, sample) ==
    /\ "ingest" \in running
    /\ Recorder!RecordReading(d, sample)
    /\ UNCHANGED <<fleetFile, running, starts, dashboardStore>>

DeploymentNext ==
    \/ EditFile
    \/ StartIngest
    \/ StartDashboard
    \/ \E p \in Processes : Stop(p)
    \/ \E d \in Devices, sample \in Samples : Report(d, sample)

DeploymentSpec == DeploymentInit /\ [][DeploymentNext]_vars

-----------------------------------------------------------------------------
(* Properties. *)

\* tests/telemetry_flow_test.go:3-5: a device publishes, "the reading lands in
\* the Telemetry DB, and an operator reads it back from the Dashboard API".
RecordedIsShown ==
    running = Processes =>
        \A d \in Devices, org \in Orgs :
            devices[d].org = org /\ shownDevices[d].org = org =>
                Viewer!Readings(org, d, 0) = Recorder!Readings(org, d, 0)
=============================================================================
