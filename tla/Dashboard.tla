------------------------------- MODULE Dashboard -------------------------------
(***************************************************************************)
(* The Dashboard API of internal/dashboard/server.go over the Telemetry    *)
(* DB, while devices report and are enrolled anew.                         *)
(*                                                                         *)
(* fleet and telemetry read the store once and are operators on the state. *)
(* export reads it once for the fleet and once more for each device, and   *)
(* the store moves on in between.  Columns, CSV and JSON are left out, and *)
(* so are the store's errors: the scope of an admitted caller has an       *)
(* organisation.  The client may be gone at any row.                       *)
(*                                                                         *)
(* Devices are numbered by their ids, in whose order they are listed and   *)
(* exported; a page and a file are kept by device.  Readings of a device   *)
(* are numbered: sample n is its n-th.                                     *)
(***************************************************************************)
EXTENDS TelemetryDB

CONSTANTS
    Exports,                   \* requests to GET /api/fleet/export
    DefaultReadingLimit,       \* 100 in the code
    ExportReadingsPerDevice    \* 500 in the code

ASSUME DashboardAssumption ==
    /\ Devices \subseteq Nat
    /\ Samples = 1..MaxHistory
    /\ DefaultReadingLimit \in Nat \ {0}
    /\ ExportReadingsPerDevice \in Nat \ {0}

VARIABLES
    stage,     \* of each export: "idle", "reading", "complete", "truncated"
    reader,    \* the organisation it is for
    todo,      \* devices of the fleet still to be read
    file,      \* the readings written, by device
    since,     \* for the properties: the store when the fleet was read
    moved      \* for the properties: devices enrolled since then

exportVars == <<stage, reader, todo, file, since, moved>>
allVars    == <<dbVars, exportVars>>

NoRows == [d \in Devices |-> <<>>]

DashboardInit ==
    /\ Init
    /\ stage = [x \in Exports |-> "idle"]
    /\ reader = [x \in Exports |-> NoOrg]
    /\ todo = [x \in Exports |-> {}]
    /\ file = [x \in Exports |-> NoRows]
    /\ since = [x \in Exports |-> [fleet |-> {}, length |-> [d \in Devices |-> 0]]]
    /\ moved = [x \in Exports |-> {}]

-----------------------------------------------------------------------------
(* fleet and telemetry. *)

\* Devices of the organisation with whether they have been seen.
FleetPage(org) == [d \in Fleet(org) |-> devices[d].seen]

\* The limit of the query: absent, a text that is no number, or a number that
\* is not positive, the least, and more than is ever kept.
Limits ==
    {[kind |-> kind, n |-> 0] : kind \in {"absent", "text"}}
        \union {[kind |-> "number", n |-> n] : n \in {0, 1, MaxReadingsPerDevice + 1}}

Acceptable(limit) ==
    limit.kind = "absent" \/ (limit.kind = "number" /\ limit.n > 0)

\* Mutant: another organisation's device is forbidden, not empty.
TelemetryPageOrForbidden(org, d, limit) ==
    IF Enrolled(d) /\ devices[d].org # org THEN [status |-> 403, rows |-> <<>>]
    ELSE [status |-> 200, rows |-> Readings(org, d, limit.n)]

TelemetryPage(org, d, limit) ==
    IF ~Acceptable(limit) THEN [status |-> 400, rows |-> <<>>]
    ELSE [status |-> 200,
          rows |-> Readings(org, d, IF limit.kind = "absent" THEN DefaultReadingLimit
                                    ELSE limit.n)]

-----------------------------------------------------------------------------
(* export. *)

ReadFleet(x, org) ==
    /\ stage[x] = "idle"
    /\ stage' = [stage EXCEPT ![x] = "reading"]
    /\ reader' = [reader EXCEPT ![x] = org]
    /\ todo' = [todo EXCEPT ![x] = Fleet(org)]
    /\ since' = [since EXCEPT ![x] =
                    [fleet |-> Fleet(org), length |-> [d \in Devices |-> Len(history[d])]]]
    /\ UNCHANGED <<dbVars, file, moved>>

FirstToDo(x, d) == d \in todo[x] /\ \A e \in todo[x] : d <= e

RowsFor(org, d) == Readings(org, d, ExportReadingsPerDevice)

\* Mutant: a device that yields no rows ends the export.
ReadDeviceWithRows(x) ==
    /\ stage[x] = "reading"
    /\ \E d \in todo[x] :
          LET rows == RowsFor(reader[x], d)
          IN  /\ FirstToDo(x, d)
              /\ file' = [file EXCEPT ![x][d] = rows]
              /\ todo' = [todo EXCEPT ![x] = IF rows = <<>> THEN {} ELSE @ \ {d}]
    /\ UNCHANGED <<dbVars, stage, reader, since, moved>>

ReadDevice(x) ==
    /\ stage[x] = "reading"
    /\ \E d \in todo[x] :
          /\ FirstToDo(x, d)
          /\ file' = [file EXCEPT ![x][d] = RowsFor(reader[x], d)]
          /\ todo' = [todo EXCEPT ![x] = @ \ {d}]
    /\ UNCHANGED <<dbVars, stage, reader, since, moved>>

\* Mutant: the row that cannot be written is left out, and the next ones follow.
WriteFailsAndGoesOn(x) ==
    /\ stage[x] = "reading"
    /\ \E d \in todo[x] :
          LET rows == RowsFor(reader[x], d)
          IN  /\ FirstToDo(x, d)
              /\ \E n \in 0..(Len(rows) - 1) :
                    file' = [file EXCEPT ![x][d] =
                                SubSeq(rows, 1, n) \o SubSeq(rows, n + 2, Len(rows))]
    /\ stage' = [stage EXCEPT ![x] = "truncated"]
    /\ UNCHANGED <<dbVars, reader, todo, since, moved>>

\* A row cannot be written: the rows before it, and no more, have been sent.
WriteFails(x) ==
    /\ stage[x] = "reading"
    /\ \E d \in todo[x] :
          LET rows == RowsFor(reader[x], d)
          IN  /\ FirstToDo(x, d)
              /\ \E n \in 0..(Len(rows) - 1) :
                    file' = [file EXCEPT ![x][d] = SubSeq(rows, 1, n)]
    /\ stage' = [stage EXCEPT ![x] = "truncated"]
    /\ UNCHANGED <<dbVars, reader, todo, since, moved>>

Finish(x) ==
    /\ stage[x] = "reading"
    /\ todo[x] = {}
    /\ stage' = [stage EXCEPT ![x] = "complete"]
    /\ UNCHANGED <<dbVars, reader, todo, file, since, moved>>

Export(x) == ReadDevice(x) \/ WriteFails(x) \/ Finish(x)

-----------------------------------------------------------------------------
(* The writers of the store. *)

\* Bound of the model: once every export has ended, the store stands still.
Watched == \E x \in Exports : stage[x] \in {"idle", "reading"}

Provision(d, org) ==
    /\ Watched
    /\ Enrol(d, org)
    /\ moved' = [x \in Exports |->
                    IF stage[x] = "reading" THEN moved[x] \union {d} ELSE moved[x]]
    /\ UNCHANGED <<stage, reader, todo, file, since>>

Report(d) ==
    /\ Watched
    /\ RecordReading(d, Len(history[d]) + 1)
    /\ UNCHANGED exportVars

DashboardNext ==
    \/ \E x \in Exports :
          \/ \E org \in Orgs : ReadFleet(x, org)
          \/ Export(x)
    \/ \E d \in Devices :
          \/ \E org \in Orgs : Provision(d, org)
          \/ Report(d)

DashboardSpec == DashboardInit /\ [][DashboardNext]_allVars

-----------------------------------------------------------------------------
(* Properties. *)

\* Every variable keeps its type.
DashboardTypeOK ==
    /\ TypeOK
    /\ stage \in [Exports -> {"idle", "reading", "complete", "truncated"}]
    /\ reader \in [Exports -> Orgs \union {NoOrg}]
    /\ todo \in [Exports -> SUBSET Devices]
    /\ file \in [Exports -> [Devices -> Seq(Samples)]]
    /\ since \in [Exports -> [fleet : SUBSET Devices, length : [Devices -> Nat]]]
    /\ moved \in [Exports -> SUBSET Devices]

Lesser(m, n) == IF m < n THEN m ELSE n

\* What an export of d gives when it has reported e readings.
NewestAt(d, e) ==
    [i \in 1..Lesser(e, Lesser(ExportReadingsPerDevice, MaxReadingsPerDevice)) |->
        history[d][e - i + 1]]

\* How many readings d had reported at some moment between the first read of the
\* export and now.
Moments(x, d) == since[x].length[d]..Len(history[d])

\* Everything of one moment is in the file; only of a device that was enrolled
\* anew meanwhile there may be nothing.
WholeFor(x, d) ==
    \/ d \in moved[x] /\ file[x][d] = <<>>
    \/ \E e \in Moments(x, d) : file[x][d] = NewestAt(d, e)

\* However readings and enrolments fall between its reads, a complete export
\* has, for each device of the fleet it began with, the newest readings of one
\* moment between its first read and now, newest first; only a device that was
\* enrolled anew meanwhile may have none; and of other devices it has nothing.
ExportIsOfItsTime ==
    \A x \in Exports, d \in Devices : stage[x] = "complete" =>
        IF d \in since[x].fleet THEN WholeFor(x, d) ELSE file[x][d] = <<>>

\* The newest readings of one moment are in the file, and the last of them is not.
PartFor(x, d) ==
    \E e \in Moments(x, d) :
        \E n \in 0..(Len(NewestAt(d, e)) - 1) : file[x][d] = SubSeq(NewestAt(d, e), 1, n)

\* A truncated export is the beginning of a complete one: the devices it got
\* through are whole, the one it was cut off at has the newest of its readings
\* of one moment and lacks some, and no device after it has a row.
TruncatedIsBeginning ==
    \A x \in Exports : stage[x] = "truncated" =>
        \E cut \in todo[x] :
            /\ PartFor(x, cut)
            /\ \A d \in Devices \ {cut} :
                  IF d \in since[x].fleet /\ d < cut THEN WholeFor(x, d)
                  ELSE file[x][d] = <<>>

\* A device that has left the organisation since the fleet was read has no row
\* written, whatever it reported before or after.
OnlyOwnDevicesAreWritten ==
    [][\A x \in Exports, d \in Devices :
          file'[x][d] # file[x][d] => devices[d].org = reader[x]]_exportVars

View(org) ==
    <<FleetPage(org),
      [d \in Devices |-> [limit \in Limits |-> TelemetryPage(org, d, limit)]]>>

\* What fleet and telemetry answer to one organisation does not change with
\* what happens to devices that are another's before and after, so nobody can
\* learn from it that they exist, report or are enrolled.
OthersAreInvisible ==
    [][\A org \in Orgs :
          (\A d \in Devices :
              (devices[d].org = org \/ devices'[d].org = org) =>
                  UNCHANGED <<devices[d], readings[d]>>)
          => View(org)' = View(org)]_dbVars
=============================================================================
