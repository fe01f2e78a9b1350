---------------------------- MODULE DashboardProofs ----------------------------
(***************************************************************************)
(* The Dashboard API for any number of exports, devices and organisations, *)
(* any readings and any limits.                                            *)
(*                                                                         *)
(* ExportInv says of an export under way what is known between its reads:  *)
(* the devices still to be read have no row and come after those that were *)
(* read, and those that were read are whole.  A write to the store keeps   *)
(* this because it only adds to a history.                                 *)
(***************************************************************************)
EXTENDS Dashboard, TelemetryProofs

Types == DBInv /\ DashboardTypeOK

\* Under way or complete.
Sound(x) == stage[x] \in {"reading", "complete"}

ExportInvAt(x, d) ==
    /\ todo[x] \subseteq since[x].fleet
    /\ stage[x] = "idle" => since[x].fleet = {}
    /\ since[x].length[d] <= Len(history[d])
    /\ d \notin since[x].fleet => file[x][d] = <<>>
    /\ Sound(x) /\ d \in todo[x] => file[x][d] = <<>>
    /\ Sound(x) /\ d \in since[x].fleet \ todo[x] => WholeFor(x, d)
    /\ stage[x] = "reading" /\ d \in since[x].fleet \ moved[x] =>
          devices[d].org = reader[x]
    /\ stage[x] = "reading" /\ d \in since[x].fleet \ todo[x] =>
          \A e \in todo[x] : d < e
    /\ stage[x] = "complete" => todo[x] = {}

ExportInv == \A x \in Exports, d \in Devices : ExportInvAt(x, d)

IInv == ExportInv /\ TruncatedIsBeginning

-----------------------------------------------------------------------------
(* Types. *)

\* What an export reads of a device is a sequence of samples: of an organisation's
\* own device its newest ones as they are now, of any other nothing.
LEMMA RowsAreNow ==
    ASSUME DBInv, NEW d \in Devices, NEW org
    PROVE  RowsFor(org, d) = IF devices[d].org = org THEN NewestAt(d, Len(history[d]))
                             ELSE <<>>
<1>1. CASE devices[d].org # org
  BY <1>1 DEF RowsFor, Readings
<1>2. CASE devices[d].org = org
  <2> DEFINE h == history[d]
             rows == RowsFor(org, d)
             limit == Lesser(ExportReadingsPerDevice, MaxReadingsPerDevice)
  <2>1. ExportReadingsPerDevice \in Nat \ {0} /\ MaxReadingsPerDevice \in Nat \ {0}
    BY DashboardAssumption, TelemetryAssumption
  <2>2. EffectiveLimit(ExportReadingsPerDevice) = limit /\ limit \in Nat
    BY <2>1 DEF EffectiveLimit, Lesser
  <2>10. rows = Readings(devices[d].org, d, ExportReadingsPerDevice)
    BY <1>2 DEF RowsFor
  <2>11. ExportReadingsPerDevice \in Int
    BY <2>1
  <2> HIDE DEF rows, h, limit
  <2>3. /\ Len(rows) = IF Len(h) < limit THEN Len(h) ELSE limit
        /\ \A i \in 1..Len(rows) : rows[i] = h[Len(h) - i + 1]
    BY <2>2, <2>10, <2>11, ReadingsAreNewest DEF h
  <2>4. rows = [i \in 1..Len(rows) |-> rows[i]]
    BY <2>10, <2>11, RowsAreFunction
  <2>5. Len(rows) = Lesser(Len(h), limit)
    BY <2>3 DEF Lesser
  <2>6. rows = [i \in 1..Lesser(Len(h), limit) |-> h[Len(h) - i + 1]]
    BY <2>3, <2>4, <2>5
  <2> QED
    BY <1>2, <2>6 DEF rows, h, limit, NewestAt
<1> QED
  BY <1>1, <1>2

\* The same as a type.
LEMMA RowsAreSamples ==
    ASSUME DBInv, NEW d \in Devices, NEW org
    PROVE  RowsFor(org, d) \in Seq(Samples)
<1> DEFINE h == history[d]
           n == Lesser(Len(h), Lesser(ExportReadingsPerDevice, MaxReadingsPerDevice))
<1>1. h \in Seq(Samples) /\ Len(h) \in Nat
  BY DEF DBInv, TypeOK
<1>2. n \in Nat /\ n <= Len(h)
  BY <1>1, DashboardAssumption, TelemetryAssumption DEF Lesser
<1>3. NewestAt(d, Len(h)) = [i \in 1..n |-> h[Len(h) - i + 1]]
  BY DEF NewestAt
<1> HIDE DEF h, n
<1>4. \A i \in 1..n : h[Len(h) - i + 1] \in Samples
  BY <1>1, <1>2
<1>5. NewestAt(d, Len(h)) \in Seq(Samples)
  BY <1>2, <1>3, <1>4
<1>6. <<>> \in Seq(Samples)
  OBVIOUS
<1>7. RowsFor(org, d) = NewestAt(d, Len(h)) \/ RowsFor(org, d) = <<>>
  BY RowsAreNow DEF h
<1> QED
  BY <1>5, <1>6, <1>7

\* Every variable of the Dashboard API has its type in every reachable state.
LEMMA TypesInvariant == DashboardSpec => []Types
<1>1. DashboardInit => Types
  <2> SUFFICES ASSUME DashboardInit PROVE Types
    OBVIOUS
  <2>1. DBInv
    <3>1. devices \in [Devices -> [org : Orgs \union {NoOrg}, seen : BOOLEAN]]
      BY DEF DashboardInit, Init, Unknown
    <3> QED
      BY <3>1, EmptyStore DEF DashboardInit, Init
  <2>2. NoRows \in [Devices -> Seq(Samples)]
    BY DEF NoRows
  <2>3. [fleet |-> {}, length |-> [d \in Devices |-> 0]]
            \in [fleet : SUBSET Devices, length : [Devices -> Nat]]
    OBVIOUS
  <2> QED
    BY <2>1, <2>2, <2>3 DEF DashboardInit, Types, DashboardTypeOK, DBInv
<1>2. Types /\ [DashboardNext]_allVars => Types'
  <2> SUFFICES ASSUME Types, [DashboardNext]_allVars PROVE Types'
    OBVIOUS
  <2> USE DEF Types
  <2>1. ASSUME NEW x \in Exports, NEW org \in Orgs, ReadFleet(x, org)
        PROVE  Types'
    <3>1. Fleet(org) \in SUBSET Devices
      BY DEF Fleet
    <3>2. [d \in Devices |-> Len(history[d])] \in [Devices -> Nat]
      BY DEF DBInv, TypeOK
    <3>3. DBInv'
      BY <2>1, StandsStill DEF ReadFleet
    <3> QED
      BY <2>1, <3>1, <3>2, <3>3 DEF ReadFleet, DashboardTypeOK, DBInv
  <2>2. ASSUME NEW x \in Exports, ReadDevice(x)
        PROVE  Types'
    <3>1. PICK d \in todo[x] : /\ file' = [file EXCEPT ![x][d] = RowsFor(reader[x], d)]
                               /\ todo' = [todo EXCEPT ![x] = @ \ {d}]
      BY <2>2 DEF ReadDevice
    <3>2. d \in Devices
      BY DEF DashboardTypeOK
    <3>3. RowsFor(reader[x], d) \in Seq(Samples)
      BY <3>2, RowsAreSamples
    <3>4. DBInv'
      BY <2>2, StandsStill DEF ReadDevice
    <3> QED
      BY <2>2, <3>1, <3>2, <3>3, <3>4 DEF ReadDevice, DashboardTypeOK, DBInv
  <2>3. ASSUME NEW x \in Exports, WriteFails(x)
        PROVE  Types'
    <3>0. PICK d \in todo[x] : \E n \in 0..(Len(RowsFor(reader[x], d)) - 1) :
             file' = [file EXCEPT ![x][d] = SubSeq(RowsFor(reader[x], d), 1, n)]
      BY <2>3 DEF WriteFails
    <3>1. PICK n \in 0..(Len(RowsFor(reader[x], d)) - 1) :
             file' = [file EXCEPT ![x][d] = SubSeq(RowsFor(reader[x], d), 1, n)]
      BY <3>0
    <3>2. d \in Devices
      BY DEF DashboardTypeOK
    <3>3. RowsFor(reader[x], d) \in Seq(Samples)
      BY <3>2, RowsAreSamples
    <3>4. SubSeq(RowsFor(reader[x], d), 1, n) \in Seq(Samples)
      BY <3>1, <3>3
    <3>5. DBInv'
      BY <2>3, StandsStill DEF WriteFails
    <3> QED
      BY <2>3, <3>1, <3>2, <3>4, <3>5 DEF WriteFails, DashboardTypeOK, DBInv
  <2>4. ASSUME NEW x \in Exports, Finish(x)
        PROVE  Types'
    <3>1. DBInv'
      BY <2>4, StandsStill DEF Finish
    <3> QED
      BY <2>4, <3>1 DEF Finish, DashboardTypeOK, DBInv
  <2>5. ASSUME NEW d \in Devices, NEW org \in Orgs, Provision(d, org)
        PROVE  Types'
    <3>1. DBInv'
      BY <2>5, EnrolKeeps DEF Provision
    <3> QED
      BY <2>5, <3>1 DEF Provision, DashboardTypeOK, DBInv
  <2>6. ASSUME NEW d \in Devices, Report(d)
        PROVE  Types'
    <3>1. Len(history[d]) + 1 \in Samples
      BY <2>6, DashboardAssumption, TelemetryAssumption
      DEF Report, RecordReading, DBInv, TypeOK
    <3>2. DBInv'
      BY <2>6, <3>1, RecordKeeps DEF Report
    <3> QED
      BY <2>6, <3>2 DEF Report, exportVars, DashboardTypeOK, DBInv
  <2>7. CASE UNCHANGED allVars
    <3>1. DBInv'
      BY <2>7, StandsStill DEF allVars
    <3> QED
      BY <2>7, <3>1 DEF allVars, exportVars, DashboardTypeOK, DBInv
  <2> QED
    BY <2>1, <2>2, <2>3, <2>4, <2>5, <2>6, <2>7 DEF DashboardNext, Export
<1> QED
  BY <1>1, <1>2, PTL DEF DashboardSpec

-----------------------------------------------------------------------------
(* What a step of the store leaves true of an export. *)

\* Histories only grow.
Extends ==
    \A d \in Devices :
        /\ Len(history[d]) <= Len(history'[d])
        /\ \A i \in 1..Len(history[d]) : history'[d][i] = history[d][i]

\* They do, whatever step is taken.
LEMMA HistoriesGrow ==
    ASSUME Types, [DashboardNext]_allVars
    PROVE  Extends
<1> USE DEF Types, DBInv, TypeOK
<1>1. CASE UNCHANGED history
  BY <1>1 DEF Extends
<1>2. ASSUME NEW d \in Devices, Report(d)
      PROVE  Extends
  BY <1>2 DEF Report, RecordReading, Extends
<1> QED
  BY <1>1, <1>2 DEF DashboardNext, Export, ReadFleet, ReadDevice, WriteFails, Finish,
     Provision, Enrol, allVars, dbVars

\* The newest readings of a past moment do not change.
LEMMA PastStays ==
    ASSUME Types, Extends, NEW d \in Devices, NEW e \in 0..Len(history[d])
    PROVE  NewestAt(d, e)' = NewestAt(d, e)
<1> DEFINE n == Lesser(e, Lesser(ExportReadingsPerDevice, MaxReadingsPerDevice))
<1>1. Len(history[d]) \in Nat
  BY DEF Types, DBInv, TypeOK
<1>2. n \in Nat /\ n <= e
  BY <1>1, DashboardAssumption, TelemetryAssumption DEF Lesser
<1> HIDE DEF n
<1>3. ASSUME NEW i \in 1..n
      PROVE  history'[d][e - i + 1] = history[d][e - i + 1]
  <2>1. e - i + 1 \in 1..Len(history[d])
    BY <1>1, <1>2
  <2> QED
    BY <2>1 DEF Extends
<1>4. NewestAt(d, e) = [i \in 1..n |-> history[d][e - i + 1]]
  BY DEF NewestAt, n
<1>5. NewestAt(d, e)' = [i \in 1..n |-> history'[d][e - i + 1]]
  BY DEF NewestAt, n
<1> QED
  BY <1>3, <1>4, <1>5

\* The moments an export may show stay such moments.
LEMMA MomentsStay ==
    ASSUME Types, Extends, NEW x \in Exports, NEW d \in Devices, since'[x] = since[x],
           NEW e \in Moments(x, d)
    PROVE  e \in 0..Len(history[d]) /\ e \in Moments(x, d)'
<1>1. since[x].length[d] \in Nat /\ Len(history[d]) \in Nat
  BY DEF Types, DBInv, TypeOK, DashboardTypeOK
<1>2. e \in since[x].length[d]..Len(history[d]) /\ Len(history[d]) <= Len(history'[d])
  BY DEF Moments, Extends
<1> QED
  BY <1>1, <1>2 DEF Moments

\* A device that is whole stays whole.
LEMMA WholeStays ==
    ASSUME Types, Types', Extends, NEW x \in Exports, NEW d \in Devices, WholeFor(x, d),
           since'[x] = since[x], file'[x][d] = file[x][d], moved[x] \subseteq moved'[x]
    PROVE  WholeFor(x, d)'
<1>1. CASE d \in moved[x] /\ file[x][d] = <<>>
  BY <1>1 DEF WholeFor
<1>2. ASSUME NEW e \in Moments(x, d), file[x][d] = NewestAt(d, e)
      PROVE  WholeFor(x, d)'
  <2>1. e \in 0..Len(history[d]) /\ e \in Moments(x, d)'
    BY MomentsStay
  <2>2. file'[x][d] = NewestAt(d, e)'
    BY <1>2, <2>1, PastStays
  <2> QED
    BY <2>1, <2>2 DEF WholeFor
<1> QED
  BY <1>1, <1>2 DEF WholeFor

\* What is known of an export stays known while the export stands still.
LEMMA ExportStays ==
    ASSUME Types, Types', Extends, NEW x \in Exports, NEW d \in Devices,
           ExportInvAt(x, d),
           stage'[x] = stage[x], reader'[x] = reader[x], todo'[x] = todo[x],
           file'[x] = file[x], since'[x] = since[x], moved[x] \subseteq moved'[x],
           stage[x] = "reading" /\ d \notin moved'[x] => devices'[d].org = devices[d].org
    PROVE  ExportInvAt(x, d)'
<1>1. since[x].length[d] <= Len(history'[d])
  BY DEF ExportInvAt, Extends, Types, DBInv, TypeOK, DashboardTypeOK
<1>2. WholeFor(x, d) => WholeFor(x, d)'
  BY WholeStays
<1> QED
  BY <1>1, <1>2 DEF ExportInvAt, Sound

\* So does what is known of a truncated one.
LEMMA TruncatedStays ==
    ASSUME Types, Types', Extends, NEW x \in Exports, TruncatedIsBeginning,
           stage[x] = "truncated", todo'[x] = todo[x], file'[x] = file[x],
           since'[x] = since[x], moved[x] \subseteq moved'[x]
    PROVE  \E cut \in todo'[x] :
              /\ PartFor(x, cut)'
              /\ \A d \in Devices \ {cut} :
                    IF d \in since'[x].fleet /\ d < cut THEN WholeFor(x, d)'
                    ELSE file'[x][d] = <<>>
<1>1. PICK cut \in todo[x] :
         /\ PartFor(x, cut)
         /\ \A d \in Devices \ {cut} :
               IF d \in since[x].fleet /\ d < cut THEN WholeFor(x, d) ELSE file[x][d] = <<>>
  BY DEF TruncatedIsBeginning
<1>2. cut \in Devices
  BY DEF Types, DashboardTypeOK
<1>3. PartFor(x, cut)'
  <2>1. PICK e \in Moments(x, cut) :
           \E n \in 0..(Len(NewestAt(cut, e)) - 1) :
              file[x][cut] = SubSeq(NewestAt(cut, e), 1, n)
    BY <1>1 DEF PartFor
  <2>2. e \in 0..Len(history[cut]) /\ e \in Moments(x, cut)'
    BY <1>2, MomentsStay
  <2>3. NewestAt(cut, e)' = NewestAt(cut, e)
    BY <1>2, <2>2, PastStays
  <2> QED
    BY <2>1, <2>2, <2>3 DEF PartFor
<1>4. ASSUME NEW d \in Devices \ {cut}, WholeFor(x, d)
      PROVE  WholeFor(x, d)'
  BY <1>4, WholeStays
<1> QED
  BY <1>1, <1>3, <1>4

-----------------------------------------------------------------------------
(* The steps. *)

\* TruncatedIsBeginning of one export.
BeginningAt(x) ==
    \E cut \in todo[x] :
        /\ PartFor(x, cut)
        /\ \A d \in Devices \ {cut} :
              IF d \in since[x].fleet /\ d < cut THEN WholeFor(x, d)
              ELSE file[x][d] = <<>>

\* One export's step leaves the others alone.
LEMMA OthersStay ==
    ASSUME Types, Types', IInv, UNCHANGED <<dbVars, moved>>, NEW x \in Exports,
           \A y \in Exports \ {x} :
              /\ stage'[y] = stage[y] /\ reader'[y] = reader[y] /\ todo'[y] = todo[y]
              /\ file'[y] = file[y] /\ since'[y] = since[y],
           \A d \in Devices : ExportInvAt(x, d)',
           stage'[x] = "truncated" => BeginningAt(x)'
    PROVE  IInv'
<1>0. Extends
  BY DEF Extends, dbVars, Types, DBInv, TypeOK
<1>1. ASSUME NEW y \in Exports \ {x}, NEW d \in Devices
      PROVE  ExportInvAt(y, d)'
  <2>1. ExportInvAt(y, d)
    BY DEF IInv, ExportInv
  <2> QED
    BY <1>0, <2>1, ExportStays DEF dbVars
<1>2. ASSUME NEW y \in Exports \ {x}, stage'[y] = "truncated"
      PROVE  BeginningAt(y)'
  BY <1>0, <1>2, TruncatedStays DEF IInv, BeginningAt
<1>3. ExportInv'
  BY <1>1 DEF ExportInv
<1>4. TruncatedIsBeginning'
  BY <1>2 DEF TruncatedIsBeginning, BeginningAt
<1> QED
  BY <1>3, <1>4 DEF IInv

\* Rows that were just read are those of the present moment, or there are none
\* and the device has been enrolled anew.
LEMMA RowsAreOfNow ==
    ASSUME Types, IInv, NEW x \in Exports, stage[x] = "reading", NEW d \in todo[x]
    PROVE  /\ Len(history[d]) \in Moments(x, d)
           /\ \/ RowsFor(reader[x], d) = NewestAt(d, Len(history[d]))
              \/ d \in moved[x] /\ RowsFor(reader[x], d) = <<>>
<1>1. d \in Devices /\ ExportInvAt(x, d)
  BY DEF Types, DashboardTypeOK, IInv, ExportInv
<1>2. since[x].length[d] \in Nat /\ Len(history[d]) \in Nat
  BY <1>1 DEF Types, DBInv, TypeOK, DashboardTypeOK
<1>3. Len(history[d]) \in Moments(x, d)
  BY <1>1, <1>2 DEF ExportInvAt, Moments
<1>4. devices[d].org # reader[x] => d \in moved[x]
  BY <1>1 DEF ExportInvAt
<1> QED
  BY <1>1, <1>3, <1>4, RowsAreNow DEF Types

\* ExportInv and TruncatedIsBeginning hold throughout.
LEMMA ExportInvariant == DashboardSpec => []IInv
<1>1. DashboardInit => IInv
  BY DEF DashboardInit, Init, IInv, ExportInv, ExportInvAt, Sound, TruncatedIsBeginning,
     NoRows
<1>2. Types /\ Types' /\ IInv /\ [DashboardNext]_allVars => IInv'
  <2> SUFFICES ASSUME Types, Types', ExportInv, TruncatedIsBeginning,
                      [DashboardNext]_allVars
               PROVE  ExportInv' /\ TruncatedIsBeginning'
    BY DEF IInv
  <2>0. Extends
    BY HistoriesGrow
  <2>1. ASSUME NEW x \in Exports, NEW org \in Orgs, ReadFleet(x, org)
        PROVE  ExportInv' /\ TruncatedIsBeginning'
    <3> USE DEF ReadFleet, Types, DashboardTypeOK
    <3>1. ASSUME NEW d \in Devices
          PROVE  ExportInvAt(x, d)'
      <4>1. /\ stage'[x] = "reading" /\ reader'[x] = org /\ todo'[x] = Fleet(org)
            /\ since'[x] = [fleet |-> Fleet(org),
                            length |-> [e \in Devices |-> Len(history[e])]]
        BY <2>1
      <4>2. file'[x][d] = <<>>
        BY <2>1 DEF ExportInv, ExportInvAt
      <4>3. devices' = devices /\ history' = history
        BY <2>1 DEF dbVars
      <4>4. Len(history[d]) <= Len(history[d])
        BY DEF DBInv, TypeOK
      <4>5. \A e \in Fleet(org) : devices[e].org = org
        BY DEF Fleet
      <4> QED
        BY <4>1, <4>2, <4>3, <4>4, <4>5 DEF ExportInvAt, Sound
    <3>2. stage'[x] # "truncated"
      BY <2>1
    <3> QED
      BY <2>1, <3>1, <3>2, OthersStay DEF IInv
  <2>2. ASSUME NEW x \in Exports, ReadDevice(x)
        PROVE  ExportInv' /\ TruncatedIsBeginning'
    <3> USE DEF ReadDevice, Types, DashboardTypeOK
    <3>0. PICK c \in todo[x] : /\ FirstToDo(x, c)
                               /\ file' = [file EXCEPT ![x][c] = RowsFor(reader[x], c)]
                               /\ todo' = [todo EXCEPT ![x] = @ \ {c}]
      BY <2>2
    <3>1. /\ stage[x] = "reading" /\ stage' = stage /\ reader' = reader
          /\ since' = since /\ moved' = moved /\ devices' = devices /\ history' = history
      BY <2>2 DEF dbVars
    <3>2. WholeFor(x, c)'
      <4>1. /\ Len(history[c]) \in Moments(x, c)
            /\ \/ RowsFor(reader[x], c) = NewestAt(c, Len(history[c]))
               \/ c \in moved[x] /\ RowsFor(reader[x], c) = <<>>
        BY <3>1, RowsAreOfNow DEF IInv
      <4>2. file'[x][c] = RowsFor(reader[x], c)
        BY <3>0
      <4>3. Moments(x, c)' = Moments(x, c)
        BY <3>1 DEF Moments
      <4>4. ASSUME NEW e PROVE NewestAt(c, e)' = NewestAt(c, e)
        BY <3>1 DEF NewestAt
      <4> QED
        BY <3>1, <4>1, <4>2, <4>3, <4>4 DEF WholeFor
    <3>3. ASSUME NEW d \in Devices
          PROVE  ExportInvAt(x, d)'
      <4>1. ExportInvAt(x, d) /\ ExportInvAt(x, c)
        BY DEF ExportInv
      <4>2. todo'[x] = todo[x] \ {c} /\ (d # c => file'[x][d] = file[x][d])
        BY <3>0
      <4>3. d # c /\ WholeFor(x, d) => WholeFor(x, d)'
        BY <2>0, <3>1, <4>2, WholeStays
      <4>4. \A e \in todo[x] \ {c} : c < e
        <5>1. \A e \in todo[x] : c <= e /\ c \in Nat /\ e \in Nat
          BY <3>0, DashboardAssumption DEF FirstToDo
        <5> QED
          BY <5>1
      <4> QED
        BY <3>1, <3>2, <4>1, <4>2, <4>3, <4>4 DEF ExportInvAt, Sound
    <3>4. stage'[x] # "truncated"
      BY <3>1
    <3>5. \A y \in Exports \ {x} : todo'[y] = todo[y] /\ file'[y] = file[y]
      BY <3>0
    <3> QED
      BY <2>2, <3>1, <3>3, <3>4, <3>5, OthersStay DEF IInv
  <2>3. ASSUME NEW x \in Exports, WriteFails(x)
        PROVE  ExportInv' /\ TruncatedIsBeginning'
    <3> USE DEF WriteFails, Types, DashboardTypeOK
    <3>0. PICK c \in todo[x] :
             /\ FirstToDo(x, c)
             /\ \E n \in 0..(Len(RowsFor(reader[x], c)) - 1) :
                   file' = [file EXCEPT ![x][c] = SubSeq(RowsFor(reader[x], c), 1, n)]
      BY <2>3
    <3>1. PICK n \in 0..(Len(RowsFor(reader[x], c)) - 1) :
             file' = [file EXCEPT ![x][c] = SubSeq(RowsFor(reader[x], c), 1, n)]
      BY <3>0
    <3>2. /\ stage[x] = "reading" /\ stage'[x] = "truncated" /\ reader' = reader
          /\ todo' = todo /\ since' = since /\ moved' = moved
          /\ devices' = devices /\ history' = history
      BY <2>3 DEF dbVars
    <3>3. PartFor(x, c)'
      <4>1. /\ Len(history[c]) \in Moments(x, c)
            /\ \/ RowsFor(reader[x], c) = NewestAt(c, Len(history[c]))
               \/ c \in moved[x] /\ RowsFor(reader[x], c) = <<>>
        BY <3>2, RowsAreOfNow DEF IInv
      <4>2. RowsFor(reader[x], c) # <<>>
        BY <3>1
      <4>3. file'[x][c] = SubSeq(RowsFor(reader[x], c), 1, n)
        BY <3>1
      <4>4. Moments(x, c)' = Moments(x, c)
        BY <3>2 DEF Moments
      <4>5. ASSUME NEW e PROVE NewestAt(c, e)' = NewestAt(c, e)
        BY <3>2 DEF NewestAt
      <4> QED
        BY <3>1, <4>1, <4>2, <4>3, <4>4, <4>5 DEF PartFor
    <3>4. \A d \in Devices \ {c} : file'[x][d] = file[x][d]
      BY <3>1
    <3>5. ASSUME NEW d \in Devices \ {c}
          PROVE  IF d \in since'[x].fleet /\ d < c THEN WholeFor(x, d)'
                 ELSE file'[x][d] = <<>>
      <4>1. ExportInvAt(x, d)
        BY DEF ExportInv
      <4>2. d \in todo[x] => ~(d < c)
        <5>1. d \in todo[x] => c <= d /\ c \in Nat /\ d \in Nat
          BY <3>0, DashboardAssumption DEF FirstToDo
        <5> QED
          BY <5>1
      <4>3. WholeFor(x, d) => WholeFor(x, d)'
        BY <2>0, <3>2, <3>4, WholeStays
      <4> QED
        BY <3>0, <3>2, <3>4, <4>1, <4>2, <4>3 DEF ExportInvAt, Sound
    <3>6. ASSUME NEW d \in Devices
          PROVE  ExportInvAt(x, d)'
      <4>1. ExportInvAt(x, d) /\ ExportInvAt(x, c)
        BY DEF ExportInv
      <4>2. d = c => d \in since[x].fleet
        BY <4>1 DEF ExportInvAt
      <4> QED
        BY <3>2, <3>4, <4>1, <4>2 DEF ExportInvAt, Sound
    <3>7. BeginningAt(x)'
      BY <3>2, <3>3, <3>5 DEF BeginningAt
    <3>8. \A y \in Exports \ {x} : stage'[y] = stage[y] /\ file'[y] = file[y]
      BY <2>3, <3>1
    <3> QED
      BY <2>3, <3>2, <3>6, <3>7, <3>8, OthersStay DEF IInv
  <2>4. ASSUME NEW x \in Exports, Finish(x)
        PROVE  ExportInv' /\ TruncatedIsBeginning'
    <3> USE DEF Finish, Types, DashboardTypeOK
    <3>1. /\ stage[x] = "reading" /\ stage'[x] = "complete" /\ todo[x] = {} /\ todo' = todo
          /\ since' = since /\ moved' = moved /\ file' = file /\ history' = history
      BY <2>4 DEF dbVars
    <3>2. ASSUME NEW d \in Devices
          PROVE  ExportInvAt(x, d)'
      <4>1. ExportInvAt(x, d)
        BY DEF ExportInv
      <4>2. WholeFor(x, d) => WholeFor(x, d)'
        BY <2>0, <3>1, WholeStays
      <4> QED
        BY <3>1, <4>1, <4>2 DEF ExportInvAt, Sound
    <3>3. stage'[x] # "truncated"
      BY <3>1
    <3> QED
      BY <2>4, <3>2, <3>3, OthersStay DEF IInv
  <2>5. ASSUME NEW d \in Devices, NEW org \in Orgs, Provision(d, org)
        PROVE  ExportInv' /\ TruncatedIsBeginning'
    <3>1. ASSUME NEW y \in Exports, NEW c \in Devices
          PROVE  ExportInvAt(y, c)'
      <4>1. stage[y] = "reading" /\ c \notin moved'[y] => devices'[c].org = devices[c].org
        BY <2>5 DEF Provision, Enrol, Types, DBInv, TypeOK, DashboardTypeOK
      <4>2. moved[y] \subseteq moved'[y]
        BY <2>5 DEF Provision
      <4> QED
        BY <2>0, <2>5, <4>1, <4>2, ExportStays DEF Provision, ExportInv
    <3>2. TruncatedIsBeginning'
      <4>1. \A y \in Exports : moved[y] \subseteq moved'[y]
        BY <2>5 DEF Provision
      <4> QED
        BY <2>0, <2>5, <4>1, TruncatedStays DEF Provision, TruncatedIsBeginning
    <3> QED
      BY <3>1, <3>2 DEF ExportInv
  <2>6. ASSUME NEW d \in Devices, Report(d)
        PROVE  ExportInv' /\ TruncatedIsBeginning'
    <3>1. ASSUME NEW y \in Exports, NEW c \in Devices
          PROVE  ExportInvAt(y, c)'
      <4>1. devices'[c].org = devices[c].org
        BY <2>6 DEF Report, RecordReading, Types, DBInv, TypeOK
      <4> QED
        BY <2>0, <2>6, <4>1, ExportStays DEF Report, exportVars, ExportInv
    <3> QED
      BY <2>0, <2>6, <3>1, TruncatedStays DEF Report, exportVars, ExportInv, TruncatedIsBeginning
  <2>7. CASE UNCHANGED allVars
    <3>1. ASSUME NEW y \in Exports, NEW c \in Devices
          PROVE  ExportInvAt(y, c)'
      BY <2>0, <2>7, ExportStays DEF allVars, dbVars, exportVars, ExportInv
    <3> QED
      BY <2>0, <2>7, <3>1, TruncatedStays DEF allVars, exportVars, ExportInv, TruncatedIsBeginning
  <2> QED
    BY <2>1, <2>2, <2>3, <2>4, <2>5, <2>6, <2>7 DEF DashboardNext, Export
<1> QED
  BY <1>1, <1>2, TypesInvariant, PTL DEF DashboardSpec

-----------------------------------------------------------------------------
(* The results. *)

\* server.go's handlers and the store they read keep the type of every variable.
THEOREM DashboardTypeCorrect == DashboardSpec => []DashboardTypeOK
<1>1. Types => DashboardTypeOK
  BY DEF Types
<1> QED
  BY <1>1, TypesInvariant, PTL

\* store.go, Readings: whatever was recorded, evicted and enrolled anew, a device
\* shows its organisation its newest readings, newest first and without a gap.
THEOREM NewestFirstAlways == DashboardSpec => []NewestFirstWithoutGap
<1>1. Types => NewestFirstWithoutGap
  BY OrderedStoreShowsNewest DEF Types
<1> QED
  BY <1>1, TypesInvariant, PTL

\* export reads the store once for the fleet and once for each device: its file
\* is that of its time all the same.
THEOREM ExportIsOfItsTimeAlways == DashboardSpec => []ExportIsOfItsTime
<1>1. ExportInv => ExportIsOfItsTime
  BY DEF ExportInv, ExportInvAt, Sound, ExportIsOfItsTime
<1>2. IInv => ExportIsOfItsTime
  BY <1>1 DEF IInv
<1> QED
  BY <1>2, ExportInvariant, PTL

\* An export that could not be written to its end is the beginning of one that
\* could.
THEOREM TruncatedIsBeginningAlways == DashboardSpec => []TruncatedIsBeginning
<1>1. IInv => TruncatedIsBeginning
  BY DEF IInv
<1> QED
  BY <1>1, ExportInvariant, PTL

\* export asks the store again for each device, under the organisation of its
\* caller: a device that has left it gets no row.
THEOREM OnlyOwnAreWritten == DashboardSpec => OnlyOwnDevicesAreWritten
<1> DEFINE Own == \A x \in Exports, d \in Devices :
                     file'[x][d] # file[x][d] => devices[d].org = reader[x]
<1>1. Types /\ ExportInv /\ [DashboardNext]_allVars => [Own]_exportVars
  <2> SUFFICES ASSUME Types, ExportInv, [DashboardNext]_allVars, file' # file
               PROVE  Own
    BY DEF exportVars
  <2> USE DEF Types, DashboardTypeOK
  <2>1. ASSUME NEW x \in Exports, ReadDevice(x)
        PROVE  Own
    <3>1. PICK c \in todo[x] : /\ FirstToDo(x, c)
                               /\ file' = [file EXCEPT ![x][c] = RowsFor(reader[x], c)]
      BY <2>1 DEF ReadDevice
    <3>2. file[x][c] = <<>> /\ c \in Devices
      BY <2>1 DEF ReadDevice, ExportInv, ExportInvAt, Sound
    <3>3. RowsFor(reader[x], c) # <<>> => devices[c].org = reader[x]
      BY <3>2, RowsAreNow
    <3> QED
      BY <3>1, <3>2, <3>3
  <2>2. ASSUME NEW x \in Exports, WriteFails(x)
        PROVE  Own
    <3>1. PICK c \in todo[x] :
             /\ FirstToDo(x, c)
             /\ \E n \in 0..(Len(RowsFor(reader[x], c)) - 1) :
                   file' = [file EXCEPT ![x][c] = SubSeq(RowsFor(reader[x], c), 1, n)]
      BY <2>2 DEF WriteFails
    <3>2. PICK n \in 0..(Len(RowsFor(reader[x], c)) - 1) :
             file' = [file EXCEPT ![x][c] = SubSeq(RowsFor(reader[x], c), 1, n)]
      BY <3>1
    <3>3. RowsFor(reader[x], c) # <<>>
      BY <3>2
    <3>4. devices[c].org = reader[x]
      BY <3>3, RowsAreNow
    <3> QED
      BY <3>2, <3>4
  <2> QED
    BY <2>1, <2>2 DEF DashboardNext, Export, ReadFleet, Finish, Provision, Report,
       allVars, exportVars
<1>2. IInv => ExportInv
  BY DEF IInv
<1> QED
  BY <1>1, <1>2, TypesInvariant, ExportInvariant, PTL
  DEF DashboardSpec, OnlyOwnDevicesAreWritten

\* fleet and telemetry answer an organisation from its own devices only.
THEOREM OthersStayInvisible == DashboardSpec => OthersAreInvisible
<1>1. ASSUME NEW org \in Orgs,
             \A d \in Devices :
                (devices[d].org = org \/ devices'[d].org = org) =>
                    UNCHANGED <<devices[d], readings[d]>>
      PROVE  View(org)' = View(org)
  <2>1. Fleet(org)' = Fleet(org)
    BY <1>1 DEF Fleet
  <2>2. FleetPage(org)' = FleetPage(org)
    BY <1>1, <2>1 DEF FleetPage, Fleet
  <2>3. ASSUME NEW d \in Devices, NEW limit
        PROVE  Readings(org, d, limit)' = Readings(org, d, limit)
    BY <1>1 DEF Readings
  <2>4. ASSUME NEW d \in Devices, NEW limit \in Limits
        PROVE  TelemetryPage(org, d, limit)' = TelemetryPage(org, d, limit)
    BY <2>3 DEF TelemetryPage
  <2> QED
    BY <2>2, <2>4 DEF View
<1>2. [DashboardNext]_allVars =>
         [\A org \in Orgs :
            (\A d \in Devices :
                (devices[d].org = org \/ devices'[d].org = org) =>
                    UNCHANGED <<devices[d], readings[d]>>)
            => View(org)' = View(org)]_dbVars
  BY <1>1
<1> QED
  BY <1>2, PTL DEF DashboardSpec, OthersAreInvisible
=============================================================================
