---------------------------- MODULE TelemetryProofs ----------------------------
(***************************************************************************)
(* What the Telemetry DB keeps and shows, for any number of devices,       *)
(* organisations and readings and any cap.  The lemmas are about the       *)
(* operations by themselves, for every specification that uses them.       *)
(***************************************************************************)
EXTENDS TelemetryDB, SequenceTheorems, TLAPS

\* The store keeps of each device the end of all that was recorded of it.
KeepsNewest == \A d \in Devices : readings[d] = Keep(history[d])

DBInv == TypeOK /\ KeepsNewest

-----------------------------------------------------------------------------
(* The cap. *)

\* The cap cuts a sequence to its last elements, as many as it allows.
LEMMA KeepIsEnd ==
    ASSUME NEW S, NEW s \in Seq(S)
    PROVE  /\ Keep(s) \in Seq(S)
           /\ Len(Keep(s)) = IF Len(s) > MaxReadingsPerDevice
                             THEN MaxReadingsPerDevice ELSE Len(s)
           /\ \A i \in 1..Len(Keep(s)) :
                 Keep(s)[i] = s[Len(s) - Len(Keep(s)) + i]
<1> DEFINE cap == MaxReadingsPerDevice
           first == IF Len(s) > cap THEN Len(s) - cap + 1 ELSE 1
<1>1. cap \in Nat \ {0} /\ Len(s) \in Nat
  BY TelemetryAssumption
<1>2. first \in 1..(Len(s) + 1) /\ Keep(s) = SubSeq(s, first, Len(s))
  BY <1>1 DEF Keep
<1>3. /\ SubSeq(s, first, Len(s)) \in Seq(S)
      /\ Len(SubSeq(s, first, Len(s))) = Len(s) - first + 1
      /\ \A i \in 1..(Len(s) - first + 1) : SubSeq(s, first, Len(s))[i] = s[first + i - 1]
  <2>1. first \in Int /\ Len(s) \in Int /\ (\A i \in first..Len(s) : s[i] \in S)
    BY <1>1, <1>2
  <2> HIDE DEF first
  <2>2. Len(s) - first + 1 = IF first <= Len(s) THEN Len(s) - first + 1 ELSE 0
    BY <1>1, <1>2
  <2>3. /\ SubSeq(s, first, Len(s)) \in Seq(S)
        /\ Len(SubSeq(s, first, Len(s))) = IF first <= Len(s) THEN Len(s) - first + 1 ELSE 0
        /\ \A i \in 1..(Len(s) - first + 1) : SubSeq(s, first, Len(s))[i] = s[first + i - 1]
    BY <2>1, SubSeqProperties
  <2> QED
    BY <2>2, <2>3
<1>4. Len(s) - (Len(s) - first + 1) = first - 1
  BY <1>1, <1>2
<1>5. Len(s) - first + 1 = IF Len(s) > cap THEN cap ELSE Len(s)
  BY <1>1
<1>6. ASSUME NEW i \in 1..(Len(s) - first + 1)
      PROVE  first + i - 1 = Len(s) - (Len(s) - first + 1) + i
  BY <1>1, <1>2
<1> HIDE DEF cap, first
<1> QED
  BY <1>2, <1>3, <1>5, <1>6 DEF cap

\* Cutting after every write is cutting once at the end.
LEMMA KeepAfterAppend ==
    ASSUME NEW S, NEW s \in Seq(S), NEW x \in S
    PROVE  Keep(Append(Keep(s), x)) = Keep(Append(s, x))
<1> DEFINE k == Keep(s)
           a == Append(k, x)
           b == Append(s, x)
<1>1. MaxReadingsPerDevice \in Nat \ {0}
  BY TelemetryAssumption
<1>2. /\ k \in Seq(S)
      /\ Len(k) = IF Len(s) > MaxReadingsPerDevice THEN MaxReadingsPerDevice ELSE Len(s)
      /\ \A i \in 1..Len(k) : k[i] = s[Len(s) - Len(k) + i]
  BY KeepIsEnd
<1> HIDE DEF k
<1>3. /\ a \in Seq(S) /\ Len(a) = Len(k) + 1
      /\ \A i \in 1..Len(a) : a[i] = IF i = Len(k) + 1 THEN x ELSE k[i]
  BY <1>2
<1>4. /\ b \in Seq(S) /\ Len(b) = Len(s) + 1
      /\ \A i \in 1..Len(b) : b[i] = IF i = Len(s) + 1 THEN x ELSE s[i]
  OBVIOUS
<1> HIDE DEF a, b
<1>5. /\ Keep(a) \in Seq(S)
      /\ Len(Keep(a)) = IF Len(a) > MaxReadingsPerDevice THEN MaxReadingsPerDevice ELSE Len(a)
      /\ \A i \in 1..Len(Keep(a)) : Keep(a)[i] = a[Len(a) - Len(Keep(a)) + i]
  BY <1>3, KeepIsEnd
<1>6. /\ Keep(b) \in Seq(S)
      /\ Len(Keep(b)) = IF Len(b) > MaxReadingsPerDevice THEN MaxReadingsPerDevice ELSE Len(b)
      /\ \A i \in 1..Len(Keep(b)) : Keep(b)[i] = b[Len(b) - Len(Keep(b)) + i]
  BY <1>4, KeepIsEnd
<1>7. Len(Keep(a)) = Len(Keep(b))
  BY <1>1, <1>2, <1>3, <1>4, <1>5, <1>6
<1>8. ASSUME NEW i \in 1..Len(Keep(b))
      PROVE  Keep(a)[i] = Keep(b)[i]
  <2>1. Keep(a)[i] = a[Len(a) - Len(Keep(b)) + i] /\ Keep(b)[i] = b[Len(b) - Len(Keep(b)) + i]
    BY <1>5, <1>6, <1>7, <1>8
  <2>2. Len(s) \in Nat /\ Len(k) \in Nat /\ Len(Keep(b)) \in Nat
    BY <1>2, <1>6
  <2> DEFINE m == Len(Keep(b))
  <2>10. m \in Nat /\ i \in 1..m /\ m <= Len(s) + 1 /\ m <= Len(k) + 1
    BY <1>1, <1>2, <1>3, <1>4, <1>5, <1>6, <1>7, <2>2
  <2> HIDE DEF m
  <2>3. /\ Len(a) - m + i \in 1..Len(a)
        /\ Len(b) - m + i \in 1..Len(b)
        /\ Len(b) - m + i = Len(s) - Len(k) + (Len(a) - m + i)
    BY <1>3, <1>4, <2>2, <2>10
  <2> DEFINE p == Len(a) - m + i
             q == Len(b) - m + i
  <2>4. a[p] = IF p = Len(k) + 1 THEN x ELSE k[p]
    BY <1>3, <2>3
  <2>5. b[q] = IF q = Len(s) + 1 THEN x ELSE s[q]
    BY <1>4, <2>3
  <2>6. p \in Int /\ q \in Int /\ q = Len(s) - Len(k) + p /\ p \in 1..(Len(k) + 1)
    BY <1>3, <2>2, <2>3
  <2> HIDE DEF p, q
  <2>7. p # Len(k) + 1 => k[p] = s[q]
    BY <1>2, <2>2, <2>6
  <2>8. p = Len(k) + 1 <=> q = Len(s) + 1
    BY <2>2, <2>6
  <2>9. a[p] = b[q]
    BY <2>4, <2>5, <2>7, <2>8
  <2> QED
    BY <2>1, <2>9 DEF m, p, q
<1>9. Keep(a) = Keep(b)
  BY <1>5, <1>6, <1>7, <1>8
<1> QED
  BY <1>9 DEF a, b, k

-----------------------------------------------------------------------------
(* The operations. *)

\* An empty store is in order.
LEMMA EmptyStore ==
    ASSUME /\ devices \in [Devices -> [org : Orgs \union {NoOrg}, seen : BOOLEAN]]
           /\ readings = [d \in Devices |-> <<>>]
           /\ history = [d \in Devices |-> <<>>]
    PROVE  DBInv
<1>1. MaxReadingsPerDevice \in Nat \ {0}
  BY TelemetryAssumption
<1>2. Keep(<<>>) = <<>>
  <2>1. <<>> \in Seq(Samples) /\ Len(<<>>) = 0 /\ ~(0 > MaxReadingsPerDevice)
    BY <1>1
  <2>2. /\ Keep(<<>>) \in Seq(Samples)
        /\ Len(Keep(<<>>)) = IF Len(<<>>) > MaxReadingsPerDevice
                             THEN MaxReadingsPerDevice ELSE Len(<<>>)
    BY <2>1, KeepIsEnd
  <2> QED
    BY <2>1, <2>2
<1> QED
  BY <1>1, <1>2 DEF DBInv, TypeOK, KeepsNewest

\* A write keeps the store in order.
LEMMA RecordKeeps ==
    ASSUME DBInv, NEW d \in Devices, NEW sample \in Samples, RecordReading(d, sample)
    PROVE  DBInv'
<1>1. devices' \in [Devices -> [org : Orgs \union {NoOrg}, seen : BOOLEAN]]
  BY DEF DBInv, TypeOK, RecordReading
<1>2. history' \in [Devices -> Seq(Samples)] /\ history'[d] = Append(history[d], sample)
  BY DEF DBInv, TypeOK, RecordReading
<1>3. readings'[d] = Keep(Append(history[d], sample))
  <2>1. history[d] \in Seq(Samples) /\ readings[d] = Keep(history[d])
    BY DEF DBInv, TypeOK, KeepsNewest
  <2>2. readings'[d] = Keep(Append(readings[d], sample))
    BY DEF DBInv, TypeOK, RecordReading
  <2> QED
    BY <2>1, <2>2, KeepAfterAppend
<1>4. \A e \in Devices : e # d => readings'[e] = readings[e] /\ history'[e] = history[e]
  BY DEF DBInv, TypeOK, RecordReading
<1>5. KeepsNewest'
  BY <1>2, <1>3, <1>4 DEF DBInv, KeepsNewest
<1>6. ASSUME NEW e \in Devices
      PROVE  readings'[e] \in Seq(Samples) /\ Len(readings'[e]) <= MaxReadingsPerDevice
  <2>1. history'[e] \in Seq(Samples) /\ readings'[e] = Keep(history'[e])
    BY <1>2, <1>5 DEF KeepsNewest
  <2> QED
    BY <2>1, KeepIsEnd, TelemetryAssumption
<1>7. readings' \in [Devices -> Seq(Samples)]
  <2>1. readings' = [readings EXCEPT ![d] = Keep(Append(@, sample))]
    BY DEF RecordReading
  <2>2. DOMAIN readings' = Devices
    BY <2>1 DEF DBInv, TypeOK
  <2> QED
    BY <1>6, <2>1, <2>2 DEF DBInv, TypeOK
<1> QED
  BY <1>1, <1>2, <1>5, <1>6, <1>7 DEF DBInv, TypeOK

\* Enrolment keeps the store in order.
LEMMA EnrolKeeps ==
    ASSUME DBInv, NEW d \in Devices, NEW org \in Orgs, Enrol(d, org)
    PROVE  DBInv'
BY DEF DBInv, TypeOK, KeepsNewest, Enrol

\* So does a step that leaves it alone.
LEMMA StandsStill ==
    ASSUME DBInv, UNCHANGED dbVars
    PROVE  DBInv'
BY DEF DBInv, TypeOK, KeepsNewest, dbVars

-----------------------------------------------------------------------------
(* The reads. *)

\* A reader of the device's own organisation gets the end of its history, newest
\* first, as far as the limit, the cap and the history go.
LEMMA ReadingsAreNewest ==
    ASSUME DBInv, NEW d \in Devices, NEW limit \in Int
    PROVE  LET h    == history[d]
               rows == Readings(devices[d].org, d, limit)
               cap  == EffectiveLimit(limit)
           IN  /\ Len(rows) \in Nat
               /\ Len(rows) = IF Len(h) < cap THEN Len(h) ELSE cap
               /\ \A i \in 1..Len(rows) : rows[i] = h[Len(h) - i + 1]
<1> DEFINE h == history[d]
           s == readings[d]
           cap == EffectiveLimit(limit)
           n == IF Len(s) < cap THEN Len(s) ELSE cap
           rows == Readings(devices[d].org, d, limit)
<1>1. MaxReadingsPerDevice \in Nat \ {0}
  BY TelemetryAssumption
<1>2. cap \in Nat /\ cap <= MaxReadingsPerDevice
  <2>1. CASE limit <= 0 \/ limit > MaxReadingsPerDevice
    BY <1>1, <2>1 DEF EffectiveLimit
  <2>2. CASE ~(limit <= 0 \/ limit > MaxReadingsPerDevice)
    <3>1. cap = limit
      BY <2>2 DEF EffectiveLimit
    <3> QED
      BY <1>1, <2>2, <3>1
  <2> QED
    BY <2>1, <2>2
<1>3. h \in Seq(Samples) /\ s = Keep(h)
  BY DEF DBInv, TypeOK, KeepsNewest
<1>4. /\ s \in Seq(Samples)
      /\ Len(s) = IF Len(h) > MaxReadingsPerDevice THEN MaxReadingsPerDevice ELSE Len(h)
      /\ \A i \in 1..Len(s) : s[i] = h[Len(h) - Len(s) + i]
  BY <1>3, KeepIsEnd
<1>5. rows = [i \in 1..n |-> s[Len(s) - i + 1]]
  BY DEF Readings
<1> HIDE DEF h, s, cap, rows
<1>6. Len(h) \in Nat /\ Len(s) \in Nat
  BY <1>3, <1>4
<1>7. n \in Nat /\ n = (IF Len(h) < cap THEN Len(h) ELSE cap)
  BY <1>1, <1>2, <1>4, <1>6
<1>8. Len(rows) = n
  BY <1>5, <1>7
<1>9. ASSUME NEW i \in 1..n
      PROVE  rows[i] = h[Len(h) - i + 1]
  <2>1. rows[i] = s[Len(s) - i + 1]
    BY <1>5
  <2>2. Len(s) - i + 1 \in 1..Len(s)
    BY <1>2, <1>6
  <2>3. s[Len(s) - i + 1] = h[Len(h) - Len(s) + (Len(s) - i + 1)]
    BY <1>4, <2>2
  <2>4. Len(h) - Len(s) + (Len(s) - i + 1) = Len(h) - i + 1
    BY <1>6
  <2> QED
    BY <2>1, <2>3, <2>4
<1> QED
  BY <1>7, <1>8, <1>9 DEF h, cap, rows

\* What is read is a sequence.
LEMMA RowsAreFunction ==
    ASSUME DBInv, NEW d \in Devices, NEW limit \in Int
    PROVE  LET rows == Readings(devices[d].org, d, limit)
           IN  rows = [i \in 1..Len(rows) |-> rows[i]]
<1> DEFINE s == readings[d]
           n == IF Len(s) < EffectiveLimit(limit) THEN Len(s) ELSE EffectiveLimit(limit)
           rows == Readings(devices[d].org, d, limit)
<1>1. n \in Nat
  BY TelemetryAssumption DEF DBInv, TypeOK, EffectiveLimit
<1>2. rows = [i \in 1..n |-> s[Len(s) - i + 1]]
  BY DEF Readings
<1> HIDE DEF n, s, rows
<1>3. Len(rows) = n
  BY <1>1, <1>2
<1> QED
  BY <1>2, <1>3 DEF rows

\* A store in order shows each organisation the newest readings of its devices.
LEMMA OrderedStoreShowsNewest == DBInv => NewestFirstWithoutGap
<1> SUFFICES ASSUME DBInv,
                    NEW d \in Devices,
                    NEW limit \in -1..(MaxReadingsPerDevice + 1)
             PROVE  LET h    == history[d]
                        rows == Readings(devices[d].org, d, limit)
                    IN  /\ \A i \in 1..Len(rows) : rows[i] = h[Len(h) - i + 1]
                        /\ Len(rows) < Len(h) =>
                              Len(rows) = IF limit \in 1..MaxReadingsPerDevice
                                          THEN limit ELSE MaxReadingsPerDevice
  BY DEF NewestFirstWithoutGap
<1> DEFINE h == history[d]
           rows == Readings(devices[d].org, d, limit)
<1>1. MaxReadingsPerDevice \in Nat \ {0} /\ limit \in Int
  BY TelemetryAssumption
<1>2. /\ Len(rows) \in Nat
      /\ Len(rows) = IF Len(h) < EffectiveLimit(limit) THEN Len(h) ELSE EffectiveLimit(limit)
      /\ \A i \in 1..Len(rows) : rows[i] = h[Len(h) - i + 1]
  BY <1>1, ReadingsAreNewest
<1>3. EffectiveLimit(limit) =
        IF limit \in 1..MaxReadingsPerDevice THEN limit ELSE MaxReadingsPerDevice
  BY <1>1 DEF EffectiveLimit
<1>4. Len(h) \in Nat
  BY DEF DBInv, TypeOK
<1> HIDE DEF h, rows
<1>5. Len(rows) < Len(h) => Len(rows) = EffectiveLimit(limit)
  BY <1>2, <1>4
<1> QED
  BY <1>2, <1>3, <1>5 DEF h, rows
=============================================================================
