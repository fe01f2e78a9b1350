----------------------------- MODULE RolloutProofs -----------------------------
(***************************************************************************)
(* Theorems about Rollout, for every set of requests, callers and          *)
(* manifests and every number of restarts: types and the standing of       *)
(* requests, what leaves for the CDN and what the log says of it, the      *)
(* order of the acceptances of an organisation, what list shows, and that  *)
(* Rollout implements ReleaseLog.                                          *)
(***************************************************************************)
EXTENDS Rollout, DataFacts

-----------------------------------------------------------------------------
(* Types, and what the standing of a request says. *)

\* Behind a request in flight stand a known caller and a manifest.
LEMMA InFlightIsAdmitted ==
    ASSUME RequestInv, NEW r \in Requests, pc[r] \in {"published", "refusing"}
    PROVE  caller[r] \in Subjects /\ manifest[r] \in Manifests
BY DEF RequestInv, Granted

\* The record written for a request in flight leaves the log well typed.
LEMMA RecordType ==
    ASSUME TypeOK, NEW r \in Requests, caller[r] \in Subjects,
           manifest[r] \in Manifests, NEW action \in RolloutActions
    PROVE  Record(r, action) \in Seq(AuditEntry)
<1> DEFINE e == [req |-> r, org |-> OrgOf[caller[r]], actor |-> caller[r],
                 action |-> action, target |-> manifest[r].version]
<1>1. e \in AuditEntry
  BY DEF AuditEntry, Orgs
<1>2. Record(r, action) = Append(audit, e)
  BY DEF Record, AppendAudit, Entry
<1>3. audit \in Seq(AuditEntry)
  BY DEF TypeOK
<1> HIDE DEF e
<1> QED
  BY <1>1, <1>2, <1>3

\* Action by action; only a record needs more than the types themselves.
LEMMA TypeStep ==
    ASSUME TypeOK, RequestInv, [Next]_vars
    PROVE  TypeOK'
<1> USE RolloutAssumption DEF TypeOK, request, process, Steps
<1>1. ASSUME NEW r \in Requests, NEW c \in Subjects \union {Nobody}, Deny(r, c)
      PROVE  TypeOK'
  BY <1>1 DEF Deny, DeniedStatus
<1>2. ASSUME NEW r \in Requests, NEW c \in Subjects, NEW m \in Manifests,
             RefuseManifest(r, c, m)
      PROVE  TypeOK'
  BY <1>2 DEF RefuseManifest, RefusalStatus
<1>3. ASSUME NEW r \in Requests, NEW c \in Subjects, NEW m \in Manifests,
             Admit(r, c, m)
      PROVE  TypeOK'
  BY <1>3 DEF Admit
<1>4. ASSUME NEW r \in Requests, RefuseDowngrade(r) PROVE TypeOK'
  BY <1>4 DEF RefuseDowngrade
<1>5. ASSUME NEW r \in Requests, SendPublish(r) PROVE TypeOK'
  BY <1>5 DEF SendPublish
<1>6. ASSUME NEW r \in Requests, PublishSucceeds(r) PROVE TypeOK'
  BY <1>6 DEF PublishSucceeds
<1>7. ASSUME NEW r \in Requests, PublishFails(r) PROVE TypeOK'
  BY <1>7 DEF PublishFails
<1>8. ASSUME NEW r \in Requests, Accept(r) PROVE TypeOK'
  <2>1. audit' \in Seq(AuditEntry)
    <3>1. caller[r] \in Subjects /\ manifest[r] \in Manifests
      <4>1. pc[r] \in {"published", "refusing"}
        BY <1>8 DEF Accept
      <4> QED
        BY <4>1, InFlightIsAdmitted
    <3>2. audit' = Record(r, Accepted) /\ Accepted \in RolloutActions
      BY <1>8 DEF Accept, RolloutActions
    <3> QED
      BY <3>1, <3>2, RecordType
  <2> QED
    BY <1>8, <2>1 DEF Accept
<1>9. ASSUME NEW r \in Requests, Reject(r) PROVE TypeOK'
  <2>1. audit' \in Seq(AuditEntry)
    <3>1. caller[r] \in Subjects /\ manifest[r] \in Manifests
      <4>1. pc[r] \in {"published", "refusing"}
        BY <1>9 DEF Reject
      <4> QED
        BY <4>1, InFlightIsAdmitted
    <3>2. audit' = Record(r, Rejected) /\ Rejected \in RolloutActions
      BY <1>9 DEF Reject, RolloutActions
    <3> QED
      BY <3>1, <3>2, RecordType
  <2> QED
    BY <1>9, <2>1 DEF Reject
<1>10. ASSUME NEW r \in Requests, Answer(r) PROVE TypeOK'
  BY <1>10 DEF Answer
<1>11. ASSUME NEW r \in Requests, CdnTakes(r) PROVE TypeOK'
  BY <1>11 DEF CdnTakes
<1>12. ASSUME NEW r \in Requests, CdnRefuses(r) PROVE TypeOK'
  BY <1>12 DEF CdnRefuses
<1>13. CASE BeginShutdown
  BY <1>13 DEF BeginShutdown
<1>14. CASE Exit
  BY <1>14 DEF Exit
<1>15. CASE Start
  BY <1>15 DEF Start
<1>16. CASE UNCHANGED vars
  BY <1>16 DEF vars
<1> QED
  BY SMTT(30), <1>1, <1>2, <1>3, <1>4, <1>5, <1>6, <1>7, <1>8, <1>9, <1>10, <1>11, <1>12,
     <1>13, <1>14, <1>15, <1>16
     DEF Next, Handle, ShutdownCompletes, ShutdownTimesOut, Crash

\* Each action moves a request to where RequestInv says the same of it.
LEMMA RequestStep ==
    ASSUME TypeOK, RequestInv, [Next]_vars
    PROVE  RequestInv'
<1> USE RolloutAssumption DEF TypeOK, RequestInv, request, process, Granted
<1>1. ASSUME NEW r \in Requests, NEW c \in Subjects \union {Nobody}, Deny(r, c)
      PROVE  RequestInv'
  BY <1>1 DEF Deny
<1>2. ASSUME NEW r \in Requests, NEW c \in Subjects, NEW m \in Manifests,
             RefuseManifest(r, c, m)
      PROVE  RequestInv'
  BY <1>2 DEF RefuseManifest, RefusalStatus
<1>3. ASSUME NEW r \in Requests, NEW c \in Subjects, NEW m \in Manifests,
             Admit(r, c, m)
      PROVE  RequestInv'
  BY <1>3 DEF Admit, Verified
<1>4. ASSUME NEW r \in Requests, RefuseDowngrade(r) PROVE RequestInv'
  BY <1>4 DEF RefuseDowngrade
<1>5. ASSUME NEW r \in Requests, SendPublish(r) PROVE RequestInv'
  BY <1>5 DEF SendPublish
<1>6. ASSUME NEW r \in Requests, PublishSucceeds(r) PROVE RequestInv'
  BY <1>6 DEF PublishSucceeds
<1>7. ASSUME NEW r \in Requests, PublishFails(r) PROVE RequestInv'
  BY <1>7 DEF PublishFails
<1>8. ASSUME NEW r \in Requests, Accept(r) PROVE RequestInv'
  BY <1>8 DEF Accept
<1>9. ASSUME NEW r \in Requests, Reject(r) PROVE RequestInv'
  BY <1>9 DEF Reject
<1>10. ASSUME NEW r \in Requests, Answer(r) PROVE RequestInv'
  BY <1>10 DEF Answer
<1>11. ASSUME NEW r \in Requests, CdnTakes(r) PROVE RequestInv'
  BY <1>11 DEF CdnTakes
<1>12. ASSUME NEW r \in Requests, CdnRefuses(r) PROVE RequestInv'
  BY <1>12 DEF CdnRefuses
<1>13. CASE BeginShutdown
  BY <1>13 DEF BeginShutdown
<1>14. CASE Exit
  BY <1>14 DEF Exit
<1>15. CASE Start
  BY <1>15 DEF Start
<1>16. CASE UNCHANGED vars
  BY <1>16 DEF vars
<1> QED
  BY <1>1, <1>2, <1>3, <1>4, <1>5, <1>6, <1>7, <1>8, <1>9, <1>10, <1>11, <1>12,
     <1>13, <1>14, <1>15, <1>16
     DEF Next, Handle, ShutdownCompletes, ShutdownTimesOut, Crash

\* Every variable of the service keeps its type, and the standing of every
\* request says what RequestInv reads from it.
THEOREM TypeCorrect == Spec => [](TypeOK /\ RequestInv)
<1>1. Init => TypeOK /\ RequestInv
  BY RolloutAssumption DEF Init, TypeOK, RequestInv, Steps, NoManifest
<1>2. TypeOK /\ RequestInv /\ [Next]_vars => (TypeOK /\ RequestInv)'
  BY TypeStep, RequestStep
<1> QED
  BY <1>1, <1>2, PTL DEF Spec

-----------------------------------------------------------------------------
(* What leaves for the CDN, and what the log says of it. *)

\* What is sent was verified, and what was sent is not refused any more.
LEMMA VettedStep ==
    ASSUME TypeOK, RequestInv, OnlyVettedReleasesLeave, [Next]_vars
    PROVE  OnlyVettedReleasesLeave'
<1> USE DEF TypeOK, RequestInv, OnlyVettedReleasesLeave, request, process, Granted
<1>1. ASSUME NEW r \in Requests, NEW c \in Subjects \union {Nobody}, Deny(r, c)
      PROVE  OnlyVettedReleasesLeave'
  BY <1>1 DEF Deny
<1>2. ASSUME NEW r \in Requests, NEW c \in Subjects, NEW m \in Manifests,
             RefuseManifest(r, c, m)
      PROVE  OnlyVettedReleasesLeave'
  BY <1>2 DEF RefuseManifest
<1>3. ASSUME NEW r \in Requests, NEW c \in Subjects, NEW m \in Manifests,
             Admit(r, c, m)
      PROVE  OnlyVettedReleasesLeave'
  BY <1>3 DEF Admit
<1>4. ASSUME NEW r \in Requests, RefuseDowngrade(r) PROVE OnlyVettedReleasesLeave'
  BY <1>4 DEF RefuseDowngrade
<1>5. ASSUME NEW r \in Requests, SendPublish(r) PROVE OnlyVettedReleasesLeave'
  <2>1. /\ wire' = wire \union {r} /\ cdn' = cdn
        /\ manifest' = manifest /\ caller' = caller /\ status' = status
    BY <1>5 DEF SendPublish
  <2>2. pc[r] = "deciding"
    BY <1>5 DEF SendPublish
  <2>3. manifest[r].check = "ok" /\ Granted(caller[r]) /\ status[r] = 0
    <3>1. manifest[r].check = "ok"
      BY <2>2
    <3>2. Granted(caller[r])
      BY <2>2
    <3>3. status[r] = 0
      BY <2>2
    <3> QED
      BY <3>1, <3>2, <3>3
  <2> QED
    BY <2>1, <2>3
<1>6. ASSUME NEW r \in Requests, PublishFails(r) PROVE OnlyVettedReleasesLeave'
  BY <1>6 DEF PublishFails
<1>7. ASSUME NEW r \in Requests, Accept(r) PROVE OnlyVettedReleasesLeave'
  BY <1>7 DEF Accept
<1>8. ASSUME NEW r \in Requests, CdnTakes(r) PROVE OnlyVettedReleasesLeave'
  BY <1>8 DEF CdnTakes
<1>9. ASSUME NEW r \in Requests, CdnRefuses(r) PROVE OnlyVettedReleasesLeave'
  BY <1>9 DEF CdnRefuses
<1>10. CASE UNCHANGED <<manifest, caller, status, wire, cdn>>
  BY <1>10
<1> QED
  BY <1>1, <1>2, <1>3, <1>4, <1>5, <1>6, <1>7, <1>8, <1>9, <1>10
     DEF Next, Handle, PublishSucceeds, Reject, Answer, BeginShutdown,
         ShutdownCompletes, ShutdownTimesOut, Crash, Exit, Start, vars

\* Whatever the callers send, and whenever the CDN takes a call, only verified
\* manifests of admins that were not refused reach it.
THEOREM VettedReleases == Spec => []OnlyVettedReleasesLeave
<1>1. Init => OnlyVettedReleasesLeave
  BY DEF Init, OnlyVettedReleasesLeave
<1>2. TypeOK /\ RequestInv /\ OnlyVettedReleasesLeave /\ [Next]_vars
         => OnlyVettedReleasesLeave'
  BY VettedStep
<1> QED
  BY <1>1, <1>2, TypeCorrect, PTL DEF Spec

\* How a record extends the log.
LEMMA RecordExtends ==
    ASSUME TypeOK, NEW r \in Requests, NEW action,
           NEW new, new = Record(r, action)
    PROVE  /\ Len(audit) \in Nat
           /\ Len(new) = Len(audit) + 1
           /\ \A i \in 1..Len(audit) : new[i] = audit[i]
           /\ new[Len(audit) + 1].req = r
           /\ new[Len(audit) + 1].org = OrgOf[caller[r]]
           /\ new[Len(audit) + 1].actor = caller[r]
           /\ new[Len(audit) + 1].action = action
           /\ new[Len(audit) + 1].target = manifest[r].version
<1> DEFINE e == [req |-> r, org |-> OrgOf[caller[r]], actor |-> caller[r],
                 action |-> action, target |-> manifest[r].version]
<1>1. new = Append(audit, e)
  BY DEF Record, AppendAudit, Entry
<1>2. audit \in Seq(AuditEntry)
  BY DEF TypeOK
<1>3. /\ Len(audit) \in Nat
      /\ Len(new) = Len(audit) + 1
      /\ \A i \in 1..Len(audit) : new[i] = audit[i]
      /\ new[Len(audit) + 1] = e
  <2> HIDE DEF e
  <2> QED
    BY <1>1, <1>2
<1> QED
  BY <1>3

\* The entries of a log one record longer: one more for the request recorded.
LEMMA EntriesForExtended ==
    ASSUME TypeOK, NEW r \in Requests, NEW action, audit' = Record(r, action)
    PROVE  /\ EntriesFor(r)' = EntriesFor(r) \union {Len(audit) + 1}
           /\ \A x \in Requests \ {r} : EntriesFor(x)' = EntriesFor(x)
<1>1. /\ Len(audit) \in Nat
      /\ Len(audit') = Len(audit) + 1
      /\ \A i \in 1..Len(audit) : audit'[i] = audit[i]
      /\ audit'[Len(audit) + 1].req = r
  BY RecordExtends
<1>2. 1..Len(audit') = (1..Len(audit)) \union {Len(audit) + 1}
  BY <1>1
<1> QED
  BY <1>1, <1>2 DEF EntriesFor

\* A step that leaves the log, and all it says of a request, leaves its record.
LEMMA RecordKept ==
    ASSUME NEW x \in Requests, audit' = audit, Settled(x)' = Settled(x),
           Settled(x) => /\ caller'[x] = caller[x]
                         /\ manifest'[x] = manifest[x]
                         /\ status'[x] = status[x]
    PROVE  /\ EntriesFor(x)' = EntriesFor(x)
           /\ Settled(x) => \A i \in 1..Len(audit) : IsRecordOf(i, x) => IsRecordOf(i, x)'
<1>1. EntriesFor(x)' = EntriesFor(x)
  BY DEF EntriesFor
<1>2. ASSUME Settled(x), NEW i \in 1..Len(audit), IsRecordOf(i, x)
      PROVE  IsRecordOf(i, x)'
  BY <1>1, <1>2 DEF IsRecordOf
<1> QED
  BY <1>1, <1>2

\* A record is written for a request that has none: it is that request's one.
LEMMA RecordedByRecord ==
    ASSUME TypeOK, RequestInv, RecordedBeforeAnswered,
           NEW r \in Requests, NEW action,
           pc[r] \in {"published", "refusing"},
           audit' = Record(r, action),
           action = (IF status'[r] = 202 THEN Accepted ELSE Rejected),
           pc'[r] = "answering",
           \A x \in Requests \ {r} : pc'[x] = pc[x] /\ status'[x] = status[x],
           caller' = caller, manifest' = manifest
    PROVE  RecordedBeforeAnswered'
<1>0. PICK n : n = Len(audit) + 1
  OBVIOUS
<1>1. /\ Len(audit) \in Nat
      /\ Len(audit') = n
      /\ \A i \in 1..Len(audit) : audit'[i] = audit[i]
      /\ audit'[n].org = OrgOf[caller[r]]
      /\ audit'[n].actor = caller[r]
      /\ audit'[n].action = action
      /\ audit'[n].target = manifest[r].version
  BY <1>0, RecordExtends
<1>2. /\ EntriesFor(r)' = EntriesFor(r) \union {n}
      /\ \A x \in Requests \ {r} : EntriesFor(x)' = EntriesFor(x)
  BY <1>0, EntriesForExtended
<1>3. ~Settled(r) /\ EntriesFor(r) = {}
  BY DEF RecordedBeforeAnswered, Settled
<1>5. n \in 1..Len(audit') /\ (1..Len(audit)) \subseteq 1..Len(audit')
  BY <1>0, <1>1
<1>6. Settled(r)' /\ IsRecordOf(n, r)'
  <2>1. Granted(caller[r])'
    BY DEF RequestInv, Granted
  <2>2. Settled(r)'
    BY <2>1 DEF Settled
  <2>3. EntriesFor(r)' = {n}
    BY <1>2, <1>3
  <2>4. IsRecordOf(n, r)'
    BY <1>1, <2>3 DEF IsRecordOf
  <2> QED
    BY <2>2, <2>4
<1>7. ASSUME NEW x \in Requests \ {r}
      PROVE  IF Settled(x)'
             THEN \E i \in 1..Len(audit') : IsRecordOf(i, x)'
             ELSE EntriesFor(x)' = {}
  <2>1. Settled(x)' = Settled(x)
    BY DEF Settled, Granted
  <2>2. ASSUME NEW i \in 1..Len(audit), IsRecordOf(i, x)
        PROVE  IsRecordOf(i, x)'
    BY <1>1, <1>2, <2>2 DEF IsRecordOf
  <2> QED
    BY <1>2, <1>5, <2>1, <2>2 DEF RecordedBeforeAnswered
<1>8. ASSUME NEW x \in Requests
      PROVE  IF Settled(x)'
             THEN \E i \in 1..Len(audit') : IsRecordOf(i, x)'
             ELSE EntriesFor(x)' = {}
  <2>1. CASE x = r
    BY <1>5, <1>6, <2>1
  <2>2. CASE x # r
    BY <1>7, <2>2
  <2> QED
    BY <2>1, <2>2
<1> QED
  BY <1>8 DEF RecordedBeforeAnswered

\* Accept and Reject record a request that had no entry; the others record none.
LEMMA RecordedStep ==
    ASSUME TypeOK, RequestInv, RecordedBeforeAnswered, [Next]_vars
    PROVE  RecordedBeforeAnswered'
<1> USE DEF process, request
<1>1. ASSUME NEW r \in Requests, Accept(r) PROVE RecordedBeforeAnswered'
  <2>1. /\ status'[r] = 202 /\ pc'[r] = "answering"
        /\ \A x \in Requests \ {r} : pc'[x] = pc[x] /\ status'[x] = status[x]
    BY <1>1 DEF Accept, TypeOK
  <2>2. /\ pc[r] \in {"published", "refusing"}
        /\ audit' = Record(r, Accepted)
        /\ Accepted = IF status'[r] = 202 THEN Accepted ELSE Rejected
        /\ caller' = caller /\ manifest' = manifest
    BY <1>1, <2>1 DEF Accept
  <2> QED
    BY <2>1, <2>2, RecordedByRecord
<1>2. ASSUME NEW r \in Requests, Reject(r) PROVE RecordedBeforeAnswered'
  <2>0. status[r] # 202
    BY <1>2 DEF Reject, RequestInv
  <2>1. /\ status'[r] # 202 /\ pc'[r] = "answering"
        /\ \A x \in Requests \ {r} : pc'[x] = pc[x] /\ status'[x] = status[x]
    BY <1>2, <2>0 DEF Reject, TypeOK
  <2>2. /\ pc[r] \in {"published", "refusing"}
        /\ audit' = Record(r, Rejected)
        /\ Rejected = IF status'[r] = 202 THEN Accepted ELSE Rejected
        /\ caller' = caller /\ manifest' = manifest
    BY <1>2, <2>1 DEF Reject
  <2> QED
    BY <2>1, <2>2, RecordedByRecord
<1>3. CASE Exit
  <2>1. \A x \in Requests : ~Settled(x)' /\ EntriesFor(x)' = {}
    BY <1>3 DEF Exit, Settled, EntriesFor
  <2> QED
    BY <2>1 DEF RecordedBeforeAnswered
<1>4. ASSUME audit' = audit,
             \A x \in Requests :
                /\ Settled(x)' = Settled(x)
                /\ Settled(x) => /\ caller'[x] = caller[x]
                                 /\ manifest'[x] = manifest[x]
                                 /\ status'[x] = status[x]
      PROVE  RecordedBeforeAnswered'
  BY <1>4, RecordKept DEF RecordedBeforeAnswered
<1>5. ASSUME NEW r \in Requests, NEW c \in Subjects \union {Nobody}, Deny(r, c)
      PROVE  RecordedBeforeAnswered'
  BY <1>4, <1>5 DEF Deny, Settled, Granted, TypeOK
<1>6. ASSUME NEW r \in Requests, NEW c \in Subjects, NEW m \in Manifests,
             RefuseManifest(r, c, m) \/ Admit(r, c, m)
      PROVE  RecordedBeforeAnswered'
  BY <1>4, <1>6 DEF RefuseManifest, Admit, Settled, Granted, TypeOK
<1>7. ASSUME NEW r \in Requests,
             \/ RefuseDowngrade(r) \/ SendPublish(r)
             \/ PublishSucceeds(r) \/ PublishFails(r) \/ Answer(r)
      PROVE  RecordedBeforeAnswered'
  BY <1>4, <1>7 DEF RefuseDowngrade, SendPublish, PublishSucceeds, PublishFails,
     Answer, Settled, Granted, TypeOK
<1>8. CASE UNCHANGED <<audit, pc, caller, manifest, status>>
  BY <1>4, <1>8 DEF Settled, Granted
<1> QED
  BY <1>1, <1>2, <1>3, <1>5, <1>6, <1>7, <1>8
     DEF Next, Handle, CdnTakes, CdnRefuses, BeginShutdown,
         ShutdownCompletes, ShutdownTimesOut, Crash, Start, vars

\* Every answered attempt that got past the guard has exactly one entry, true
\* to its caller, its organisation and its outcome, and no other request has.
THEOREM AttemptsRecorded == Spec => []RecordedBeforeAnswered
<1>1. Init => RecordedBeforeAnswered
  BY DEF Init, RecordedBeforeAnswered, Settled, EntriesFor
<1>2. TypeOK /\ RequestInv /\ RecordedBeforeAnswered /\ [Next]_vars
         => RecordedBeforeAnswered'
  BY RecordedStep
<1> QED
  BY <1>1, <1>2, TypeCorrect, PTL DEF Spec

\* Accept records what the CDN has taken, and the CDN gives nothing back.
LEMMA PublishedStep ==
    ASSUME TypeOK, RequestInv, AcceptedWasPublished, [Next]_vars
    PROVE  AcceptedWasPublished'
<1> USE DEF process, request
<1>1. ASSUME NEW r \in Requests, Accept(r) PROVE AcceptedWasPublished'
  <2>1. audit' = Record(r, Accepted) /\ cdn' = cdn /\ r \in cdn
    BY <1>1 DEF Accept, RequestInv
  <2> QED
    BY <2>1, RecordExtends DEF AcceptedWasPublished
<1>2. ASSUME NEW r \in Requests, Reject(r) PROVE AcceptedWasPublished'
  <2>1. audit' = Record(r, Rejected) /\ cdn' = cdn /\ Rejected # Accepted
    BY <1>2 DEF Reject, Accepted, Rejected
  <2> QED
    BY <2>1, RecordExtends DEF AcceptedWasPublished
<1>3. CASE Exit
  BY <1>3 DEF Exit, AcceptedWasPublished
<1>4. CASE audit' = audit /\ cdn \subseteq cdn'
  BY <1>4 DEF AcceptedWasPublished
<1> QED
  BY <1>1, <1>2, <1>3, <1>4
     DEF Next, Handle, Deny, RefuseManifest, Admit, RefuseDowngrade, SendPublish,
         PublishSucceeds, PublishFails, Answer, CdnTakes, CdnRefuses,
         BeginShutdown, ShutdownCompletes, ShutdownTimesOut, Crash, Start, vars

\* An acceptance in the log is of a release the CDN has taken.
THEOREM AcceptancesPublished == Spec => []AcceptedWasPublished
<1>1. Init => AcceptedWasPublished
  BY DEF Init, AcceptedWasPublished
<1>2. TypeOK /\ RequestInv /\ AcceptedWasPublished /\ [Next]_vars
         => AcceptedWasPublished'
  BY PublishedStep
<1> QED
  BY <1>1, <1>2, TypeCorrect, PTL DEF Spec

-----------------------------------------------------------------------------
(* Releases go up unless two creates overlap, and a refused downgrade is   *)
(* refused by the organisation's own history.  Both rest on the order of   *)
(* versions being transitive (DataFacts) and on what a create in flight    *)
(* knows of the part of the log it was decided from.                       *)

\* An organisation that has acceptances has a newest one.
NewestInv ==
    \A org \in Orgs : AcceptedBy(org) # {} =>
        \E i \in AcceptedBy(org) : \A j \in AcceptedBy(org) : j <= i

\* What was accepted was a version: it had passed verification.
AcceptedTargets ==
    \A i \in 1..Len(audit) : audit[i].action = Accepted => audit[i].target \in Version

\* i is the newest of the acceptances of org that stand at n or below.
NewestUpTo(org, n, i) ==
    /\ i \in AcceptedBy(org)
    /\ i <= n
    /\ \A j \in AcceptedBy(org) : j <= n => j <= i

\* What r sends is newer than the newest acceptance in the part of the log that
\* was read for it.
DecidedFromHistory(r) ==
    pc[r] \in {"publishing", "published"} =>
        /\ basis[r] <= Len(audit)
        /\ \A i \in AcceptedBy(OrgOf[caller[r]]) :
              NewestUpTo(OrgOf[caller[r]], basis[r], i) =>
                  Newer(manifest[r].version, audit[i].target)

OrderInv ==
    /\ NewestInv
    /\ AcceptedTargets
    /\ \A r \in Requests : DecidedFromHistory(r)

-----------------------------------------------------------------------------
(* The acceptances, and how a record adds to them. *)

\* Acceptances stand in the log.
LEMMA AcceptedStand ==
    ASSUME TypeOK, NEW org
    PROVE  Len(audit) \in Nat /\ AcceptedBy(org) \subseteq 1..Len(audit)
BY DEF TypeOK, AcceptedBy

\* The version create compares with is the newest acceptance's.
LEMMA CurrentIsNewest ==
    ASSUME TypeOK, NEW org \in Orgs, NEW i \in AcceptedBy(org),
           \A j \in AcceptedBy(org) : j <= i
    PROVE  CurrentVersion(audit, org) = audit[i].target
<1>1. Entries(audit, org, {Accepted}) = AcceptedBy(org)
  BY DEF Entries, AcceptedBy
<1>2. \A j \in AcceptedBy(org) : j \in Nat
  BY AcceptedStand
<1>3. Newest(AcceptedBy(org)) = i
  <2>1. /\ Newest(AcceptedBy(org)) \in AcceptedBy(org)
        /\ \A j \in AcceptedBy(org) : j <= Newest(AcceptedBy(org))
    BY DEF Newest
  <2> QED
    BY <1>2, <2>1
<1> QED
  BY <1>1, <1>3 DEF CurrentVersion

\* A record is one more acceptance of its caller's organisation, or none.
LEMMA AcceptedExtends ==
    ASSUME TypeOK, NEW r \in Requests, NEW action, audit' = Record(r, action)
    PROVE  \A org : AcceptedBy(org)' =
              IF action = Accepted /\ org = OrgOf[caller[r]]
              THEN AcceptedBy(org) \union {Len(audit) + 1}
              ELSE AcceptedBy(org)
<1>1. /\ Len(audit) \in Nat
      /\ Len(audit') = Len(audit) + 1
      /\ \A i \in 1..Len(audit) : audit'[i] = audit[i]
      /\ audit'[Len(audit) + 1].org = OrgOf[caller[r]]
      /\ audit'[Len(audit) + 1].action = action
  BY RecordExtends
<1>2. 1..Len(audit') = (1..Len(audit)) \union {Len(audit) + 1}
  BY <1>1
<1> QED
  BY <1>1, <1>2 DEF AcceptedBy

\* Only a record, or the end of the process, changes the log.
LEMMA LogSteps ==
    ASSUME [Next]_vars
    PROVE  \/ audit' = audit
           \/ audit' = <<>> /\ Exit
           \/ \E r \in Requests : Accept(r) \/ Reject(r)
BY DEF Next, Handle, Deny, RefuseManifest, Admit, RefuseDowngrade, SendPublish,
       PublishSucceeds, PublishFails, Answer, CdnTakes, CdnRefuses, Exit,
       BeginShutdown, ShutdownCompletes, ShutdownTimesOut, Crash, Start, vars

\* A new acceptance stands above all others, so it is the newest.
LEMMA NewestStep ==
    ASSUME TypeOK, NewestInv, [Next]_vars
    PROVE  NewestInv'
<1>1. CASE audit' = audit
  <2>1. \A org : AcceptedBy(org)' = AcceptedBy(org)
    BY <1>1 DEF AcceptedBy
  <2> QED
    BY <2>1 DEF NewestInv
<1>2. CASE audit' = <<>>
  BY <1>2 DEF NewestInv, AcceptedBy
<1>3. ASSUME NEW r \in Requests, NEW action, audit' = Record(r, action)
      PROVE  NewestInv'
  <2> SUFFICES ASSUME NEW org \in Orgs, AcceptedBy(org)' # {}
               PROVE  \E i \in AcceptedBy(org)' : \A j \in AcceptedBy(org)' : j <= i
    BY DEF NewestInv
  <2>1. PICK n : n = Len(audit) + 1
    OBVIOUS
  <2>2. AcceptedBy(org)' = AcceptedBy(org) \union {n} \/ AcceptedBy(org)' = AcceptedBy(org)
    BY <1>3, <2>1, AcceptedExtends
  <2>3. n \in Nat /\ \A j \in AcceptedBy(org) : j <= n
    BY <2>1, AcceptedStand
  <2> QED
    BY <2>2, <2>3 DEF NewestInv
<1> QED
  BY <1>1, <1>2, <1>3, LogSteps DEF Accept, Reject

\* Only a published, hence verified, manifest is accepted.
LEMMA TargetsStep ==
    ASSUME TypeOK, RequestInv, AcceptedTargets, [Next]_vars
    PROVE  AcceptedTargets'
<1>1. CASE audit' = audit
  BY <1>1 DEF AcceptedTargets
<1>2. CASE audit' = <<>>
  BY <1>2 DEF AcceptedTargets
<1>3. ASSUME NEW r \in Requests, Accept(r)
      PROVE  AcceptedTargets'
  <2>1. manifest[r].version \in Version
    BY <1>3, RolloutAssumption DEF Accept, RequestInv
  <2>2. audit' = Record(r, Accepted)
    BY <1>3 DEF Accept
  <2> QED
    BY <2>1, <2>2, RecordExtends DEF AcceptedTargets
<1>4. ASSUME NEW r \in Requests, Reject(r)
      PROVE  AcceptedTargets'
  <2>1. audit' = Record(r, Rejected) /\ Rejected # Accepted
    BY <1>4 DEF Reject, Accepted, Rejected
  <2> QED
    BY <2>1, RecordExtends DEF AcceptedTargets
<1> QED
  BY <1>1, <1>2, <1>3, <1>4, LogSteps
-----------------------------------------------------------------------------
(* What a create in flight was decided from. *)

\* The log only grows under a create that was compared.
LEMMA DecidedKept ==
    ASSUME TypeOK, NEW x \in Requests, DecidedFromHistory(x),
           pc'[x] \in {"publishing", "published"} =>
              /\ pc[x] \in {"publishing", "published"}
              /\ basis'[x] = basis[x]
              /\ caller'[x] = caller[x]
              /\ manifest'[x] = manifest[x],
           Len(audit') \in Nat, Len(audit) <= Len(audit'),
           \A i \in 1..Len(audit) : audit'[i] = audit[i],
           \A org : \A i \in AcceptedBy(org)' : i \in AcceptedBy(org) \/ i > Len(audit),
           \A org : AcceptedBy(org) \subseteq AcceptedBy(org)'
    PROVE  DecidedFromHistory(x)'
<1> SUFFICES ASSUME pc'[x] \in {"publishing", "published"}
             PROVE  /\ basis'[x] <= Len(audit')
                    /\ \A i \in AcceptedBy(OrgOf[caller[x]])' :
                          NewestUpTo(OrgOf[caller[x]], basis[x], i)' =>
                              Newer(manifest[x].version, audit'[i].target)
  BY DEF DecidedFromHistory
<1>1. basis[x] \in Nat /\ basis[x] <= Len(audit) /\ Len(audit) \in Nat
  BY DEF DecidedFromHistory, TypeOK
<1>2. PICK org : org = OrgOf[caller[x]]
  OBVIOUS
<1>3. ASSUME NEW i \in AcceptedBy(org)', NewestUpTo(org, basis[x], i)'
      PROVE  Newer(manifest[x].version, audit'[i].target)
  <2>1. i \in AcceptedBy(org)' /\ i <= basis'[x]
        /\ \A j \in AcceptedBy(org)' : j <= basis'[x] => j <= i
    BY <1>3 DEF NewestUpTo
  <2>2. i \in AcceptedBy(org) /\ i \in 1..Len(audit)
    <3>1. i \in AcceptedBy(org) \/ i > Len(audit)
      BY <2>1
    <3>2. i \in AcceptedBy(org) => i \in 1..Len(audit)
      BY AcceptedStand
    <3>3. i \in 1..Len(audit')
      BY <2>1 DEF AcceptedBy
    <3>4. i <= basis[x]
      BY <2>1
    <3> QED
      BY <1>1, <3>1, <3>2, <3>3, <3>4
  <2>3. NewestUpTo(org, basis[x], i)
    BY <2>1, <2>2 DEF NewestUpTo
  <2> QED
    BY <1>2, <2>2, <2>3 DEF DecidedFromHistory
<1> QED
  BY <1>1, <1>2, <1>3

\* SendPublish establishes what is known of a request, nothing else touches it.
LEMMA DecidedStep ==
    ASSUME TypeOK, RequestInv, OrderInv, [Next]_vars
    PROVE  \A x \in Requests : DecidedFromHistory(x)'
<1> USE DEF process, request
<1> SUFFICES ASSUME NEW x \in Requests
             PROVE  DecidedFromHistory(x)'
  OBVIOUS
<1>1. TypeOK /\ DecidedFromHistory(x)
  BY DEF OrderInv
<1>2. CASE SendPublish(x)
  <2>1. /\ pc[x] = "deciding" /\ ~Downgrade(x)
        /\ audit' = audit /\ caller' = caller /\ manifest' = manifest
        /\ basis'[x] = Len(audit)
    BY <1>2 DEF SendPublish, TypeOK
  <2>2. PICK org : org = OrgOf[caller[x]]
    OBVIOUS
  <2>3. ASSUME NEW i \in AcceptedBy(org), NewestUpTo(org, Len(audit), i)
        PROVE  Newer(manifest[x].version, audit[i].target)
    <3>1. org \in Orgs
      BY <2>1, <2>2 DEF RequestInv, Granted, Orgs
    <3>2. i \in 1..Len(audit) /\ \A j \in AcceptedBy(org) : j <= i
      BY <2>3, AcceptedStand DEF NewestUpTo
    <3>3. Current(x) = audit[i].target
      BY <2>2, <3>1, <3>2, CurrentIsNewest DEF Current
    <3>4. audit[i].target # NoVersion
      BY <2>3, <3>2, VersionIsSome DEF OrderInv, AcceptedTargets, AcceptedBy, NoVersion
    <3> QED
      BY <2>1, <3>3, <3>4 DEF Downgrade
  <2>4. Len(audit) <= Len(audit)
    BY AcceptedStand
  <2>5. \A i : AcceptedBy(org)' = AcceptedBy(org)
    BY <2>1 DEF AcceptedBy
  <2>6. \A i : NewestUpTo(org, basis[x], i)' = NewestUpTo(org, Len(audit), i)
    BY <2>1, <2>5 DEF NewestUpTo
  <2> QED
    BY <2>1, <2>2, <2>3, <2>4, <2>5, <2>6 DEF DecidedFromHistory
<1>3. ASSUME ~SendPublish(x)
      PROVE  pc'[x] \in {"publishing", "published"} =>
                /\ pc[x] \in {"publishing", "published"}
                /\ basis'[x] = basis[x]
                /\ caller'[x] = caller[x]
                /\ manifest'[x] = manifest[x]
  <2> USE DEF TypeOK
  <2>1. ASSUME NEW r \in Requests, NEW c \in Subjects \union {Nobody}, Deny(r, c)
        PROVE  pc'[x] \in {"publishing", "published"} =>
                /\ pc[x] \in {"publishing", "published"}
                /\ basis'[x] = basis[x]
                /\ caller'[x] = caller[x]
                /\ manifest'[x] = manifest[x]
    BY <2>1 DEF Deny
  <2>2. ASSUME NEW r \in Requests, NEW c \in Subjects, NEW m \in Manifests,
               RefuseManifest(r, c, m) \/ Admit(r, c, m)
        PROVE  pc'[x] \in {"publishing", "published"} =>
                /\ pc[x] \in {"publishing", "published"}
                /\ basis'[x] = basis[x]
                /\ caller'[x] = caller[x]
                /\ manifest'[x] = manifest[x]
    BY <2>2 DEF RefuseManifest, Admit
  <2>3. ASSUME NEW r \in Requests, Handle(r)
        PROVE  pc'[x] \in {"publishing", "published"} =>
                /\ pc[x] \in {"publishing", "published"}
                /\ basis'[x] = basis[x]
                /\ caller'[x] = caller[x]
                /\ manifest'[x] = manifest[x]
    BY <1>3, <2>3 DEF Handle, RefuseDowngrade, SendPublish, PublishSucceeds,
       PublishFails, Accept, Reject, Answer
  <2>4. CASE Exit
    BY <2>4 DEF Exit
  <2>5. CASE UNCHANGED <<pc, caller, manifest, basis>>
    BY <2>5
  <2> QED
    BY <2>1, <2>2, <2>3, <2>4, <2>5
       DEF Next, CdnTakes, CdnRefuses, BeginShutdown, ShutdownCompletes,
           ShutdownTimesOut, Crash, Start, vars
<1>4. CASE ~SendPublish(x) /\ audit' = audit
  <2>1. \A org : AcceptedBy(org)' = AcceptedBy(org)
    BY <1>4 DEF AcceptedBy
  <2>2. Len(audit) \in Nat /\ Len(audit') = Len(audit)
        /\ Len(audit) <= Len(audit')
    BY <1>4, AcceptedStand
  <2> QED
    BY <1>1, <1>3, <1>4, <2>1, <2>2, DecidedKept
<1>5. CASE Exit
  BY <1>5 DEF Exit, DecidedFromHistory, TypeOK
<1>6. ASSUME ~SendPublish(x), NEW r \in Requests, NEW action, audit' = Record(r, action)
      PROVE  DecidedFromHistory(x)'
  <2>1. /\ Len(audit) \in Nat
        /\ Len(audit') = Len(audit) + 1
        /\ \A i \in 1..Len(audit) : audit'[i] = audit[i]
    BY <1>6, RecordExtends
  <2>2. Len(audit') \in Nat /\ Len(audit) <= Len(audit') /\ Len(audit) + 1 > Len(audit)
    BY <2>1
  <2>3. \A org : /\ AcceptedBy(org) \subseteq AcceptedBy(org)'
                 /\ \A i \in AcceptedBy(org)' : i \in AcceptedBy(org) \/ i > Len(audit)
    BY <1>6, <2>2, AcceptedExtends
  <2> QED
    BY <1>1, <1>3, <1>6, <2>1, <2>2, <2>3, DecidedKept
<1>7. ASSUME NEW r \in Requests, Accept(r) \/ Reject(r), SendPublish(x)
      PROVE  FALSE
  BY <1>7 DEF Accept, Reject, SendPublish, TypeOK
<1> QED
  BY <1>2, <1>4, <1>5, <1>6, <1>7, LogSteps DEF Accept, Reject

\* The order invariants hold along every behaviour.
THEOREM HistoryKnown == Spec => []OrderInv
<1>1. Init => OrderInv
  <2>1. Init => NewestInv /\ AcceptedTargets
    BY DEF Init, NewestInv, AcceptedTargets, AcceptedBy
  <2>2. Init => \A r \in Requests : DecidedFromHistory(r)
    BY DEF Init, DecidedFromHistory
  <2> QED
    BY <2>1, <2>2 DEF OrderInv
<1>2. TypeOK /\ RequestInv /\ OrderInv /\ [Next]_vars => OrderInv'
  BY NewestStep, TargetsStep, DecidedStep DEF OrderInv
<1> QED
  BY <1>1, <1>2, TypeCorrect, PTL DEF Spec

-----------------------------------------------------------------------------
(* The order of the accepted releases. *)

\* The request an entry was written for has been decided: the length of the log
\* it was decided from stays as it is.
LEMMA BasisOfEntryKept ==
    ASSUME TypeOK, RecordedBeforeAnswered, [Next]_vars, NEW i \in 1..Len(audit)
    PROVE  basis'[audit[i].req] = basis[audit[i].req]
<1>1. PICK x \in Requests : x = audit[i].req
  <2>1. audit[i] \in AuditEntry
    BY DEF TypeOK
  <2> QED
    BY <2>1 DEF AuditEntry
<1>2. i \in EntriesFor(x)
  BY <1>1 DEF EntriesFor
<1>3. pc[x] # "deciding"
  BY <1>2 DEF RecordedBeforeAnswered, Settled
<1>4. basis'[x] = basis[x]
  BY <1>3 DEF Next, Handle, Deny, RefuseManifest, Admit, RefuseDowngrade, SendPublish,
     PublishSucceeds, PublishFails, Accept, Reject, Answer, CdnTakes, CdnRefuses, Exit,
     BeginShutdown, ShutdownCompletes, ShutdownTimesOut, Crash, Start, vars, TypeOK
<1> QED
  BY <1>1, <1>4

\* Once overtaken, always overtaken.
LEMMA OvertakenKept ==
    ASSUME TypeOK, NEW k \in 1..Len(audit), audit'[k] = audit[k],
           basis'[audit[k].req] = basis[audit[k].req],
           \A org : AcceptedBy(org) \subseteq AcceptedBy(org)',
           Overtaken(k)
    PROVE  Overtaken(k)'
BY DEF Overtaken

\* A log that gains no acceptance gains no inversion.
LEMMA NoNewAcceptance ==
    ASSUME TypeOK, RecordedBeforeAnswered, InversionNeedsOverlap, [Next]_vars,
           \A org : AcceptedBy(org)' = AcceptedBy(org),
           \A i \in 1..Len(audit) : audit'[i] = audit[i]
    PROVE  InversionNeedsOverlap'
<1> SUFFICES ASSUME NEW org \in Orgs,
                    NEW i \in AcceptedBy(org), NEW j \in AcceptedBy(org),
                    i < j, ~Newer(audit'[j].target, audit'[i].target)
             PROVE  \E k \in AcceptedBy(org) : i < k /\ k <= j /\ Overtaken(k)'
  BY DEF InversionNeedsOverlap
<1>1. \A k \in AcceptedBy(org) : k \in 1..Len(audit)
  BY AcceptedStand
<1>2. PICK k \in AcceptedBy(org) : i < k /\ k <= j /\ Overtaken(k)
  BY <1>1 DEF InversionNeedsOverlap
<1>3. Overtaken(k)'
  BY <1>1, <1>2, BasisOfEntryKept, OvertakenKept
<1> QED
  BY <1>2, <1>3

\* The argument of the whole: an acceptance that was not overtaken was decided
\* knowing the acceptance right before it, and is newer than that one; so if it
\* is not newer than an earlier one, neither was the one before it.
LEMMA AcceptKeepsOrder ==
    ASSUME TypeOK, RequestInv, RecordedBeforeAnswered, OrderInv, InversionNeedsOverlap,
           [Next]_vars, NEW r \in Requests, Accept(r)
    PROVE  InversionNeedsOverlap'
<1>1. PICK n : n = Len(audit) + 1
  OBVIOUS
<1>2. PICK o : o = OrgOf[caller[r]]
  OBVIOUS
<1>3. /\ pc[r] = "published" /\ audit' = Record(r, Accepted)
      /\ caller' = caller /\ manifest' = manifest /\ basis' = basis
  BY DEF Accept, request
<1>4. /\ Len(audit) \in Nat
      /\ \A i \in 1..Len(audit) : audit'[i] = audit[i]
      /\ audit'[n].req = r
      /\ audit'[n].org = o
      /\ audit'[n].target = manifest[r].version
  BY <1>1, <1>2, <1>3, RecordExtends
<1>5. \A org : AcceptedBy(org)' = IF org = o THEN AcceptedBy(org) \union {n} ELSE AcceptedBy(org)
  BY <1>1, <1>2, <1>3, AcceptedExtends
<1>6. \A org : AcceptedBy(org) \subseteq AcceptedBy(org)'
  BY <1>5
<1>7. \A org : \A k \in AcceptedBy(org) :
         k \in 1..Len(audit) /\ k < n /\ (Overtaken(k) => Overtaken(k)')
  <2>1. \A k \in 1..Len(audit) : Overtaken(k) => Overtaken(k)'
    BY <1>4, <1>6, BasisOfEntryKept, OvertakenKept
  <2> QED
    BY <1>1, <1>4, <2>1, AcceptedStand
<1>8. o \in Orgs
  BY <1>2, <1>3 DEF RequestInv, Granted, Orgs
<1> SUFFICES ASSUME NEW org \in Orgs,
                    NEW i \in AcceptedBy(org)', NEW j \in AcceptedBy(org)',
                    i < j, ~Newer(audit'[j].target, audit'[i].target)
             PROVE  \E k \in AcceptedBy(org)' : i < k /\ k <= j /\ Overtaken(k)'
  BY DEF InversionNeedsOverlap
<1>9. CASE j \in AcceptedBy(org)
  <2>1. i \in AcceptedBy(org)
    BY <1>1, <1>4, <1>5, <1>7, <1>9
  <2>2. ~Newer(audit[j].target, audit[i].target)
    BY <1>4, <1>7, <1>9, <2>1
  <2>3. PICK k \in AcceptedBy(org) : i < k /\ k <= j /\ Overtaken(k)
    BY <1>9, <2>1, <2>2 DEF InversionNeedsOverlap
  <2> QED
    BY <1>6, <1>7, <2>3
<1>10. CASE j \notin AcceptedBy(org)
  <2>1. org = o /\ j = n
    BY <1>5, <1>10
  <2>2. i \in AcceptedBy(o)
    BY <1>1, <1>4, <1>5, <2>1
  <2>3. n \in Nat
    BY <1>1, <1>4
  <2>4. CASE Overtaken(n)'
    BY <2>1, <2>3, <2>4
  <2>5. CASE ~Overtaken(n)'
    <3>1. \A x \in AcceptedBy(o) : x <= basis[r]
      <4>1. \A x \in AcceptedBy(o)' : ~(x < n /\ basis[r] < x)
        BY <1>3, <1>4, <2>5 DEF Overtaken
      <4>2. basis[r] \in Nat
        BY DEF TypeOK
      <4> QED
        BY <1>6, <1>7, <4>1, <4>2
    <3>2. PICK p \in AcceptedBy(o) : \A x \in AcceptedBy(o) : x <= p
      BY <1>8, <2>2 DEF OrderInv, NewestInv
    <3>3. Newer(manifest[r].version, audit[p].target)
      <4>1. NewestUpTo(o, basis[r], p)
        BY <3>1, <3>2 DEF NewestUpTo
      <4> QED
        BY <1>2, <1>3, <3>2, <4>1 DEF OrderInv, DecidedFromHistory
    <3>4. /\ manifest[r].version \in Version
          /\ audit[p].target \in Version /\ audit[i].target \in Version
      <4>1. manifest[r].version \in Version
        BY <1>3, RolloutAssumption DEF RequestInv
      <4> QED
        BY <2>2, <3>2, <4>1 DEF OrderInv, AcceptedTargets, AcceptedBy
    <3>5. ~Newer(manifest[r].version, audit[i].target)
      BY <1>4, <1>7, <2>1, <2>2
    <3>6. ~Newer(audit[p].target, audit[i].target)
      BY <3>3, <3>4, <3>5, NewerTransitive
    <3>7. i < p
      <4>1. i # p
        BY <3>3, <3>5
      <4> QED
        BY <1>7, <2>2, <3>2, <4>1
    <3>8. PICK k \in AcceptedBy(o) : i < k /\ k <= p /\ Overtaken(k)
      BY <1>8, <2>2, <3>2, <3>6, <3>7 DEF InversionNeedsOverlap
    <3>9. k <= n /\ Overtaken(k)' /\ k \in AcceptedBy(o)'
      BY <1>6, <1>7, <3>8, <2>3
    <3> QED
      BY <2>1, <3>8, <3>9
  <2> QED
    BY <2>4, <2>5
<1> QED
  BY <1>9, <1>10

\* Only an acceptance can bring an inversion, and AcceptKeepsOrder is about it.
LEMMA OrderStep ==
    ASSUME TypeOK, RequestInv, RecordedBeforeAnswered, OrderInv, InversionNeedsOverlap,
           [Next]_vars
    PROVE  InversionNeedsOverlap'
<1>1. CASE audit' = audit
  <2>1. \A org : AcceptedBy(org)' = AcceptedBy(org)
    BY <1>1 DEF AcceptedBy
  <2> QED
    BY <1>1, <2>1, NoNewAcceptance
<1>2. CASE audit' = <<>>
  BY <1>2 DEF InversionNeedsOverlap, AcceptedBy
<1>3. ASSUME NEW r \in Requests, Reject(r)
      PROVE  InversionNeedsOverlap'
  <2>1. audit' = Record(r, Rejected) /\ Rejected # Accepted
    BY <1>3 DEF Reject, Accepted, Rejected
  <2>2. \A org : AcceptedBy(org)' = AcceptedBy(org)
    BY <2>1, AcceptedExtends
  <2> QED
    BY <2>1, <2>2, RecordExtends, NoNewAcceptance
<1> QED
  BY <1>1, <1>2, <1>3, AcceptKeepsOrder, LogSteps

\* Along the log of any run, of any organisation, each accepted release is newer
\* than those before it, except past one that was decided before the acceptance
\* preceding it was recorded.
THEOREM ReleasesGoUp == Spec => []InversionNeedsOverlap
<1>1. Init => InversionNeedsOverlap
  BY DEF Init, InversionNeedsOverlap, AcceptedBy
<1>2. TypeOK /\ RequestInv /\ RecordedBeforeAnswered /\ OrderInv
         /\ InversionNeedsOverlap /\ [Next]_vars
         => InversionNeedsOverlap'
  BY OrderStep
<1> QED
  BY <1>1, <1>2, TypeCorrect, AttemptsRecorded, HistoryKnown, PTL DEF Spec

-----------------------------------------------------------------------------
(* Who a refused downgrade was refused by. *)

\* The answer 409 has been decided for r.
Conflicting(r) == status[r] = 409 /\ pc[r] \in {"refusing", "answering", "done"}

\* An acceptance r is not newer than, in the part of the log read for it.
RefusedBy(r, i) ==
    /\ i \in AcceptedBy(OrgOf[caller[r]])
    /\ i <= basis[r]
    /\ ~Newer(manifest[r].version, audit[i].target)

\* The acceptance a conflict was decided by stays where it stands.
LEMMA ConflictKept ==
    ASSUME TypeOK, ConflictIsOwnHistory, NEW x \in Requests,
           Conflicting(x)' =>
              /\ Conflicting(x)
              /\ basis'[x] = basis[x]
              /\ caller'[x] = caller[x]
              /\ manifest'[x] = manifest[x],
           \A i \in 1..Len(audit) : audit'[i] = audit[i],
           \A org : AcceptedBy(org) \subseteq AcceptedBy(org)',
           Conflicting(x)'
    PROVE  \E i \in AcceptedBy(OrgOf[caller[x]])' : RefusedBy(x, i)'
<1>1. PICK i \in AcceptedBy(OrgOf[caller[x]]) :
         i <= basis[x] /\ ~Newer(manifest[x].version, audit[i].target)
  BY DEF ConflictIsOwnHistory, Conflicting
<1>2. i \in 1..Len(audit)
  BY AcceptedStand
<1>3. i \in AcceptedBy(OrgOf[caller[x]])'
  <2>1. caller'[x] = caller[x]
    OBVIOUS
  <2>2. PICK org : org = OrgOf[caller[x]]
    OBVIOUS
  <2>3. i \in AcceptedBy(org)'
    BY <1>1, <2>2
  <2> QED
    BY <2>1, <2>2, <2>3
<1> QED
  BY <1>1, <1>2, <1>3 DEF RefusedBy

\* What a step other than the refusal itself does to a conflict: nothing.
LEMMA ConflictOfStep ==
    ASSUME TypeOK, RequestInv, [Next]_vars, NEW x \in Requests,
           ~RefuseDowngrade(x), Conflicting(x)'
    PROVE  /\ Conflicting(x)
           /\ basis'[x] = basis[x]
           /\ caller'[x] = caller[x]
           /\ manifest'[x] = manifest[x]
<1> DEFINE Goal == /\ Conflicting(x)
                   /\ basis'[x] = basis[x]
                   /\ caller'[x] = caller[x]
                   /\ manifest'[x] = manifest[x]
<1> USE DEF TypeOK, Conflicting, request, process
<1>1. ASSUME NEW r \in Requests, NEW c \in Subjects \union {Nobody}, Deny(r, c)
      PROVE  Goal
  BY <1>1 DEF Deny, DeniedStatus
<1>2. ASSUME NEW r \in Requests, NEW c \in Subjects, NEW m \in Manifests,
             RefuseManifest(r, c, m) \/ Admit(r, c, m)
      PROVE  Goal
  BY <1>2 DEF RefuseManifest, Admit, RefusalStatus
<1>3. ASSUME NEW r \in Requests,
             RefuseDowngrade(r) \/ SendPublish(r) \/ PublishSucceeds(r) \/ PublishFails(r)
      PROVE  Goal
  BY <1>3 DEF RefuseDowngrade, SendPublish, PublishSucceeds, PublishFails
<1>4. ASSUME NEW r \in Requests, Accept(r) \/ Reject(r) \/ Answer(r)
      PROVE  Goal
  BY <1>4 DEF Accept, Reject, Answer
<1>5. CASE Exit
  BY <1>5 DEF Exit
<1>6. CASE UNCHANGED <<pc, caller, manifest, status, basis>>
  BY <1>6
<1> QED
  BY <1>1, <1>2, <1>3, <1>4, <1>5, <1>6
     DEF Next, Handle, CdnTakes, CdnRefuses, BeginShutdown, ShutdownCompletes,
         ShutdownTimesOut, Crash, Start, vars

\* The refusal reads the newest acceptance, which is the organisation's own.
LEMMA RefusalIsOwnHistory ==
    ASSUME TypeOK, RequestInv, OrderInv, NEW x \in Requests, RefuseDowngrade(x)
    PROVE  \E i \in AcceptedBy(OrgOf[caller[x]])' : RefusedBy(x, i)'
<1>1. /\ pc[x] = "deciding" /\ Downgrade(x)
      /\ audit' = audit /\ caller' = caller /\ manifest' = manifest
      /\ basis'[x] = Len(audit)
  BY DEF RefuseDowngrade, request, TypeOK
<1>2. PICK org \in Orgs : org = OrgOf[caller[x]]
  BY <1>1 DEF RequestInv, Granted, Orgs
<1>3. Entries(audit, org, {Accepted}) = AcceptedBy(org)
  BY DEF Entries, AcceptedBy
<1>4. AcceptedBy(org) # {}
  BY <1>1, <1>2, <1>3 DEF Downgrade, Current, CurrentVersion
<1>5. PICK i \in AcceptedBy(org) : \A j \in AcceptedBy(org) : j <= i
  BY <1>4 DEF OrderInv, NewestInv
<1>6. Current(x) = audit[i].target
  BY <1>2, <1>5, CurrentIsNewest DEF Current
<1>7. i <= Len(audit)
  BY AcceptedStand
<1>8. AcceptedBy(org)' = AcceptedBy(org)
  BY <1>1 DEF AcceptedBy
<1> QED
  BY <1>1, <1>2, <1>5, <1>6, <1>7, <1>8 DEF Downgrade, RefusedBy

\* A conflict comes with the acceptance that caused it, and keeps it.
LEMMA ConflictStep ==
    ASSUME TypeOK, RequestInv, OrderInv, ConflictIsOwnHistory, [Next]_vars
    PROVE  ConflictIsOwnHistory'
<1> SUFFICES ASSUME NEW x \in Requests, Conflicting(x)'
             PROVE  \E i \in AcceptedBy(OrgOf[caller[x]])' : RefusedBy(x, i)'
  BY DEF ConflictIsOwnHistory, Conflicting, RefusedBy
<1>1. CASE RefuseDowngrade(x)
  BY <1>1, RefusalIsOwnHistory
<1>2. CASE ~RefuseDowngrade(x) /\ audit' = audit
  <2>1. \A org : AcceptedBy(org) \subseteq AcceptedBy(org)'
    BY <1>2 DEF AcceptedBy
  <2> QED
    BY <1>2, <2>1, ConflictOfStep, ConflictKept
<1>3. CASE Exit
  BY <1>3 DEF Exit, Conflicting, TypeOK
<1>4. ASSUME ~RefuseDowngrade(x), NEW r \in Requests, NEW action, audit' = Record(r, action)
      PROVE  \E i \in AcceptedBy(OrgOf[caller[x]])' : RefusedBy(x, i)'
  <2>1. \A i \in 1..Len(audit) : audit'[i] = audit[i]
    BY <1>4, RecordExtends
  <2>2. \A org : AcceptedBy(org) \subseteq AcceptedBy(org)'
    BY <1>4, AcceptedExtends
  <2> QED
    BY <1>4, <2>1, <2>2, ConflictOfStep, ConflictKept
<1> QED
  BY <1>1, <1>2, <1>3, <1>4, LogSteps DEF Accept, Reject, RefuseDowngrade

\* A release is refused as a downgrade only by an acceptance of its caller's own
\* organisation, recorded before the request read the history.
THEOREM ConflictsAreOwn == Spec => []ConflictIsOwnHistory
<1>1. Init => ConflictIsOwnHistory
  BY DEF Init, ConflictIsOwnHistory
<1>2. TypeOK /\ RequestInv /\ OrderInv /\ ConflictIsOwnHistory /\ [Next]_vars
         => ConflictIsOwnHistory'
  BY ConflictStep
<1> QED
  BY <1>1, <1>2, TypeCorrect, HistoryKnown, PTL DEF Spec

-----------------------------------------------------------------------------
(* What list shows. *)

\* shown is the entries of log at the places in S, each once, from the newest
\* on: at says where each stands in the log.
ShownFrom(at, shown, log, S) ==
    /\ \A i \in 1..Len(shown) : at[i] \in S /\ shown[i] = log[at[i]]
    /\ \A i, j \in 1..Len(shown) : i < j => at[j] < at[i]
    /\ \A k \in S : \E i \in 1..Len(shown) : at[i] = k

\* Audit shows the entries of the organisation with the actions asked for.
LEMMA AuditShows ==
    ASSUME NEW V, NEW log \in Seq(V), NEW org, NEW actions
    PROVE  /\ Audit(log, org, actions) \in Seq(V)
           /\ \E at : ShownFrom(at, Audit(log, org, actions), log, Entries(log, org, actions))
<1>1. PICK n \in Nat : n = Len(log)
  OBVIOUS
<1>2. PICK S : S = Entries(log, org, actions)
  OBVIOUS
<1>3. \A i \in S : i \in 1..n
  BY <1>1, <1>2 DEF Entries
<1>4. PICK ss : ss = [k \in 1..Len(log) |-> Shown(log, org, actions, Len(log) + 1 - k)]
  OBVIOUS
<1>5. \A k \in 1..n : ss[k] = IF n + 1 - k \in S THEN <<log[n + 1 - k]>> ELSE <<>>
  BY <1>1, <1>2, <1>4 DEF Shown
<1>6. \A k \in 1..n : n + 1 - k \in S => log[n + 1 - k] \in V
  BY <1>1, <1>3, ElementOfSeq
<1>7. \A k \in 1..n : ss[k] = <<>> \/ \E v \in V : ss[k] = <<v>>
  BY <1>5, <1>6
<1>8. ss \in Seq(Seq(V)) /\ Len(ss) = n
  <2>1. <<>> \in Seq(V) /\ \A v \in V : <<v>> \in Seq(V)
    OBVIOUS
  <2>2. \A k \in 1..n : ss[k] \in Seq(V)
    BY Zenon, <1>7, <2>1
  <2> QED
    BY <1>1, <1>4, <2>2
<1>9. PICK shown : shown = FlattenSeq(ss)
  OBVIOUS
<1>10. Audit(log, org, actions) = shown
  BY Zenon, <1>4, <1>9 DEF Audit
<1> shown \in Seq(V)
  BY <1>8, <1>9, FlattenType
<1>11. PICK b : PickedAt(b, shown, ss, n)
  <2>1. \A k \in 1..Len(ss) : ss[k] = <<>> \/ \E v \in V : ss[k] = <<v>>
    BY <1>7, <1>8
  <2>2. \E b : PickedAt(b, FlattenSeq(ss), ss, Len(ss))
    BY <1>8, <2>1, PickedInOrder
  <2> QED
    BY <1>8, <1>9, <2>2
<1>12. PICK at : at = [i \in 1..Len(shown) |-> n + 1 - b[i]]
  OBVIOUS
<1>13. ShownFrom(at, shown, log, S)
  <2>1. \A i \in 1..Len(shown) : /\ b[i] \in Nat /\ 1 <= b[i] /\ b[i] <= n
                                 /\ ss[b[i]] = <<shown[i]>>
    BY <1>11 DEF PickedAt
  <2>2. \A i \in 1..Len(shown) : b[i] \in 1..n /\ at[i] = n + 1 - b[i]
    BY <1>12, <2>1
  <2>3. ASSUME NEW i \in 1..Len(shown)
        PROVE  at[i] \in S /\ shown[i] = log[at[i]]
    <3>1. ss[b[i]] = IF at[i] \in S THEN <<log[at[i]]>> ELSE <<>>
      BY <1>5, <2>2
    <3>2. ss[b[i]] = <<shown[i]>>
      BY <2>1
    <3>3. PICK x, y : x = shown[i] /\ y = log[at[i]]
      OBVIOUS
    <3>4. <<x>> # <<>> /\ (<<x>> = <<y>> => x = y)
      OBVIOUS
    <3> QED
      BY <3>1, <3>2, <3>3, <3>4
  <2>4. ASSUME NEW i \in 1..Len(shown), NEW j \in 1..Len(shown), i < j
        PROVE  at[j] < at[i]
    <3>1. b[i] < b[j]
      BY <1>11, <2>4 DEF PickedAt
    <3>2. b[i] \in Nat /\ b[j] \in Nat /\ at[i] = n + 1 - b[i] /\ at[j] = n + 1 - b[j]
      BY <2>1, <2>2
    <3> QED
      BY <3>1, <3>2
  <2>5. ASSUME NEW k \in S
        PROVE  \E i \in 1..Len(shown) : at[i] = k
    <3>1. PICK x \in 1..n : x = n + 1 - k /\ k = n + 1 - x
      BY <1>3
    <3>2. ss[x] # <<>>
      <4>1. ss[x] = <<log[k]>>
        BY <1>5, <3>1
      <4> QED
        BY <4>1
    <3>3. PICK i \in 1..Len(shown) : b[i] = x
      BY <1>11, <3>2 DEF PickedAt
    <3> QED
      BY <2>2, <3>1, <3>3
  <2> QED
    BY Zenon, <2>3, <2>4, <2>5 DEF ShownFrom
<1> QED
  BY <1>2, <1>10, <1>13

\* The entries of an organisation are the records of its settled requests.
LEMMA EntriesAreSettled ==
    ASSUME TypeOK, RecordedBeforeAnswered, NEW org
    PROVE  {audit[k].req : k \in Entries(audit, org, RolloutActions)} =
               {r \in Requests : Settled(r) /\ OrgOf[caller[r]] = org}
<1>1. \A k \in 1..Len(audit) : audit[k].req \in Requests /\ audit[k].action \in RolloutActions
  <2>1. \A k \in 1..Len(audit) : audit[k] \in AuditEntry
    BY ElementOfSeq DEF TypeOK
  <2> QED
    BY <2>1 DEF AuditEntry
<1>2. ASSUME NEW k \in Entries(audit, org, RolloutActions)
      PROVE  Settled(audit[k].req) /\ OrgOf[caller[audit[k].req]] = org
  <2>1. k \in 1..Len(audit) /\ audit[k].org = org
    BY DEF Entries
  <2>2. PICK r \in Requests : r = audit[k].req
    BY <1>1, <2>1
  <2>3. k \in EntriesFor(r)
    BY <2>1, <2>2 DEF EntriesFor
  <2>4. Settled(r)
    BY <2>3 DEF RecordedBeforeAnswered
  <2>5. PICK i \in 1..Len(audit) : IsRecordOf(i, r)
    BY <2>4 DEF RecordedBeforeAnswered
  <2>6. i = k
    BY <2>3, <2>5 DEF IsRecordOf
  <2>7. audit[k].org = OrgOf[caller[r]]
    BY <2>5, <2>6 DEF IsRecordOf
  <2> QED
    BY <2>1, <2>2, <2>4, <2>7
<1>3. ASSUME NEW r \in Requests, Settled(r), OrgOf[caller[r]] = org
      PROVE  \E k \in Entries(audit, org, RolloutActions) : audit[k].req = r
  <2>1. PICK i \in 1..Len(audit) : IsRecordOf(i, r)
    BY <1>3 DEF RecordedBeforeAnswered
  <2>2. i \in EntriesFor(r) /\ audit[i].org = org
    BY <1>3, <2>1 DEF IsRecordOf
  <2>3. audit[i].req = r
    BY <2>2 DEF EntriesFor
  <2>4. i \in Entries(audit, org, RolloutActions)
    BY <1>1, <2>2 DEF Entries
  <2> QED
    BY <2>3, <2>4
<1>4. \A k \in Entries(audit, org, RolloutActions) : audit[k].req \in Requests
  BY <1>1 DEF Entries
<1> QED
  BY <1>2, <1>3, <1>4

\* Where a listing shows acceptances, and the first place of a set.
AcceptedIn(shown) == {i \in 1..Len(shown) : shown[i].action = Accepted}
FirstOf(S) == CHOOSE i \in S : \A j \in S : i <= j

\* The first acceptance shown is the newest one there is.
LEMMA FirstShownIsCurrent ==
    ASSUME TypeOK, NewestInv, NEW org \in Orgs, NEW at, NEW shown, Len(shown) \in Nat,
           ShownFrom(at, shown, audit, Entries(audit, org, RolloutActions))
    PROVE  CurrentVersion(audit, org) =
              IF AcceptedIn(shown) = {} THEN NoVersion
              ELSE shown[FirstOf(AcceptedIn(shown))].target
<1> PICK accepted : accepted = AcceptedIn(shown)
  OBVIOUS
<1> PICK first : first = FirstOf(accepted)
  OBVIOUS
<1>1. \A k : k \in AcceptedBy(org) <=>
                k \in Entries(audit, org, RolloutActions) /\ audit[k].action = Accepted
  BY DEF AcceptedBy, Entries, RolloutActions
<1>2. \A i \in 1..Len(shown) : i \in accepted <=> at[i] \in AcceptedBy(org)
  BY <1>1 DEF ShownFrom, AcceptedIn
<1> accepted \subseteq 1..Len(shown)
  BY DEF AcceptedIn
<1>3. CASE AcceptedBy(org) = {}
  <2>1. accepted = {}
    BY <1>2, <1>3
  <2>2. Entries(audit, org, {Accepted}) = {}
    BY <1>3 DEF AcceptedBy, Entries
  <2> QED
    BY <2>1, <2>2 DEF CurrentVersion
<1>4. CASE AcceptedBy(org) # {}
  <2>1. PICK k \in AcceptedBy(org) : \A j \in AcceptedBy(org) : j <= k
    BY <1>4 DEF NewestInv
  <2>2. PICK i \in 1..Len(shown) : at[i] = k
    BY <1>1, <2>1 DEF ShownFrom
  <2>3. i \in accepted /\ shown[i] = audit[k]
    BY <1>2, <2>1, <2>2 DEF ShownFrom
  <2>4. ASSUME NEW j \in accepted
        PROVE  i <= j
    <3>1. j \in 1..Len(shown) /\ at[j] <= k
      BY <1>2, <2>1
    <3>2. j < i => k < at[j]
      BY <2>2, <3>1 DEF ShownFrom
    <3>3. at[j] \in Nat /\ k \in Nat
      BY <1>2, <2>1, <3>1, AcceptedStand
    <3> QED
      BY <3>1, <3>2, <3>3
  <2>5. first = i
    <3>1. first \in accepted /\ \A j \in accepted : first <= j
      BY <2>3, <2>4 DEF FirstOf
    <3>2. first \in Nat /\ first <= i /\ i <= first
      BY <2>3, <2>4, <3>1
    <3> QED
      BY <3>2
  <2>6. CurrentVersion(audit, org) = audit[k].target
    BY <2>1, CurrentIsNewest
  <2> QED
    BY <2>3, <2>5, <2>6
<1> QED
  BY <1>3, <1>4

\* What list shows an admin is the recorded attempts of the admin's organisation,
\* and the first accepted one carries the version create compares with.
LEMMA ListingIsOwn ==
    ASSUME TypeOK, RecordedBeforeAnswered, NewestInv
    PROVE  ListingIsOwnHistory
<1> SUFFICES ASSUME NEW c \in Subjects, Granted(c)
             PROVE  /\ {List(c)[i].req : i \in 1..Len(List(c))} =
                          {r \in Requests : Settled(r) /\ OrgOf[caller[r]] = OrgOf[c]}
                    /\ CurrentVersion(audit, OrgOf[c]) =
                          IF AcceptedIn(List(c)) = {} THEN NoVersion
                          ELSE List(c)[FirstOf(AcceptedIn(List(c)))].target
  BY Zenon DEF ListingIsOwnHistory, AcceptedIn, FirstOf
<1> PICK shown : shown = List(c)
  OBVIOUS
<1>1. PICK org \in Orgs : org = OrgOf[c]
  BY RolloutAssumption DEF Orgs
<1>2. audit \in Seq(AuditEntry)
  BY DEF TypeOK
<1>3. shown = Audit(audit, org, RolloutActions)
  BY <1>1 DEF List
<1>4. PICK at : ShownFrom(at, shown, audit, Entries(audit, org, RolloutActions))
  BY <1>2, <1>3, AuditShows
<1>5. Len(shown) \in Nat
  BY <1>2, <1>3, AuditShows
<1>6. {shown[i].req : i \in 1..Len(shown)} =
         {audit[k].req : k \in Entries(audit, org, RolloutActions)}
  BY <1>4 DEF ShownFrom
<1>7. {shown[i].req : i \in 1..Len(shown)} =
         {r \in Requests : Settled(r) /\ OrgOf[caller[r]] = org}
  BY <1>6, EntriesAreSettled
<1>8. CurrentVersion(audit, org) =
         IF AcceptedIn(shown) = {} THEN NoVersion ELSE shown[FirstOf(AcceptedIn(shown))].target
  BY <1>4, <1>5, FirstShownIsCurrent
<1> QED
  BY <1>1, <1>7, <1>8

\* In every state list shows an admin exactly the recorded attempts of the
\* admin's own organisation, headed by the version the next create is compared
\* with (list, currentVersion and the store's Audit).
THEOREM ListingsAreOwn == Spec => []ListingIsOwnHistory
<1>1. TypeOK /\ RecordedBeforeAnswered /\ OrderInv => ListingIsOwnHistory
  BY ListingIsOwn DEF OrderInv
<1> QED
  BY <1>1, TypeCorrect, AttemptsRecorded, HistoryKnown, PTL

-----------------------------------------------------------------------------
(* Rollout implements ReleaseLog: under the mapping of Rollout!Releases,   *)
(* every step of the service is a step of the release log or leaves it     *)
(* alone.                                                                  *)

\* What the release log sees of the service, as one tuple.
LogView == <<audit, Offers, wire \union cdn, cdn, {r \in Requests : Closed(r)}>>

\* A request that is not on offer before or after, with the others as they were:
\* the offers stay.
LEMMA OffersKept ==
    ASSUME NEW r \in Requests, r \notin OnOffer, r \notin OnOffer',
           \A x \in Requests \ {r} : /\ pc'[x] = pc[x]
                                     /\ caller'[x] = caller[x]
                                     /\ manifest'[x] = manifest[x]
    PROVE  Offers' = Offers
<1>1. OnOffer' = OnOffer
  BY DEF OnOffer
<1>2. \A x \in OnOffer : OfferOf(x)' = OfferOf(x)
  BY DEF OnOffer, OfferOf
<1> QED
  BY <1>1, <1>2 DEF Offers

\* A request that is closed before and after, or neither, with the others as they
\* were: the closed ones stay.
LEMMA ClosedKept ==
    ASSUME NEW r \in Requests, Closed(r)' = Closed(r),
           \A x \in Requests \ {r} : pc'[x] = pc[x] /\ caller'[x] = caller[x]
    PROVE  {x \in Requests : Closed(x)}' = {x \in Requests : Closed(x)}
<1>1. \A x \in Requests : Closed(x)' = Closed(x)
  BY DEF Closed
<1> QED
  BY <1>1

\* A request leaves its offer and no other: the attempts tell them apart.
LEMMA OfferTaken ==
    ASSUME NEW r \in Requests, r \in OnOffer,
           pc'[r] \notin {"publishing", "published"},
           \A x \in Requests \ {r} : pc'[x] = pc[x],
           caller' = caller, manifest' = manifest
    PROVE  Offers' = Offers \ {OfferOf(r)}
<1>1. OnOffer' = OnOffer \ {r}
  BY DEF OnOffer
<1>2. \A x \in Requests : OfferOf(x)' = OfferOf(x)
  BY DEF OfferOf
<1>3. \A x \in Requests \ {r} : OfferOf(x) # OfferOf(r)
  <2>1. \A x : OfferOf(x).attempt = x
    BY DEF OfferOf
  <2> QED
    BY <2>1
<1> QED
  BY <1>1, <1>2, <1>3 DEF Offers, OnOffer

\* Receiving a request, and refusing it at the guard, is not seen.
LEMMA ReceiveStep ==
    ASSUME TypeOK, NEW r \in Requests,
           \/ \E c \in Subjects \union {Nobody} : Deny(r, c)
           \/ \E c \in Subjects, m \in Manifests : RefuseManifest(r, c, m) \/ Admit(r, c, m)
    PROVE  UNCHANGED LogView
<1>1. /\ audit' = audit /\ wire' = wire /\ cdn' = cdn
      /\ pc[r] = "idle"
      /\ \/ pc'[r] = "done" /\ ~Granted(caller'[r])
         \/ pc'[r] \in {"refusing", "deciding"}
  BY DEF Deny, RefuseManifest, Admit, TypeOK
<1>2. \A x \in Requests \ {r} : /\ pc'[x] = pc[x]
                                /\ caller'[x] = caller[x]
                                /\ manifest'[x] = manifest[x]
  BY DEF Deny, RefuseManifest, Admit, TypeOK
<1>3. Offers' = Offers
  <2>1. r \notin OnOffer /\ r \notin OnOffer'
    BY <1>1 DEF OnOffer
  <2> QED
    BY <1>2, <2>1, OffersKept
<1>4. {x \in Requests : Closed(x)}' = {x \in Requests : Closed(x)}
  <2>1. Closed(r)' = Closed(r)
    BY <1>1 DEF Closed, Granted
  <2> QED
    BY <1>2, <2>1, ClosedKept
<1> QED
  BY <1>1, <1>3, <1>4 DEF LogView

\* Steps of a request in flight that the release log does not see.
LEMMA HiddenStep ==
    ASSUME TypeOK, NEW r \in Requests,
           RefuseDowngrade(r) \/ PublishSucceeds(r) \/ Answer(r)
    PROVE  UNCHANGED LogView
<1>1. /\ audit' = audit /\ wire' = wire /\ cdn' = cdn
      /\ caller' = caller /\ manifest' = manifest
      /\ \A x \in Requests \ {r} : pc'[x] = pc[x]
      /\ \/ pc[r] = "deciding" /\ pc'[r] = "refusing"
         \/ pc[r] = "publishing" /\ pc'[r] = "published"
         \/ pc[r] = "answering" /\ pc'[r] = "done"
  BY DEF RefuseDowngrade, PublishSucceeds, Answer, TypeOK, request
<1>2. Offers' = Offers
  <2>1. OnOffer' = OnOffer
    BY <1>1 DEF OnOffer
  <2>2. \A x \in OnOffer : OfferOf(x)' = OfferOf(x)
    BY <1>1 DEF OfferOf
  <2> QED
    BY <2>1, <2>2 DEF Offers
<1>3. {x \in Requests : Closed(x)}' = {x \in Requests : Closed(x)}
  <2>1. Closed(r)' = Closed(r)
    BY <1>1 DEF Closed, Granted
  <2> QED
    BY <1>1, <2>1, ClosedKept
<1> QED
  BY <1>1, <1>2, <1>3 DEF LogView

\* ReleaseLog reads a log and compares versions as Rollout does.
LEMMA SameReading ==
    /\ Releases!Accepted = Accepted /\ Releases!Rejected = Rejected
    /\ Releases!NoVersion = NoVersion
    /\ \A log, org : Releases!CurrentVersion(log, org) = CurrentVersion(log, org)
    /\ \A a, b : Releases!Newer(a, b) <=> Newer(a, b)
<1>1. Releases!Accepted = Accepted /\ Releases!Rejected = Rejected
  BY DEF Releases!Accepted, Accepted, Releases!Rejected, Rejected
<1>2. Releases!NoVersion = NoVersion
  BY DEF Releases!NoVersion, NoVersion
<1>3. ASSUME NEW log, NEW org
      PROVE  Releases!CurrentVersion(log, org) = CurrentVersion(log, org)
  BY <1>1, <1>2 DEF Releases!CurrentVersion, CurrentVersion, Releases!Entries, Entries,
     Releases!Newest, Newest
<1>4. ASSUME NEW a, NEW b
      PROVE  Releases!CompareVersions(a, b) = CompareVersions(a, b)
  BY DEF Releases!CompareVersions, CompareVersions, Releases!At, At
<1>5. ASSUME NEW a, NEW b
      PROVE  Releases!Newer(a, b) <=> Newer(a, b)
  BY <1>4 DEF Releases!Newer, Newer
<1> QED
  BY <1>1, <1>2, <1>3, <1>5

\* A release that passes the comparison goes on offer.
LEMMA OfferStep ==
    ASSUME TypeOK, RequestInv, NEW r \in Requests, SendPublish(r)
    PROVE  Releases!Next
<1>1. /\ audit' = audit /\ cdn' = cdn /\ wire' = wire \union {r}
      /\ caller' = caller /\ manifest' = manifest
      /\ pc[r] = "deciding" /\ pc'[r] = "publishing"
      /\ \A x \in Requests \ {r} : pc'[x] = pc[x]
      /\ ~Downgrade(r)
  BY DEF SendPublish, TypeOK, request, process
<1>2. PICK org, target : org = OrgOf[caller[r]] /\ target = manifest[r].version
  OBVIOUS
<1>3. org \in Orgs /\ target \in {m.version : m \in Manifests}
  <2>1. caller[r] \in Subjects /\ manifest[r] \in Manifests
    BY <1>1 DEF RequestInv, Granted
  <2> QED
    BY <1>2, <2>1 DEF Orgs
<1>4. CurrentVersion(audit, org) = NoVersion \/ Newer(target, CurrentVersion(audit, org))
  BY <1>1, <1>2 DEF Downgrade, Current
<1>5. Offers' = Offers \union {[attempt |-> r, org |-> org, target |-> target]}
  <2>1. OnOffer' = OnOffer \union {r}
    BY <1>1 DEF OnOffer
  <2>2. \A x \in Requests : OfferOf(x)' = OfferOf(x)
    BY <1>1 DEF OfferOf
  <2>3. OfferOf(r) = [attempt |-> r, org |-> org, target |-> target]
    BY <1>2 DEF OfferOf
  <2>4. Offers' = Offers \union {OfferOf(r)}
    BY <2>1, <2>2 DEF Offers, OnOffer
  <2> QED
    BY <2>3, <2>4
<1>6. /\ r \notin {x \in Requests : Closed(x)}
      /\ {x \in Requests : Closed(x)}' = {x \in Requests : Closed(x)}
  <2>1. ~Closed(r) /\ Closed(r)' = Closed(r)
    BY <1>1 DEF Closed
  <2>2. {x \in Requests : Closed(x)}' = {x \in Requests : Closed(x)}
    BY <1>1, <2>1, ClosedKept
  <2> QED
    BY <2>1, <2>2
<1>7. (wire \union cdn)' = (wire \union cdn) \union {r}
  BY <1>1
<1>8. Releases!Offer(r, org, target)
  BY <1>1, <1>4, <1>5, <1>6, <1>7, SameReading DEF Releases!Offer
<1> QED
  BY <1>3, <1>8 DEF Releases!Next

\* A publish that fails takes its release off offer.
LEMMA WithdrawStep ==
    ASSUME TypeOK, NEW r \in Requests, PublishFails(r)
    PROVE  Releases!Next
<1>1. /\ audit' = audit /\ cdn' = cdn /\ wire' = wire
      /\ caller' = caller /\ manifest' = manifest
      /\ pc[r] = "publishing" /\ pc'[r] = "refusing"
      /\ \A x \in Requests \ {r} : pc'[x] = pc[x]
  BY DEF PublishFails, TypeOK, request, process
<1>2. OfferOf(r) \in Offers
  BY <1>1 DEF Offers, OnOffer
<1>3. Offers' = Offers \ {OfferOf(r)}
  <2>1. r \in OnOffer /\ pc'[r] \notin {"publishing", "published"}
    BY <1>1 DEF OnOffer
  <2> QED
    BY <1>1, <2>1, OfferTaken
<1>4. {x \in Requests : Closed(x)}' = {x \in Requests : Closed(x)}
  <2>1. Closed(r)' = Closed(r)
    BY <1>1 DEF Closed
  <2> QED
    BY <1>1, <2>1, ClosedKept
<1>5. Releases!Withdraw(OfferOf(r))
  BY <1>1, <1>3, <1>4 DEF Releases!Withdraw
<1> QED
  BY <1>2, <1>5 DEF Releases!Next

\* The closing of a request closes its attempt.
LEMMA ClosedByStep ==
    ASSUME NEW r \in Requests, pc[r] \in {"published", "refusing"},
           pc'[r] = "answering", Granted(caller[r]), caller' = caller,
           \A x \in Requests \ {r} : pc'[x] = pc[x]
    PROVE  /\ r \notin {x \in Requests : Closed(x)}
           /\ {x \in Requests : Closed(x)}' = {x \in Requests : Closed(x)} \union {r}
<1>1. ~Closed(r) /\ Closed(r)'
  BY DEF Closed, Granted
<1>2. \A x \in Requests \ {r} : Closed(x)' = Closed(x)
  BY DEF Closed
<1> QED
  BY <1>1, <1>2

\* A record is an Append of the entry ReleaseLog settles an attempt by.
LEMMA RecordAppends ==
    ASSUME NEW r, NEW action
    PROVE  Record(r, action) =
              Append(audit, [req |-> r, org |-> OrgOf[caller[r]], actor |-> caller[r],
                             action |-> action, target |-> manifest[r].version])
BY DEF Record, AppendAudit, Entry

\* An acceptance is of a release on offer that the CDN has taken.
LEMMA AcceptStep ==
    ASSUME TypeOK, RequestInv, NEW r \in Requests, Accept(r)
    PROVE  Releases!Next
<1>1. /\ audit' = Record(r, Accepted) /\ cdn' = cdn /\ wire' = wire
      /\ caller' = caller /\ manifest' = manifest
      /\ pc[r] = "published" /\ pc'[r] = "answering"
      /\ \A x \in Requests \ {r} : pc'[x] = pc[x]
  BY DEF Accept, TypeOK, request, process
<1>2. r \in cdn /\ Granted(caller[r]) /\ caller[r] \in Subjects
  BY <1>1 DEF RequestInv, Granted
<1>3. OfferOf(r) \in Offers
  BY <1>1 DEF Offers, OnOffer
<1>4. Offers' = Offers \ {OfferOf(r)}
  <2>1. r \in OnOffer /\ pc'[r] \notin {"publishing", "published"}
    BY <1>1 DEF OnOffer
  <2> QED
    BY <1>1, <2>1, OfferTaken
<1>5. /\ OfferOf(r).attempt = r
      /\ OfferOf(r).org = OrgOf[caller[r]]
      /\ OfferOf(r).target = manifest[r].version
  BY DEF OfferOf
<1>6. Releases!Settle(r, OrgOf[caller[r]], caller[r], Accepted, manifest[r].version)
  <2>1. /\ r \notin {x \in Requests : Closed(x)}
        /\ {x \in Requests : Closed(x)}' = {x \in Requests : Closed(x)} \union {r}
    BY <1>1, <1>2, ClosedByStep
  <2>2. (wire \union cdn)' = wire \union cdn
    BY <1>1
  <2> QED
    BY <1>1, <2>1, <2>2, RecordAppends DEF Releases!Settle
<1>7. Releases!AcceptRelease(OfferOf(r), caller[r])
  BY <1>2, <1>3, <1>4, <1>5, <1>6, SameReading DEF Releases!AcceptRelease
<1> QED
  BY <1>2, <1>3, <1>7 DEF Releases!Next

\* A refusal is of a request that is not on offer, or no longer.
LEMMA RefuseStep ==
    ASSUME TypeOK, RequestInv, NEW r \in Requests, Reject(r)
    PROVE  Releases!Next
<1>1. /\ audit' = Record(r, Rejected) /\ cdn' = cdn /\ wire' = wire
      /\ caller' = caller /\ manifest' = manifest
      /\ pc[r] = "refusing" /\ pc'[r] = "answering"
      /\ \A x \in Requests \ {r} : pc'[x] = pc[x]
  BY DEF Reject, TypeOK, request, process
<1>2. PICK org, actor, target :
          org = OrgOf[caller[r]] /\ actor = caller[r] /\ target = manifest[r].version
  OBVIOUS
<1>3. /\ Granted(actor) /\ actor \in Subjects /\ org \in Orgs
      /\ target \in {m.version : m \in Manifests}
  <2>1. Granted(caller[r]) /\ caller[r] \in Subjects /\ manifest[r] \in Manifests
    BY <1>1 DEF RequestInv, Granted
  <2> QED
    BY <1>2, <2>1 DEF Orgs
<1>4. Offers' = Offers
  <2>1. r \notin OnOffer /\ r \notin OnOffer'
    BY <1>1 DEF OnOffer
  <2> QED
    BY <1>1, <2>1, OffersKept
<1>5. Releases!Settle(r, org, actor, Rejected, target)
  <2>1. /\ r \notin {x \in Requests : Closed(x)}
        /\ {x \in Requests : Closed(x)}' = {x \in Requests : Closed(x)} \union {r}
    BY <1>1, <1>2, <1>3, ClosedByStep
  <2>2. (wire \union cdn)' = wire \union cdn
    BY <1>1
  <2> QED
    BY <1>1, <1>2, <2>1, <2>2, RecordAppends DEF Releases!Settle
<1>6. Releases!RefuseRelease(r, org, actor, target)
  BY <1>4, <1>5, SameReading DEF Releases!RefuseRelease
<1> QED
  BY <1>3, <1>6 DEF Releases!Next

\* The CDN takes a release: it is pushed.
LEMMA TakeStep ==
    ASSUME TypeOK, NEW r \in Requests, CdnTakes(r)
    PROVE  Releases!Next
<1>1. /\ r \in wire
      /\ (wire \union cdn)' = wire \union cdn
      /\ cdn' = cdn \union {r}
      /\ audit' = audit
  BY DEF CdnTakes
<1>2. UNCHANGED <<Offers, {x \in Requests : Closed(x)}>>
  BY DEF CdnTakes, Offers, OfferOf, OnOffer, Closed, Granted, request
<1>3. Releases!Push(r)
  BY <1>1, <1>2 DEF Releases!Push
<1> QED
  BY <1>3 DEF Releases!Next

\* The CDN refuses a release: it is dropped, unless it was taken before.
LEMMA DropStep ==
    ASSUME TypeOK, NEW r \in Requests, CdnRefuses(r)
    PROVE  Releases!Next \/ UNCHANGED LogView
<1>1. wire' = wire \ {r} /\ cdn' = cdn /\ audit' = audit /\ r \in wire
  BY DEF CdnRefuses
<1>2. UNCHANGED <<Offers, {x \in Requests : Closed(x)}>>
  BY DEF CdnRefuses, Offers, OfferOf, OnOffer, Closed, Granted, request
<1>3. CASE r \in cdn
  <2>1. (wire \union cdn)' = wire \union cdn
    BY <1>1, <1>3
  <2> QED
    BY <1>1, <1>2, <2>1 DEF LogView
<1>4. CASE r \notin cdn
  <2>1. (wire \union cdn)' = (wire \union cdn) \ {r}
    BY <1>1, <1>4
  <2>2. Releases!Drop(r)
    BY <1>1, <1>2, <1>4, <2>1 DEF Releases!Drop
  <2> QED
    BY <2>2 DEF Releases!Next
<1> QED
  BY <1>3, <1>4

\* With the process go its log, its offers and its open attempts.
LEMMA LoseStep ==
    ASSUME TypeOK, RequestInv, Exit
    PROVE  Releases!Next
<1> DEFINE abandoned == {x \in Requests : pc[x] # "idle" /\ Granted(caller[x])}
<1>1. /\ audit' = <<>> /\ wire' = wire /\ cdn' = cdn
      /\ caller' = caller /\ manifest' = manifest
      /\ \A x \in Requests : pc'[x] = IF pc[x] = "idle" THEN "idle" ELSE "gone"
  BY DEF Exit, request
<1>2. Offers' = {}
  BY <1>1 DEF Offers, OnOffer
<1>3. {offer.attempt : offer \in Offers} \subseteq abandoned
  <2>1. \A x \in OnOffer : x \in abandoned
    BY DEF OnOffer, RequestInv
  <2>2. \A x \in Requests : OfferOf(x).attempt = x
    BY DEF OfferOf
  <2> QED
    BY <2>1, <2>2 DEF Offers, OnOffer
<1>4. {x \in Requests : Closed(x)}' = {x \in Requests : Closed(x)} \union abandoned
  <2>1. \A x \in Requests : Closed(x)' <=> pc[x] # "idle" /\ Granted(caller[x])
    BY <1>1 DEF Closed, Granted
  <2>2. \A x \in Requests : Closed(x) => pc[x] # "idle" /\ Granted(caller[x])
    BY DEF Closed
  <2> QED
    BY <2>1, <2>2
<1>5. (wire \union cdn)' = wire \union cdn
  BY <1>1
<1>6. Releases!Lose(abandoned)
  BY <1>1, <1>2, <1>3, <1>4, <1>5 DEF Releases!Lose
<1>7. abandoned \in SUBSET Requests
  OBVIOUS
<1> QED
  BY <1>6, <1>7 DEF Releases!Next

\* Every step of the service, seen from the release log.
LEMMA LogStep ==
    ASSUME TypeOK, RequestInv, [Next]_vars
    PROVE  [Releases!Next]_(Releases!logVars)
<1>1. ASSUME NEW r \in Requests, Handle(r)
      PROVE  Releases!Next \/ UNCHANGED LogView
  BY <1>1, HiddenStep, OfferStep, WithdrawStep, AcceptStep, RefuseStep DEF Handle
<1>2. ASSUME NEW r \in Requests, CdnTakes(r) \/ CdnRefuses(r)
      PROVE  Releases!Next \/ UNCHANGED LogView
  BY <1>2, TakeStep, DropStep
<1>3. ASSUME Exit PROVE Releases!Next \/ UNCHANGED LogView
  BY <1>3, LoseStep
<1>4. ASSUME BeginShutdown \/ Start \/ UNCHANGED vars
      PROVE  Releases!Next \/ UNCHANGED LogView
  <2>1. UNCHANGED <<audit, pc, caller, manifest, wire, cdn>>
    BY <1>4 DEF BeginShutdown, Start, vars, request
  <2>2. UNCHANGED <<Offers, {x \in Requests : Closed(x)}>>
    BY <2>1 DEF Offers, OfferOf, OnOffer, Closed, Granted
  <2>3. (wire \union cdn)' = wire \union cdn
    BY <2>1
  <2>4. UNCHANGED LogView
    BY <2>1, <2>2, <2>3 DEF LogView
  <2> QED
    BY <2>4
<1>5. ASSUME NEW r \in Requests,
             \/ \E c \in Subjects \union {Nobody} : Deny(r, c)
             \/ \E c \in Subjects, m \in Manifests : RefuseManifest(r, c, m) \/ Admit(r, c, m)
      PROVE  Releases!Next \/ UNCHANGED LogView
  BY <1>5, ReceiveStep
<1>6. Releases!Next \/ UNCHANGED LogView
  <2>1. CASE \E r \in Requests, c \in Subjects \union {Nobody} : Deny(r, c)
    BY <1>5, <2>1
  <2>2. CASE \E r \in Requests, c \in Subjects, m \in Manifests :
                RefuseManifest(r, c, m) \/ Admit(r, c, m)
    BY <1>5, <2>2
  <2>3. CASE \E r \in Requests : Handle(r) \/ CdnTakes(r) \/ CdnRefuses(r)
    BY <1>1, <1>2, <2>3
  <2>4. CASE ShutdownCompletes \/ ShutdownTimesOut \/ Crash
    BY <1>3, <2>4 DEF ShutdownCompletes, ShutdownTimesOut, Crash
  <2> QED
    BY <1>4, <2>1, <2>2, <2>3, <2>4 DEF Next
<1> QED
  BY <1>6 DEF LogView, Releases!logVars

\* The service keeps the promise of the release log: an attempt is settled once,
\* and accepted only while on offer, after it was found newer than the release
\* current then, and after the CDN has taken it.
THEOREM ReleasesKept == Spec => ImplementsReleaseLog
<1>1. Init => Releases!Init
  BY DEF Init, Releases!Init, Offers, OnOffer, Closed
<1>2. TypeOK /\ RequestInv /\ [Next]_vars => [Releases!Next]_(Releases!logVars)
  BY LogStep
<1> QED
  BY <1>1, <1>2, TypeCorrect, PTL DEF Spec, ImplementsReleaseLog, Releases!Spec
=============================================================================
