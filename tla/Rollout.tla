-------------------------------- MODULE Rollout -------------------------------
(***************************************************************************)
(* The Rollout Service: internal/rollout/server.go behind the guard of     *)
(* internal/authz/router.go, publishing through internal/rollout/cdn.go to *)
(* a CDN that is not ours, in a process served and stopped by              *)
(* internal/httpserve/serve.go with a store that lives in its memory.      *)
(*                                                                         *)
(* A request is one POST /api/rollouts.  net/http runs every request in a  *)
(* goroutine of its own; the store's mutex makes each access to the audit  *)
(* log one step and nothing makes two accesses one.  create is therefore   *)
(* five steps: receive (guard, decode, verify: no shared state), decide    *)
(* (read the history, compare, send), the CDN's answer, the audit write,   *)
(* and the answer to the caller.                                           *)
(*                                                                         *)
(* The HTTP 500 paths are absent: scopes and versions were validated       *)
(* before, so none of the calls that lead there can fail.                  *)
(***************************************************************************)
EXTENDS AuditLog, ReleaseVersion, FiniteSets

CONSTANTS
    Requests,      \* the requests clients may make, each at most once
    Subjects,      \* the callers the token store knows
    Nobody,        \* stands for a missing or unknown credential
    OrgOf,         \* organisation of each subject
    RoleOf,        \* role of each subject
    Manifests,     \* request bodies: [version, check]
    MaxRestarts    \* bound of the model: how often the process is started anew

Roles  == {"operator", "admin"}
Checks == {"undecodable", "malformed", "badSignature", "ok"}

ASSUME RolloutAssumption ==
    /\ Nobody \notin Subjects
    /\ DOMAIN OrgOf = Subjects
    /\ RoleOf \in [Subjects -> Roles]
    /\ \A m \in Manifests : m.check \in Checks
    /\ \A m \in Manifests : m.check = "ok" => m.version \in Version
    /\ MaxRestarts \in Nat

VARIABLES
    phase,       \* of the process: "serving", "draining" or "down"
    restarts,    \* how often it was started after the first time
    audit,       \* store.audit of the running process
    pc,          \* where each request stands
    caller,      \* subject behind each request
    manifest,    \* its body
    status,      \* HTTP status decided for it, 0 before
    wire,        \* publish calls under way to the CDN
    cdn,         \* requests whose release the CDN has taken
    basis        \* for the properties: length of the log create decided from

vars == <<phase, restarts, audit, pc, caller, manifest, status, wire, cdn, basis>>

request == <<caller, manifest>>
process == <<phase, restarts>>

\* "gone": the request belonged to a process that has exited.
Steps    == {"idle", "deciding", "publishing", "published", "refusing",
             "answering", "done", "gone"}
InFlight == {r \in Requests : pc[r] \notin {"idle", "done", "gone"}}

NoOrg == ""
NoManifest == [version |-> NoVersion, check |-> "undecodable"]

Init ==
    /\ phase = "serving"
    /\ restarts = 0
    /\ audit = <<>>
    /\ pc = [r \in Requests |-> "idle"]
    /\ caller = [r \in Requests |-> Nobody]
    /\ manifest = [r \in Requests |-> NoManifest]
    /\ status = [r \in Requests |-> 0]
    /\ wire = {}
    /\ cdn = {}
    /\ basis = [r \in Requests |-> 0]

-----------------------------------------------------------------------------
(* The guard of the router, and the part of create before shared state. *)

\* adminOnly, the grant on both rollout routes.
Granted(c) == c \in Subjects /\ RoleOf[c] = "admin"

DeniedStatus(c) == IF c \in Subjects THEN 403 ELSE 401

Verified(m) == m.check = "ok"

RefusalStatus(m) == IF m.check = "badSignature" THEN 403 ELSE 400

\* deny answers without touching the store.
Deny(r, c) ==
    /\ phase = "serving"
    /\ pc[r] = "idle"
    /\ ~Granted(c)
    /\ caller' = [caller EXCEPT ![r] = c]
    /\ status' = [status EXCEPT ![r] = DeniedStatus(c)]
    /\ pc' = [pc EXCEPT ![r] = "done"]
    /\ UNCHANGED <<process, audit, manifest, wire, cdn, basis>>

RefuseManifest(r, c, m) ==
    /\ phase = "serving"
    /\ pc[r] = "idle"
    /\ Granted(c)
    /\ ~Verified(m)
    /\ caller' = [caller EXCEPT ![r] = c]
    /\ manifest' = [manifest EXCEPT ![r] = m]
    /\ status' = [status EXCEPT ![r] = RefusalStatus(m)]
    /\ pc' = [pc EXCEPT ![r] = "refusing"]
    /\ UNCHANGED <<process, audit, wire, cdn, basis>>

Admit(r, c, m) ==
    /\ phase = "serving"
    /\ pc[r] = "idle"
    /\ Granted(c)
    /\ Verified(m)
    /\ caller' = [caller EXCEPT ![r] = c]
    /\ manifest' = [manifest EXCEPT ![r] = m]
    /\ pc' = [pc EXCEPT ![r] = "deciding"]
    /\ UNCHANGED <<process, audit, status, wire, cdn, basis>>

-----------------------------------------------------------------------------
(* create from the reading of the history to the answer. *)

Current(r) == CurrentVersion(audit, OrgOf[caller[r]])

\* Mutant: cmp < 0 in place of cmp <= 0, the current release passes again.
DowngradeIfOlder(r) ==
    Current(r) # NoVersion /\ Newer(Current(r), manifest[r].version)

Downgrade(r) ==
    Current(r) # NoVersion /\ ~Newer(manifest[r].version, Current(r))

\* Mutant: the release is sent first and compared after.
RefuseDowngradeAfterSending(r) ==
    /\ pc[r] = "deciding"
    /\ Downgrade(r)
    /\ basis' = [basis EXCEPT ![r] = Len(audit)]
    /\ wire' = wire \union {r}
    /\ status' = [status EXCEPT ![r] = 409]
    /\ pc' = [pc EXCEPT ![r] = "refusing"]
    /\ UNCHANGED <<process, audit, request, cdn>>

RefuseDowngrade(r) ==
    /\ pc[r] = "deciding"
    /\ Downgrade(r)
    /\ basis' = [basis EXCEPT ![r] = Len(audit)]
    /\ status' = [status EXCEPT ![r] = 409]
    /\ pc' = [pc EXCEPT ![r] = "refusing"]
    /\ UNCHANGED <<process, audit, request, wire, cdn>>

SendPublish(r) ==
    /\ pc[r] = "deciding"
    /\ ~Downgrade(r)
    /\ basis' = [basis EXCEPT ![r] = Len(audit)]
    /\ wire' = wire \union {r}
    /\ pc' = [pc EXCEPT ![r] = "publishing"]
    /\ UNCHANGED <<process, audit, request, status, cdn>>

\* Mutant: the status code of the CDN's answer is not looked at.
PublishSucceedsUnchecked(r) ==
    /\ pc[r] = "publishing"
    /\ r \notin wire
    /\ pc' = [pc EXCEPT ![r] = "published"]
    /\ UNCHANGED <<process, audit, request, status, wire, cdn, basis>>

PublishSucceeds(r) ==
    /\ pc[r] = "publishing"
    /\ r \in cdn
    /\ pc' = [pc EXCEPT ![r] = "published"]
    /\ UNCHANGED <<process, audit, request, status, wire, cdn, basis>>

\* Mutant: an http.Client without a Timeout waits until the call is answered.
PublishFailsWhenAnswered(r) ==
    /\ pc[r] = "publishing"
    /\ r \notin wire
    /\ status' = [status EXCEPT ![r] = 502]
    /\ pc' = [pc EXCEPT ![r] = "refusing"]
    /\ UNCHANGED <<process, audit, request, wire, cdn, basis>>

\* The CDN refused, the connection failed, the caller hung up (r.Context()) or
\* the client's 30 seconds are over; the call may still arrive, or have arrived.
PublishFails(r) ==
    /\ pc[r] = "publishing"
    /\ status' = [status EXCEPT ![r] = 502]
    /\ pc' = [pc EXCEPT ![r] = "refusing"]
    /\ UNCHANGED <<process, audit, request, wire, cdn, basis>>

Entry(r, action) ==
    [req |-> r, org |-> NoOrg, actor |-> caller[r], action |-> action,
     target |-> manifest[r].version]

Record(r, action) == AppendAudit(audit, OrgOf[caller[r]], Entry(r, action))

Accept(r) ==
    /\ pc[r] = "published"
    /\ audit' = Record(r, Accepted)
    /\ status' = [status EXCEPT ![r] = 202]
    /\ pc' = [pc EXCEPT ![r] = "answering"]
    /\ UNCHANGED <<process, request, wire, cdn, basis>>

\* Mutant: only a successful attempt is recorded.
RejectUnrecorded(r) ==
    /\ pc[r] = "refusing"
    /\ audit' = audit
    /\ pc' = [pc EXCEPT ![r] = "answering"]
    /\ UNCHANGED <<process, request, status, wire, cdn, basis>>

\* reject: the record first, then the answer.
Reject(r) ==
    /\ pc[r] = "refusing"
    /\ audit' = Record(r, Rejected)
    /\ pc' = [pc EXCEPT ![r] = "answering"]
    /\ UNCHANGED <<process, request, status, wire, cdn, basis>>

Answer(r) ==
    /\ pc[r] = "answering"
    /\ pc' = [pc EXCEPT ![r] = "done"]
    /\ UNCHANGED <<process, audit, request, status, wire, cdn, basis>>

\* list reads the log once and changes nothing: what subject c is shown.
List(c) == Audit(audit, OrgOf[c], RolloutActions)

-----------------------------------------------------------------------------
(* The CDN (external): takes a release or not, in its own time. *)

CdnTakes(r) ==
    /\ r \in wire
    /\ wire' = wire \ {r}
    /\ cdn' = cdn \union {r}
    /\ UNCHANGED <<process, audit, pc, request, status, basis>>

CdnRefuses(r) ==
    /\ r \in wire
    /\ wire' = wire \ {r}
    /\ UNCHANGED <<process, audit, pc, request, status, cdn, basis>>

-----------------------------------------------------------------------------
(* The process. *)

\* A signal: the listener closes, requests in flight go on.
BeginShutdown ==
    /\ phase = "serving"
    /\ phase' = "draining"
    /\ UNCHANGED <<restarts, audit, pc, request, status, wire, cdn, basis>>

\* With the process goes its store, and every goroutine in it.
Exit ==
    /\ phase' = "down"
    /\ audit' = <<>>
    /\ pc' = [r \in Requests |-> IF pc[r] = "idle" THEN "idle" ELSE "gone"]
    /\ UNCHANGED <<restarts, request, status, wire, cdn, basis>>

ShutdownCompletes == phase = "draining" /\ InFlight = {} /\ Exit

\* Shutdown gives up after 15 seconds, half of what a publish may take.
ShutdownTimesOut == phase = "draining" /\ InFlight # {} /\ Exit

Crash == phase = "serving" /\ Exit

\* main: a new process with an empty store.New().
Start ==
    /\ phase = "down"
    /\ restarts < MaxRestarts
    /\ phase' = "serving"
    /\ restarts' = restarts + 1
    /\ UNCHANGED <<audit, pc, request, status, wire, cdn, basis>>

-----------------------------------------------------------------------------

Handle(r) ==
    \/ RefuseDowngrade(r)
    \/ SendPublish(r)
    \/ PublishSucceeds(r)
    \/ PublishFails(r)
    \/ Accept(r)
    \/ Reject(r)
    \/ Answer(r)

Next ==
    \/ \E r \in Requests, c \in Subjects \union {Nobody} : Deny(r, c)
    \/ \E r \in Requests, c \in Subjects, m \in Manifests :
          RefuseManifest(r, c, m) \/ Admit(r, c, m)
    \/ \E r \in Requests : Handle(r) \/ CdnTakes(r) \/ CdnRefuses(r)
    \/ BeginShutdown
    \/ ShutdownCompletes
    \/ ShutdownTimesOut
    \/ Crash
    \/ Start

\* A goroutine that can run does run, and the client's timeout fires; nothing is
\* asked of callers, of the CDN or of whoever starts and stops the process.
Fairness == \A r \in Requests : WF_vars(Handle(r))

Spec == Init /\ [][Next]_vars /\ Fairness

-----------------------------------------------------------------------------
(* Properties. *)

Orgs == {OrgOf[c] : c \in Subjects}

AuditEntry ==
    [req : Requests, org : Orgs, actor : Subjects, action : RolloutActions,
     target : {m.version : m \in Manifests}]

\* Every variable keeps its type; in particular every entry of the log carries
\* the organisation of a known credential and a target some manifest named.
TypeOK ==
    /\ phase \in {"serving", "draining", "down"}
    /\ restarts \in 0..MaxRestarts
    /\ audit \in Seq(AuditEntry)
    /\ pc \in [Requests -> Steps]
    /\ caller \in [Requests -> Subjects \union {Nobody}]
    /\ manifest \in [Requests -> Manifests \union {NoManifest}]
    /\ status \in [Requests -> {0, 202, 400, 401, 403, 409, 502}]
    /\ wire \subseteq Requests
    /\ cdn \subseteq Requests
    /\ basis \in [Requests -> Nat]

\* What is sent to the CDN, and so what it ever takes, is a manifest that passed
\* verification, sent for an admin, by a request that is not answered 400, 401,
\* 403 or 409 (create: verify and compare before anything acts on the manifest).
OnlyVettedReleasesLeave ==
    \A r \in wire \union cdn :
        /\ manifest[r].check = "ok"
        /\ Granted(caller[r])
        /\ status[r] \in {0, 202, 502}

\* No entry says "accepted" of a release the CDN did not take: create records
\* the acceptance only after a 2xx answer to its publish call.
AcceptedWasPublished ==
    \A i \in 1..Len(audit) : audit[i].action = Accepted => audit[i].req \in cdn

EntriesFor(r) == {i \in 1..Len(audit) : audit[i].req = r}

\* Requests that got past the guard and are settled in this process.
Settled(r) == pc[r] \in {"answering", "done"} /\ Granted(caller[r])

\* Entry i is the one record of r: its caller, its organisation, its outcome.
IsRecordOf(i, r) ==
    /\ EntriesFor(r) = {i}
    /\ audit[i].actor = caller[r]
    /\ audit[i].org = OrgOf[caller[r]]
    /\ audit[i].target = manifest[r].version
    /\ audit[i].action = IF status[r] = 202 THEN Accepted ELSE Rejected

\* An attempt that got past the guard is in the log before it is answered, once,
\* under the caller and the caller's organisation, as accepted exactly when the
\* answer is 202; an attempt not yet settled is not in the log.
RecordedBeforeAnswered ==
    \A r \in Requests :
        IF Settled(r)
        THEN \E i \in 1..Len(audit) : IsRecordOf(i, r)
        ELSE EntriesFor(r) = {}

\* Where the acceptances of an organisation stand in the log.
AcceptedBy(org) ==
    {i \in 1..Len(audit) : audit[i].org = org /\ audit[i].action = Accepted}

\* A request refused as a downgrade was not newer than a release its own
\* organisation had already had accepted when the request read the history;
\* what other organisations roll out never refuses it.
ConflictIsOwnHistory ==
    \A r \in Requests :
        status[r] = 409 /\ pc[r] \in {"refusing", "answering", "done"} =>
            \E i \in AcceptedBy(OrgOf[caller[r]]) :
                /\ i <= basis[r]
                /\ ~Newer(manifest[r].version, audit[i].target)

\* The entry at k was decided before another acceptance of the organisation,
\* which stands below it, was recorded.
Overtaken(k) ==
    \E j \in AcceptedBy(audit[k].org) : j < k /\ basis[audit[k].req] < j

\* Along the log each accepted release of an organisation is newer than the
\* ones before it, except past an entry that was decided before the acceptance
\* preceding it was recorded: only two creates in flight at once defeat the
\* refusal of downgrades.
InversionNeedsOverlap ==
    \A org \in Orgs : \A i, j \in AcceptedBy(org) :
        i < j /\ ~Newer(audit[j].target, audit[i].target) =>
            \E k \in AcceptedBy(org) : i < k /\ k <= j /\ Overtaken(k)

\* What list shows an admin is exactly the recorded attempts of the admin's own
\* organisation, and its first accepted entry is the version the next create of
\* that organisation is compared with.
ListingIsOwnHistory ==
    \A c \in {s \in Subjects : Granted(s)} :
        LET shown    == List(c)
            accepted == {i \in 1..Len(shown) : shown[i].action = Accepted}
            first    == CHOOSE i \in accepted : \A j \in accepted : i <= j
        IN  /\ {shown[i].req : i \in 1..Len(shown)} =
                  {r \in Requests : Settled(r) /\ OrgOf[caller[r]] = OrgOf[c]}
            /\ CurrentVersion(audit, OrgOf[c]) =
                  IF accepted = {} THEN NoVersion ELSE shown[first].target

\* A request that was let in is answered, or its process exits: a CDN that
\* never answers cannot hold it, because the publish call times out.
EveryRequestEnds ==
    \A r \in Requests : r \in InFlight ~> pc[r] \in {"done", "gone"}

-----------------------------------------------------------------------------
(* What the invariants above rest on. *)

\* Where a request stands says who is behind it, what has been decided of it
\* and whether its release can be on its way to the CDN.
RequestInv ==
    \A r \in Requests :
        /\ pc[r] \notin {"idle", "done", "gone"} =>
              Granted(caller[r]) /\ manifest[r] \in Manifests
        /\ pc[r] \in {"deciding", "publishing", "published"} =>
              manifest[r].check = "ok"
        /\ pc[r] \in {"idle", "deciding", "publishing", "published"} => status[r] = 0
        /\ pc[r] = "refusing" => status[r] \in {400, 403, 409, 502}
        /\ pc[r] \in {"idle", "deciding"} => r \notin wire \union cdn
        /\ pc[r] = "published" => r \in cdn

-----------------------------------------------------------------------------
(* Rollout implements ReleaseLog. *)

\* Compared and not yet recorded.
OnOffer == {r \in Requests : pc[r] \in {"publishing", "published"}}

OfferOf(r) ==
    [attempt |-> r, org |-> OrgOf[caller[r]], target |-> manifest[r].version]

Offers == {OfferOf(r) : r \in OnOffer}

\* Recorded, or cut off with its process.
Closed(r) == pc[r] \in {"answering", "done", "gone"} /\ Granted(caller[r])

Releases == INSTANCE ReleaseLog WITH
    Attempts      <- Requests,
    Organisations <- Orgs,
    Actors        <- Subjects,
    Targets       <- {m.version : m \in Manifests},
    log           <- audit,
    offers        <- Offers,
    sent          <- wire \union cdn,
    pushed        <- cdn,
    settled       <- {r \in Requests : Closed(r)}

\* Every step of the service is a step of the release log or leaves it alone.
ImplementsReleaseLog == Releases!Spec

-----------------------------------------------------------------------------
(* What the comments of the code say and the code does not keep. *)

\* release.go:35: "version is not newer than the last accepted rollout" is
\* refused, so the accepted versions of an organisation only go up.
AcceptedVersionsIncrease ==
    \A org \in Orgs : \A i, j \in AcceptedBy(org) :
        i < j => Newer(audit[j].target, audit[i].target)

\* server.go:139: "The audit log is the record of what was pushed": a release
\* the CDN took for an answered request is in the log as accepted.
LogIsTheRecordOfPushes ==
    \A r \in cdn : pc[r] = "done" =>
        \E i \in 1..Len(audit) : audit[i].req = r /\ audit[i].action = Accepted

\* server.go:6: "every attempt, allowed or denied, lands in the audit log".
EveryAttemptIsRecorded ==
    \A r \in Requests : pc[r] = "done" => EntriesFor(r) # {}
=============================================================================
