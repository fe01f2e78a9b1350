# SensorHub in TLA+

A model of the running parts of SensorHub, the Go program of this repository:
what its three services promise, checked with TLC on small instances and, all
but liveness, proved with TLAPS. Paths below are relative to the repository;
`server.go:79` style references name the package in context.

## Inventory

| Component | State | Operations | Interacts with |
|---|---|---|---|
| Rollout service (`internal/rollout`, `cmd/rollout`) | none of its own; requests in flight | `create`, `list`, `reject`; `Publish` to the CDN | audit log (calls), CDN (HTTPS call with a timeout), guard, HTTP server |
| Release versions (`internal/rollout/release.go`) | pure | `ParseVersion`, `CompareVersions`, `Validate`, `Verify` | used by `create` |
| Audit log (`internal/store`) | one slice for all organisations | `AppendAudit`, `Audit` | rollout service only |
| Telemetry DB (`internal/store`) | devices, capped readings per device | `Enrol`, `Device`, `RecordReading`, `Fleet`, `Readings` | ingest writes, dashboard reads |
| Ingest API (`internal/ingest`) | connection slots, wait group, one goroutine per connection | `Serve`, `handle`, `session`, `record` | telemetry DB, devices (MQTT over TLS) |
| Dashboard API (`internal/dashboard`) | none | `fleet`, `telemetry`, `export` | telemetry DB |
| Guard (`internal/authz`, `internal/authn`) | routes and token store, fixed at start | `NewStore`, `Lookup`, `BearerToken`, `Handle`, `guard`, `deny`, `Caller` | in front of both HTTP services |
| HTTP server (`internal/httpserve`) | listener goroutine, its error, drain timer | `Run` | signals, requests |
| MQTT codec (`internal/mqtt`) | pure | `Read`, `Write`, decoders and encoders | ingest, devices |
| Processes (`cmd/*`) | one `store.New()` each | start, stop | operating system, fleet and credentials files |

Everything is in memory: a store dies with its process, and the three commands
do not share one. `threatmodel/`, `policy/` and `scripts/` are documents and
release tooling without state.

What is hard here:

* **Read, publish, record.** `create` reads the audit log, calls the CDN and
  writes the audit log in three separate steps; requests run concurrently, the
  CDN answers late, twice as late as shutdown waits, or never.
* **Audit before answer, on every path.** Six outcomes, one entry each.
* **One log, many organisations.** Isolation is a filter inside one scan.
* **Connections that come and go.** Slots, sockets and the wait group are
  released in three deferred steps while the accept loop goes on; a session
  does not observe the cancelled context.
* **Start, stop, fail.** A listener can fail while a signal arrives, a drain can
  run out while handlers hang, and a credentials file can contradict itself.
* **A conversation over bytes.** The server keeps no frame marks: one byte read
  too many or too few, or one answer too many, and nothing after it matches.
* **Caps and numbers.** The cap on readings, and the downgrade check, which is
  only as good as the parsing and comparison of versions.

What makes each component correct:

* Rollout: only vetted releases reach the CDN; an attempt is recorded exactly
  once, truthfully, before it is answered; accepted means published; releases
  go up unless requests overlap; organisations do not influence each other;
  every request ends.
* Versions: what parses is in range and has one decimal spelling; comparison
  is the order of the numbers spelled.
* Telemetry DB: the newest readings, newest first, without a gap, up to the cap.
* Ingest: bounded connections; a reading is its device's own; acknowledged
  means recorded; nothing that could write runs after `Serve` has returned, it does
  return, and devices that nobody will accept any more are let go.
* Dashboard: an export's part for a device is of one moment of the export and
  was the caller's own when read; a file cut off is the beginning of such a
  file; nobody sees what happens to others' devices.
* Guard: every filed credential gives the identity it was filed with, and only
  a filed caller with a granted role reaches a handler.
* HTTP server: it ends when told to or when its listener fails, and calls it
  success only if it was told to and everything read was answered.
* Codec: decoding undoes encoding within the limits, wherever a stream is cut;
  answers come in the order of the messages, each with its identifier.
* Processes: what one records the others show. They do not (see `deployment_flow`).

## Modules

`EXTENDS` goes from right to left:

    ReleaseVersion ─┬─ ReleaseLog            (abstract)
    AuditLog ───────┴─ Rollout ─┬─ MCRollout
                                └─ RolloutProofs
    ReleaseVersion ─── VersionTexts ─┬─ MCReleaseVersion
                                     └─ VersionTextProofs
    TelemetryDB ─┬─ MCTelemetryDB
                 ├─ TelemetryProofs ──────┬───────────────────┐
                 ├─ Ingest ─┬─ MCIngest   │                   │
                 │          └─────────────┴─ IngestProofs     │
                 └─ Dashboard ─┬─ MCDashboard                 │
                               └──────────────────────────────┴─ DashboardProofs
    Mqtt ─── MqttSession ─┬─ MCMqtt
                          └─ MqttProofs
    Access ─── HttpServe ─┬─ MCHttpServe
                          └─ HttpServeProofs
    Deployment ─── MCDeployment      (two instances of TelemetryDB)

`RolloutProofs`, `VersionTextProofs` and `MqttProofs` also extend `DataFacts`,
which extends `ReleaseVersion`: facts about sequences, numbers and versions.

**ReleaseVersion** — a version text is a sequence of parts, a part is what
`ParseVersion` asks of it: width, first byte, and what `strconv.Atoi` says.
Signs are a first byte of their own because `Atoi` accepts them. **VersionTexts**
offers texts two at a time; `AtoiReads` is what is assumed of `Atoi`: it reads
no more digits than the part has bytes, as many if the part begins with a digit
other than zero, and "0" as zero.

**AuditLog** — `AppendAudit`, `Audit` and `currentVersion` as operators on a log.
`Audit` goes through the log from its end and puts together what each entry adds.
Each operation holds the store's mutex throughout, so each is evaluated in one step.

**Rollout** — one element of `Requests` is one `POST /api/rollouts`. Its `pc`
follows `create`: `idle` → `deciding` (guard, decode and verification passed:
`Admit`) → `publishing` (`SendPublish` read the log, compared and sent) →
`published` → `answering` (`Accept` wrote the log) → `done`; refusals go
through `refusing` and `Reject`. The CDN is external: it may take or refuse what
is on `wire` at any time, also after `create` has given up on it. `phase` is the
process: signal, drain, exit after the drain or after its 15 seconds, crash, and
start with an empty log. When a process exits, all its requests become `gone`.
`basis` and the field `req` of an entry exist for the properties only. `List` is
an operator on the state, since listing changes nothing.

**ReleaseLog** — the promise without requests, calls and processes. A release is
offered when it is newer than the current one of its organisation; the CDN takes
only what was offered; an attempt is settled by one entry at most, and as
accepted only while it is on offer and after the CDN took it. Between offer and
acceptance other acceptances may come: this is what `rollout_downgrade` is
about. `Rollout` implements it with `log` mapped to `audit`, `offers` to the
requests between comparison and audit write, `sent` to `wire` and `cdn`
together, `pushed` to `cdn`, and `settled` to the requests past their audit
write.

**TelemetryDB** — devices, readings and, for the properties, the full `history`.
By itself it is fed with samples that carry the organisation they were taken
for, which the code does not store.

**Ingest** — the accept loop (`phase`, `slots`, `wg`), its context (`done`), the
goroutine that waits for the context and closes the listener (`CloseListener`,
`listening`), and per connection `conn` from `backlog` through TLS handshake,
CONNECT and session to the three deferred calls `CloseConn`, `ReleaseSlot`,
`Done`. `AcceptFails` ends the loop and, by the deferred `cancel`, wakes that
goroutine; it is not in the wait group, so `Serve` may return while the listener
is still open and connections wait at it. They are let go when it is closed, at
the latest by the deferred `Close` of `cmd/ingest` or the exit. Peers send what
they like in any order; input that ends a session, whatever its reason, is
`End`. A payload is the sequence of samples its JSON documents spell: `record`
decodes the first and the PUBACK acknowledges the payload, so that
`AckedIsRecorded` is about its head. PINGREQ changes no state here. Of time only
deadlines are kept: handshake and CONNECT must finish in time, while in a
session each packet starts the deadline anew, so that only a peer that has gone
`quiet` is sure to meet it.

**Dashboard** — `export` as `ReadFleet`, then one `ReadDevice` per device of that
fleet in the order of their ids, then `Finish`, while `Report` (ingest) and
`Provision` (enrolment) change the store in between. `file` is kept by device,
which is all the properties tell apart. `WriteFails` is a row that cannot be
written. `fleet` and
`telemetry` are the operators `FleetPage` and `TelemetryPage`. `since` and
`moved` remember the fleet read for the properties. All share one store, as the
tests do; what the commands do instead is in Deployment.

**Mqtt** — `Write` puts a frame on `stream`, the reader takes it off: header,
length byte by length byte, body. `Radix` is 128 in the code, `StringSpan` and
`MaxPacketSize` are 65536; the assumption of the module is what these have in
common with the small numbers TLC is given (2, 16 and 12), with which four-digit
lengths, full packets and string lengths that wrap are within reach: four digits
suffice for the largest packet, and a string whose length wraps makes a packet
that is too large. `Connect`, `Publish` and `Bodiless` are what the code's types
allow a device to send, at the QoS the decoder takes. A byte is below 256 always.

**MqttSession** — the server's side of the conversation: `session` reads a packet
(`Receive`), then deals with it before it reads the next. `RefuseConnect`,
`AcceptConnect`, `TakePublish`, `Ping` and `End` are the branches of its two
switches. `answers` holds what it has written; a write fails only after the
connection has ended. The certificate's `topic` is fixed at the start. `record`
may refuse any sample, which is one way of `End`.

**Access** — `authn` and `authz` as operators: `Takes` and `With` are one turn of
the loop in `NewStore`, `Refusal` is the guard, `Turned` the router in front of
it (401, 403, or 404 without any guard), `CallerOf` what the handler gets from
`Caller`. A file may hold the digest of the empty text; `NewStore` takes such an
entry and `Lookup` never honours it. The two grants tables are those of the two `Handler` functions.

**HttpServe** — a process from reading its credentials file (`LoadEntry`, one
entry after the other) through `signal.NotifyContext` (`Notify`; before it a
signal kills) to `Run`: the listener goroutine (`Listen`, `ListenFails`), the
select with its two arms (`SelectError`, `SelectDone`), and the drain, which
ends when nothing is connected (`DrainEnds`) or its 15 seconds are over
(`DrainExpires`). Requests come, stay unread, are turned away or handled at any
time; `Exit` cuts off what is left. It is the same process that `Rollout` sees
as its `phase`.

**Deployment** — the ingest and the dashboard process, each with its own instance
of TelemetryDB, filled from the fleet file as the process finds it at its start;
the provisioning system may rewrite the file in between.

## Runs

| Run | Instance | Shows |
|---|---|---|
| `rollout_tenants` | 2 requests, 2 organisations (admin + operator, admin), strangers, all manifest classes, versions 1, 1.0 and 2, 1 restart | `OnlyVettedReleasesLeave`, `RecordedBeforeAnswered`, `AcceptedWasPublished`, `InversionNeedsOverlap`, `ConflictIsOwnHistory`, `ListingIsOwnHistory`, `EveryRequestEnds`, refinement of `ReleaseLog` |
| `version_texts` | pairs of texts of 1–2 sample parts and of up to 4 components 0–2 | `ParsedIsVersion`, `DecimalSpellingsDiffer`, `CompareIsByWeight` |
| `dashboard_export` | 1 export, 2 devices, 2 organisations, limits 1 (page), 2 (export) and 3 (cap), 4 readings per device | `NewestFirstWithoutGap`, `ExportIsOfItsTime`, `TruncatedIsBeginning`, `OnlyOwnDevicesAreWritten`, `OthersAreInvisible` |
| `ingest_sessions` | 2 connections, 1 slot, 2 enrolled devices and 1 that is not, payloads of 1 and 2 samples, cap 1, 2 readings per device | `OpenWithinCapacity`, `NobodySpeaksForAnother`, `NothingLeftAfterReturn`, `AckedIsRecorded`, `WaitersAreLetGo`, `StopsOncePeersAreQuiet` |
| `mqtt_stream` | a device's CONNECT and two of publish, ping and disconnect, with topics of 1, 8, 10 and 16 bytes, cut anywhere; strays: any 5 bytes after a PUBLISH header, CONNECTs of two levels with and without credentials, something else first | `InStep`, `WrittenIsReadable`, `DecodedIsWhole`, `AnswersInOrder`, `ToldOnce` |
| `http_process` | 2 starts, good and bad credentials files of up to 2 entries, one with an entry for the empty token, 2 requests, the routes of both services | `EveryCredentialWorks`, `AdmittedAsFiled`, `OkMeansDrained`, `ProcessEnds` |

and each module's type invariant where it is checked first. Six runs end in a
counterexample to something the repository says:

| Run | The code | The text |
|---|---|---|
| `rollout_downgrade` | of two overlapping creates the second is accepted though it is not newer; the trace has one version twice | release.go:35, server.go:139–141 |
| `rollout_lostreply` | a release the CDN took stands in the log as rejected | server.go:139–141 |
| `rollout_denied` | attempts turned away by the guard are not audited | server.go:6–7 |
| `version_signs` | `+7` and `-0` parse | release.go:108 |
| `telemetry_moved` | a device enrolled with another organisation takes its readings along | store.go:114–115 |
| `deployment_flow` | readings of the ingest process never reach the dashboard process | tests/telemetry_flow_test.go:3–8 |

The texts of `version_texts` are weighed in base 3, one digit for each component;
`mqtt_stream` runs with radix 2, strings of up to 15 bytes and packets of up to 12.

**Bounds.** Two requests are enough for every relation between an attempt and
its record, and for an overlap; that longer chains of releases behave is proved
(`ReleasesGoUp`). One restart separates the life of a log from the next, and two
starts a process from the next. The versions include two spellings of one value,
so that `<=` and `<` differ. For the cap, one reading more than it; for slots,
one connection more than there are. A file of two entries has every defect in
front of which, or after which, something good stands. `MaxRestarts`,
`MaxStarts`, `MaxHistory` and `MaxWrites` are bounds of the model, and so is
`Watched`: once the export has ended, the store stands still. Organisations are
symmetric in `dashboard_export`; symmetry is off where liveness is checked.
Deadlock is not checked: a system with all requests answered, or a process that
is down, may stop.

**Fairness.** Every goroutine that can run does (`Handle(r)`, `Leave(c)`,
`PubAck` or its failure), because the Go scheduler runs it; timeouts fire (the
CDN client's 30 seconds inside `Handle`, connection deadlines in `Deadline`);
the goroutine that closes the listener of `Serve` runs once the context is done, and
`Accept` then fails. An HTTP process goes on with its start,
its select takes an arm that is ready, and its drain ends or runs out
(`HttpSpec`); nothing is assumed there of handlers, so `ProcessEnds` holds with
handlers that hang. Nothing is assumed of callers, devices, the CDN or the
operator. `StopsOncePeersAreQuiet` therefore has the peers'
silence as its condition: without it the code may wait for ever.

## Proofs

Each theorem holds for all values of the constants that the named assumption of
its module allows: any sets of requests, devices, connections, organisations and
files, any caps and limits, any number of restarts, any messages and streams.

`DataFacts`: what the library does not say about the data of the models.

* Induction: a set with 0 and the successor of each of its numbers has all
  (`SetInduction`, from the well-foundedness of the numbers), and functions may be
  defined by recursion that goes down (`RecursionExists`). With these,
  `FlattenSeq` is opened: it is the last of its parts (`FlattenIs`), and adding a
  sequence at either end adds it to the result. Where each sequence has one element or
  none, the result picks these elements in order, leaving none out
  (`PickedInOrder`).
* Division with remainder, and cutting sequences that were concatenated.
* `NewerIsStrictOrder`: `CompareVersions` answers by the first of four components that
  differ (`ComparedAtFirst`), so `Newer` is transitive, and what `create` refuses is
  exactly the older and the same.

`RolloutProofs`:

* `TypeCorrect` — `TypeOK` with `RequestInv`. `TypeOK` alone is not inductive:
  an entry is well typed because its request has an admitted caller and a
  manifest, which is what `RequestInv` says of every `pc` between `deciding` and
  `answering`.
* `VettedReleases` — `OnlyVettedReleasesLeave`. The step that could break it is
  a refusal of something already sent; `RequestInv` excludes it, since a request
  that is `idle` or `deciding` has nothing on the wire.
* `AttemptsRecorded` — `RecordedBeforeAnswered`. A record is written only for a
  request not yet settled, which so far has no entry (`RecordedByRecord`); every
  other step leaves the log and what it says (`RecordKept`).
* `AcceptancesPublished` — `AcceptedWasPublished`. A request is `published` only
  if it is in `cdn`, from which nothing is removed.

* `HistoryKnown` — `OrderInv`, in which `DecidedFromHistory` is the point: what
  is being published is newer than the newest acceptance in the part of the log
  that was read for it (`basis`). Later acceptances stand above that part.
  `NewestInv` goes along because a newest entry of a part of the log exists by
  the way the log grows.
* `ReleasesGoUp` — `InversionNeedsOverlap`. A new acceptance either was overtaken,
  and is the overlap itself, or was decided knowing the acceptance `p` right
  before it and is newer than `p`. If it is not newer than some earlier one,
  then by transitivity neither is `p`, and the overlap was there before
  (`AcceptKeepsOrder`). That the request of an entry keeps its `basis` is due to
  `RecordedBeforeAnswered`.
* `ConflictsAreOwn` — `ConflictIsOwnHistory`. `RefuseDowngrade` compares with the
  newest acceptance of the caller's organisation; the log only grows after that.
* `ListingsAreOwn` — `ListingIsOwnHistory`. `AuditShows` says where each entry shown
  stands in the log: the places go down and are all those of the organisation. With
  `RecordedBeforeAnswered` these are the records of its settled requests, and the
  first acceptance shown stands at the greatest place of an acceptance, where
  `currentVersion` finds it (`FirstShownIsCurrent`).
* `ReleasesKept` — `ImplementsReleaseLog`. `SendPublish` is `Offer`; a failed publish
  is `Withdraw`; `Accept` and `Reject` are `AcceptRelease` and `RefuseRelease`,
  possible because the request has no entry yet and its offer is its own; `CdnTakes`
  is `Push`, `CdnRefuses` is `Drop` or unseen; an exit is `Lose` with all that was in
  flight; everything else is unseen.

`VersionTextProofs`: the texts offered are texts, so each property is one of all
texts. `ParsedAreVersions` rests on a number of six digits being below 10 to the
sixth. `SpellingsDiffer`: the ranges of values of different widths are disjoint
(`TensGoUp`), so value and first byte give the part (`OneSpelling`).
`ComparesByWeight`: the greater digit outweighs all that follow it (`DigitsCarry`), so
the first difference decides between the numbers as it does in `CompareVersions`.

`TelemetryProofs`: lemmas for every module over the store. `DBInv` says that the
store keeps of each device `Keep(history)`, the end of all that was recorded. The
code cuts after each write; cutting once at the end is the same
(`KeepAfterAppend`), so `DBInv` is kept by `RecordReading` and `Enrol`, and it
implies `NewestFirstWithoutGap` (`OrderedStoreShowsNewest`).

`DashboardProofs`:

* `DashboardTypeCorrect`, `NewestFirstAlways` — `TypesInvariant`, with `DBInv`.
* `ExportIsOfItsTimeAlways`, `TruncatedIsBeginningAlways` — `ExportInv` with
  `TruncatedIsBeginning`. The properties speak of exports that have ended and are
  not inductive; `ExportInv` says what is known between two reads: devices still to
  be read have no row and come after those that were read, and those are whole.
  The store moves on meanwhile, but a history only grows, so what was the newest
  at some moment remains it (`PastStays`, `WholeStays`).
* `OnlyOwnAreWritten`, `OthersStayInvisible` — action properties, step by step.

`IngestProofs`: two invariants, each inductive with the types alone. `Conduct` makes
`slots` and `wg` functions of where the connections stand, by the cardinality of
the sets of those in each stage, and says that none waits at a closed listener;
from it `IngestTypeCorrect`, `CapacityIsKept` and `NothingIsLeft`. `Records` adds to `DBInv` that a payload whose PUBACK is still to
be written has been recorded; from it `NobodySpeaks` and `AcknowledgedIsRecorded`.

`HttpServeProofs`: `StoreInv` is the loop invariant of `NewStore`: the store holds the
entries gone through, each as filed, and nothing else; the refusal of a second
entry for a token is what keeps the earlier one. `RequestInv` says that a handler
runs for a call that the guard let pass, under the identity it found, and that
`draining` implies a signal. `CredentialsWork` and `AdmittedOnlyAsFiled` follow from
both, `OkIsDrained` because only `DrainEnds` reports success. `HttpTypeCorrect`
goes along.

`MqttProofs`:

* Decoding undoes encoding: `AppendVarintIs` for the length, `StringBack`,
  `ConnectBack` and `PublishBack` for the bodies, together `DecodeBack`, for every
  message whose body `Write` lets out. A body that long cannot hold a string whose
  length has wrapped; this is where the limit of a packet is needed.
* `MqttTypes`, `DevicesAreInStep`, `DevicesAreReadable` — `StreamInv`. `InStep` speaks
  of packets that are complete and is not inductive; `InSync` says for each state of the
  reader what is on its way: before a header, the frames of all messages not yet
  read (`AtHeader`); among the digits of the length, the digits of a quotient
  `q` that is left of it (`AtLength`); before a body, that body and the frames after it
  (`AtBody`). While the connection is up the stream is exactly this, afterwards
  a beginning of it (`OnTheWay`), so a cut can only make the reader wait or fail.
  `StreamInv` was model-checked first, on the instance of `mqtt_stream`.
* `PublishesAreWhole` — `DecodedIsWhole`, from the types alone: cutting a body and
  putting it together again gives the body (`WholePublish`).
* `PeersAreToldOnce` — `ToldOnce`, with `ToldInv`: nothing has been answered while
  `connecting`, something has in a `session`.
* `AnswersComeInOrder` — `AnswersInOrder`, with `AnswersInv` on top of `StreamInv`: the
  message that is dealt with is the one the device wrote (`MessageIsWritten`), so its
  answer is the next one wanted (`WantedNext`).

Every safety invariant and action property that a run checks is proved. Only
model-checked: liveness (`EveryRequestEnds`, `StopsOncePeersAreQuiet`,
`WaitersAreLetGo`, `ProcessEnds`), because the provers do not handle fairness and `ENABLED`. The six
counterexamples are TLC's.

## Not modelled

* HTTP 500 answers of the rollout service: the scope and the versions were
  validated before, so the calls cannot fail.
* The panics of `Handle`: no grant of the two `Handler` functions sets them off.
* Signatures, digests, TLS configuration, certificates, JSON and CSV, each reduced
  to the outcome the code branches on; flags, logging, wording, clocks.
* What of an exported row's bytes a client that hangs up holds: a row counts as
  written once it is in `csv.Writer`'s buffer.
* The bytes of the server's answers: they use the `Write` that is checked in the
  other direction.
* A change of the credentials or the fleet file takes effect at the next start
  only. The models read the files at a start and state nothing in between.
* Threat model, policy and scripts: documents and release tooling.
