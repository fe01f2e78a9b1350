--------------------------------- MODULE Access ---------------------------------
(***************************************************************************)
(* Who may call which route: the credentials of internal/authn/authn.go,   *)
(* the guard of internal/authz/router.go and the grants of the two         *)
(* Handlers, as operators.  HttpServe composes them with the process.      *)
(*                                                                         *)
(* A digest is the token it is a digest of and how it is spelled, so two   *)
(* tokens never share one.  JSON, headers and bodies are left out, and so  *)
(* are the panics of Handle, which no grant below can set off.             *)
(***************************************************************************)
EXTENDS Integers, Sequences

CONSTANTS
    Tokens,     \* bearer tokens, the empty text not among them
    Subjects,   \* names of callers
    Orgs,       \* organisations
    Blank,      \* an empty text
    Nobody,     \* no identity
    FileRoles,  \* what a file may spell as a role
    Grants      \* roles of each guarded route of this process

RoleOperator == "operator"
RoleAdmin    == "admin"

Valid(role) == role \in {RoleOperator, RoleAdmin}

Identities == [subject : Subjects, org : Orgs, role : {RoleOperator, RoleAdmin}]

\* What a digest may be of: a file can hold that of the empty text.
Texts == Tokens \union {Blank}

\* lower: 64 lower case hexadecimal digits.
Entries == [token : Texts, digest : {"lower", "upper", "short"},
            subject : Subjects \union {Blank}, org : Orgs \union {Blank}, role : FileRoles]

ASSUME AccessAssumption ==
    /\ Blank \notin Tokens \union Subjects \union Orgs
    /\ Nobody \notin Identities

-----------------------------------------------------------------------------
(* Credentials: a store maps each text to an identity or to Nobody. *)

EmptyStore == [t \in Texts |-> Nobody]

\* Mutant: a role that is not known passes.
WellFormedButRole(e) == e.digest = "lower" /\ e.subject # Blank /\ e.org # Blank

WellFormed(e) ==
    /\ e.digest = "lower"
    /\ e.subject # Blank
    /\ e.org # Blank
    /\ Valid(e.role)

IdentityOf(e) == [subject |-> e.subject, org |-> e.org, role |-> e.role]

\* Mutant: an entry replaces an earlier one with the same digest.
TakesOver(store, e) == WellFormed(e)

\* NewStore goes on with the next entry; otherwise it fails.
Takes(store, e) == WellFormed(e) /\ store[e.token] = Nobody

With(store, e) == [store EXCEPT ![e.token] = IdentityOf(e)]

\* The empty text is nobody's, whatever was filed.
Lookup(store, t) == IF t = Blank THEN Nobody ELSE store[t]

\* The token of an Authorization header, Blank if it has none to offer.
BearerToken(header) == IF header.scheme = "bearer" THEN header.token ELSE Blank

-----------------------------------------------------------------------------
(* Routes. *)

DashboardGrants ==
    [route \in {"GET /api/fleet", "GET /api/fleet/export", "GET /api/devices/{id}/telemetry"} |->
        {RoleOperator, RoleAdmin}]

RolloutGrants ==
    [route \in {"POST /api/rollouts", "GET /api/rollouts"} |-> {RoleAdmin}]

Public == {"GET /healthz"}

\* Mutant: whoever is known passes.
RefusalOfStrangers(store, call) ==
    IF Lookup(store, BearerToken(call.header)) = Nobody THEN 401 ELSE 0

\* How the guard refuses a call to a guarded route, 0 if it lets it pass.
Refusal(store, call) ==
    LET id == Lookup(store, BearerToken(call.header))
    IN  IF id = Nobody THEN 401
        ELSE IF id.role \notin Grants[call.route] THEN 403 ELSE 0

\* The answer that is given before any handler runs, 0 if one is to run.
Turned(store, call) ==
    IF call.route \in Public THEN 0
    ELSE IF call.route \notin DOMAIN Grants THEN 404
    ELSE Refusal(store, call)

\* What Caller tells the handler.
CallerOf(store, call) ==
    IF call.route \in Public THEN Nobody ELSE Lookup(store, BearerToken(call.header))
=============================================================================
