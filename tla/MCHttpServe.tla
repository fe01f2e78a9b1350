------------------------------ MODULE MCHttpServe ------------------------------
(***************************************************************************)
(* A small instance of HttpServe for TLC: an operator, an admin and the    *)
(* routes of both services at once; a request is for one of them.          *)
(***************************************************************************)
EXTENDS HttpServe, TLC

CONSTANTS t1, t2, olive, ada, orgA, r1, r2

Cred(t, digest, subject, org, role) ==
    [token |-> t, digest |-> digest, subject |-> subject, org |-> org, role |-> role]

Olive == Cred(t1, "lower", olive, orgA, "operator")
Ada   == Cred(t2, "lower", ada, orgA, "admin")

\* Good files, one that also files the empty token, two people with one token in
\* either order, and a file with each defect in its last entry.
SomeFiles ==
    {<<Olive, Ada>>, <<Ada>>, <<>>,
     <<Cred(Blank, "lower", olive, orgA, "admin"), Ada>>,
     <<Olive, Cred(t1, "lower", ada, orgA, "admin")>>,
     <<Cred(t1, "lower", ada, orgA, "admin"), Olive>>}
        \union {<<Ada, Cred(t1, digest, olive, orgA, "operator")>> : digest \in {"upper", "short"}}
        \union {<<Ada, Cred(t1, "lower", Blank, orgA, "operator")>>,
                <<Ada, Cred(t1, "lower", olive, Blank, "operator")>>,
                <<Ada, Cred(t1, "lower", olive, orgA, "owner")>>}

BothGrants == DashboardGrants @@ RolloutGrants

Headers ==
    {[scheme |-> "bearer", token |-> t] : t \in {t1, t2, Blank}}
        \union {[scheme |-> "other", token |-> t2]}

SomeCalls ==
    [header : Headers, route : {"POST /api/rollouts", "GET /api/fleet"}]
        \union [header : {[scheme |-> "other", token |-> t2]}, route : {"GET /healthz", "GET /"}]
=============================================================================
