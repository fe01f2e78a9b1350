SPECIFICATION Spec
CONSTANTS
    r1 = r1  r2 = r2
    adaA = adaA  opA = opA  adaB = adaB
    orgA = orgA  orgB = orgB
    nobody = nobody
    Requests = {r1, r2}
    Subjects = {adaA}
    Nobody = nobody
    OrgOf <- OneOrg
    RoleOf <- OneAdmin
    Manifests <- SignedReleases
    MaxRestarts = 1
INVARIANT
    LogIsTheRecordOfPushes
CHECK_DEADLOCK FALSE
