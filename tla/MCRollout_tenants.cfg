SPECIFICATION Spec
CONSTANTS
    r1 = r1  r2 = r2
    adaA = adaA  opA = opA  adaB = adaB
    orgA = orgA  orgB = orgB
    nobody = nobody
    Requests = {r1, r2}
    Subjects = {adaA, opA, adaB}
    Nobody = nobody
    OrgOf <- TwoOrgs
    RoleOf <- Everyone
    Manifests <- Bodies
    MaxRestarts = 1
INVARIANTS
    TypeOK
    OnlyVettedReleasesLeave
    RecordedBeforeAnswered
    ConflictIsOwnHistory
    ListingIsOwnHistory
    AcceptedWasPublished
    InversionNeedsOverlap
PROPERTIES
    EveryRequestEnds
    ImplementsReleaseLog
CHECK_DEADLOCK FALSE
