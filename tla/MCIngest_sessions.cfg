SPECIFICATION IngestSpec
CONSTANTS
    d1 = d1  d2 = d2  stray = stray
    orgA = orgA  orgB = orgB
    NoOrg = NoOrg
    NoDevice = NoDevice
    c1 = c1  c2 = c2
    Devices = {d1, d2, stray}
    Orgs = {orgA, orgB}
    Conns = {c1, c2}
    FleetOrg <- TwoOrgs
    Samples <- ThreeSamples
    Payloads <- SinglesAndBatch
    MaxConns = 1
    MaxReadingsPerDevice = 1
    MaxHistory = 2
INVARIANTS
    IngestTypeOK
    OpenWithinCapacity
    NobodySpeaksForAnother
    NothingLeftAfterReturn
    AckedIsRecorded
PROPERTIES
    WaitersAreLetGo
    StopsOncePeersAreQuiet
CHECK_DEADLOCK FALSE
