SPECIFICATION Spec
CONSTANTS
    d1 = d1  d2 = d2
    orgA = orgA  orgB = orgB
    NoOrg = NoOrg
    Devices = {d1, d2}
    Orgs = {orgA, orgB}
    Samples <- OneForEach
    MaxReadingsPerDevice = 2
    MaxHistory = 3
INVARIANT
    SamplesStayWithTheirOrg
CHECK_DEADLOCK FALSE
