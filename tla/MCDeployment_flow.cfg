SPECIFICATION DeploymentSpec
CONSTANTS
    d1 = d1  d2 = d2
    orgA = orgA  orgB = orgB
    reading = reading
    Devices = {d1, d2}
    Orgs = {orgA, orgB}
    NoOrg = NoOrg
    Samples = {reading}
    MaxReadingsPerDevice = 1
    MaxHistory = 1
    Blank = Blank
    FleetFiles <- SomeFleets
    MaxStarts = 2
INVARIANT
    RecordedIsShown
CHECK_DEADLOCK FALSE
