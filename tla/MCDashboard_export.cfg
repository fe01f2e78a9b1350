SPECIFICATION DashboardSpec
CONSTANTS
    orgA = orgA  orgB = orgB
    x1 = x1
    NoOrg = NoOrg
    Devices = {1, 2}
    Orgs = {orgA, orgB}
    Exports = {x1}
    Samples = {1, 2, 3, 4}
    DefaultReadingLimit = 1
    ExportReadingsPerDevice = 2
    MaxReadingsPerDevice = 3
    MaxHistory = 4
SYMMETRY Symmetry
INVARIANTS
    DashboardTypeOK
    NewestFirstWithoutGap
    ExportIsOfItsTime
    TruncatedIsBeginning
PROPERTIES
    OnlyOwnDevicesAreWritten
    OthersAreInvisible
CHECK_DEADLOCK FALSE
