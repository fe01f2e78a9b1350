SPECIFICATION HttpSpec
CONSTANTS
    t1 = t1  t2 = t2
    olive = olive  ada = ada
    orgA = orgA
    r1 = r1  r2 = r2
    Tokens = {t1, t2}
    Subjects = {olive, ada}
    Orgs = {orgA}
    Blank = Blank
    Nobody = Nobody
    FileRoles = {"operator", "admin", "owner"}
    Grants <- BothGrants
    Files <- SomeFiles
    Requests = {r1, r2}
    Calls <- SomeCalls
    MaxStarts = 2
INVARIANTS
    HttpTypeOK
    EveryCredentialWorks
    AdmittedAsFiled
PROPERTIES
    OkMeansDrained
    ProcessEnds
CHECK_DEADLOCK FALSE
