\* Three runs of one fleet, any file operation may fail.
CONSTANTS
    Missing = Missing
    NoIP = NoIP
    BadIP = BadIP
    Absent = Absent
    Truncated = Truncated
    NoKey = NoKey
    srv = srv
    c1 = c1
    c2 = c2
    ip1 = ip1
    IPs = {ip1}
    OutPrefixes = {"ca", "root", "srv", "p1", "p2"}
    Configs <- CoreConfigs
    InitialAcl <- AclPresent
    MaxRuns = 3
    IoFaults = TRUE
    ProfileFaults = FALSE
SPECIFICATION Spec
INVARIANTS
    TypeOK
    PeerMaterialConsistent
    TrustPathsResolve
    ArtifactsShareIdentity
PROPERTIES
    ImplementsAbstractRun
