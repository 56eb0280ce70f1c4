\* A first installation: no access list, maybe no server, clients with or without Organization.
CONSTANTS
    Missing = Missing
    NoIP = NoIP
    BadIP = BadIP
    Absent = Absent
    Truncated = Truncated
    NoKey = NoKey
    srv = srv
    c1 = c1
    c2 = c2
    ip1 = ip1
    IPs = {ip1}
    OutPrefixes = {"ca", "root", "srv", "p1", "p2"}
    Configs <- FreshConfigs
    InitialAcl <- AclAbsent
    MaxRuns = 3
    IoFaults = TRUE
    ProfileFaults = TRUE
SPECIFICATION Spec
INVARIANT
    PeerMaterialConsistent
