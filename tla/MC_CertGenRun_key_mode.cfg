\* Key files and _magic.conf files between open/write and chmod 600.
CONSTANTS
    Missing = Missing
    NoIP = NoIP
    BadIP = BadIP
    Absent = Absent
    Truncated = Truncated
    NoKey = NoKey
    srv = srv
    c1 = c1
    c2 = c2
    ip1 = ip1
    IPs = {ip1}
    OutPrefixes = {"ca", "root", "srv", "p1", "p2"}
    Configs <- CoreConfigs
    InitialAcl <- AclPresent
    MaxRuns = 1
    IoFaults = FALSE
    ProfileFaults = FALSE
SPECIFICATION Spec
INVARIANT
    SecretsNeverWorldReadable
