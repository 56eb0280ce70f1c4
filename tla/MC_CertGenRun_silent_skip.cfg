\* conf/acl_wl.conf missing, or Client_Profile.xml cannot be written: the stage
\* warns or catches the exception, and the run exits 0.
CONSTANTS
    Missing = Missing
    NoIP = NoIP
    BadIP = BadIP
    Absent = Absent
    Truncated = Truncated
    NoKey = NoKey
    srv = srv
    c1 = c1
    c2 = c2
    ip1 = ip1
    IPs = {ip1}
    OutPrefixes = {"ca", "root", "srv", "p1", "p2"}
    Configs <- CoreConfigs
    InitialAcl <- AclAbsent
    MaxRuns = 1
    IoFaults = TRUE
    ProfileFaults = TRUE
SPECIFICATION Spec
INVARIANT
    ArtifactsShareIdentity
