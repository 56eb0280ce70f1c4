\* A CA whose OutputPrefix is not ca (TLS_CA names ca.crt), no <Server>
\* (fd_server.conf names magic-server.crt, which no stage writes), or a client
\* sharing the server's or the CA's OutputPrefix.
CONSTANTS
    Missing = Missing
    NoIP = NoIP
    BadIP = BadIP
    Absent = Absent
    Truncated = Truncated
    NoKey = NoKey
    srv = srv
    c1 = c1
    c2 = c2
    ip1 = ip1
    IPs = {ip1}
    OutPrefixes = {"ca", "root", "srv", "p1", "p2"}
    Configs <- DefaultPathConfigs
    InitialAcl <- AclPresent
    MaxRuns = 1
    IoFaults = FALSE
    ProfileFaults = FALSE
SPECIFICATION Spec
INVARIANT
    TrustPathsResolve
