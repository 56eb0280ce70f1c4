\* Credential overrides, one-direction rules, a server outside example.com: the server rejects the client.
CONSTANTS
    ip1 = ip1
    t1 = t1
    t2 = t2
    n1 = n1
    NoIP = NoIP
    DefaultClientIP = DefaultClientIP
    NoMagic = NoMagic
    Unset = Unset
    NoneText = NoneText
    Placeholder = Placeholder
    DefaultClientPw = DefaultClientPw
    DefaultServerPw = DefaultServerPw
    NoServer = NoServer
    FdRealm <- ExampleRealm
    ServerCNs <- OtherServers
    Clients <- OverrideClients
SPECIFICATION Spec
INVARIANT
    ServerAdmitsClient
