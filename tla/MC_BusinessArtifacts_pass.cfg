\* One client without credential overrides, a server in example.com: the server admits the client.
CONSTANTS
    ip1 = ip1
    t1 = t1
    t2 = t2
    n1 = n1
    NoIP = NoIP
    DefaultClientIP = DefaultClientIP
    NoMagic = NoMagic
    Unset = Unset
    NoneText = NoneText
    Placeholder = Placeholder
    DefaultClientPw = DefaultClientPw
    DefaultServerPw = DefaultServerPw
    NoServer = NoServer
    FdRealm <- ExampleRealm
    ServerCNs <- ExampleServers
    Clients <- AgreeingClients
SPECIFICATION Spec
INVARIANTS
    TypeOK
    ServerAdmitsClient
