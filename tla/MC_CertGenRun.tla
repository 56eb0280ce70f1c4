--------------------------- MODULE MC_CertGenRun ---------------------------
(***************************************************************************)
(* Model of CertGenRun for TLC: one CA, at most one server, at most two   *)
(* clients, run twice on the same disk.                                   *)
(***************************************************************************)
EXTENDS CertGenRun

CONSTANTS srv, c1, c2, ip1

\* A <Server> or <Client> element as the stages read it.
PeerRec(cns, p, orgs, ips) ==
    [cn : cns, prefix : {p}, org : orgs, ip : ips]

\* One server, with or without CommonName, with a good, no or a bad IP.
OneServer == {<<s>> : s \in PeerRec({srv, Missing}, "srv", {TRUE}, {ip1, NoIP, BadIP})}

\* Zero, one or two clients with distinct prefixes and distinct names.
ClientSeqs(orgs) ==
    LET P1 == PeerRec({c1, c2, Missing}, "p1", orgs, {NoIP})
        P2 == PeerRec({c1, c2, Missing}, "p2", orgs, {NoIP})
    IN  {<<>>} \cup {<<a>> : a \in P1}
          \cup {ab \in P1 \X P2 : ab[1].cn # ab[2].cn \/ ab[1].cn = Missing}

\* Fleets whose CA is written to ca.crt, as the freeDiameter configs assume.
CoreConfigs ==
    {[caPrefix |-> "ca", servers |-> s, clients |-> c] :
        s \in OneServer, c \in ClientSeqs({TRUE})}

\* A first installation: no access list yet, maybe no server, clients with
\* or without <Organization>.
FreshConfigs ==
    {[caPrefix |-> "ca", servers |-> s, clients |-> c] :
        s \in OneServer \cup {<<>>}, c \in ClientSeqs({TRUE, FALSE})}

\* A CA whose OutputPrefix is not "ca".
RootPrefixConfigs ==
    {[caPrefix |-> "root", servers |-> s, clients |-> c] :
        s \in OneServer, c \in ClientSeqs({TRUE})}

\* A fleet without servers.
NoServerConfigs ==
    {[caPrefix |-> "ca", servers |-> <<>>, clients |-> c] :
        c \in ClientSeqs({TRUE})}

\* A client whose OutputPrefix is the server's or the CA's.
CollidingConfigs ==
    {[caPrefix |-> "ca", servers |-> s, clients |-> <<c>>] :
        s \in OneServer,
        c \in PeerRec({c1}, "srv", {TRUE}, {NoIP}) \cup PeerRec({c1}, "ca", {TRUE}, {NoIP})}

\* Fleets whose freeDiameter configs name files by a prefix that does not
\* hold what they expect: hard-coded paths, or a prefix shared by two peers.
DefaultPathConfigs == RootPrefixConfigs \cup NoServerConfigs \cup CollidingConfigs

\* Clients with and without <Organization>, otherwise valid.
OrgConfigs ==
    {[caPrefix |-> "ca", servers |-> s, clients |-> c] :
        s \in OneServer, c \in ClientSeqs({TRUE, FALSE})}

\* The access list exists, empty or already naming c2.
AclPresent == {<<>>, <<c2>>}
AclAbsent  == {Absent}

=============================================================================
