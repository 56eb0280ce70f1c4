----------------------------- MODULE CertGenRun -----------------------------
(***************************************************************************)
(* The run of cert_generator.py (CertificateGenerator.run) over a disk     *)
(* that outlives the process.  One run is the fixed sequence of stages     *)
(* load_config, generate_ca_certificate, generate_server_certificates,     *)
(* generate_client_certificates, update_acl_whitelist,                    *)
(* update_client_profile, generate_client_fd_configs,                     *)
(* generate_client_magic_configs and generate_server_fd_config.  Every    *)
(* step that touches a file may fail (an OSError, or the process killed), *)
(* which ends the run with exit code 1 and leaves the disk as it is.      *)
(* Up to MaxRuns runs are made with the same configuration, so a run      *)
(* starts from whatever earlier runs left behind.                         *)
(*                                                                         *)
(* Data is abstracted to what the properties tell apart: a common name is *)
(* a model value, a key is the identifier <<run, stage, index>> of the    *)
(* call that generated it, a certificate is the record of its subject,    *)
(* public key, signing key and extended key usage, and a configuration    *)
(* file is the record of the identities and file prefixes it names.       *)
(***************************************************************************)
EXTENDS Integers, Sequences, SequencesExt

CONSTANTS
    Missing,      \* a peer whose <CommonName> element is absent
    IPs,          \* well-formed IP literals of <SubjectAltNames>/<IP>
    NoIP,         \* no <IP> element
    BadIP,        \* an <IP> text that ipaddress.ip_address rejects
    OutPrefixes,  \* <OutputPrefix> values of the configuration
    Configs,      \* the XML configurations a run may be given
    InitialAcl,   \* possible contents of conf/acl_wl.conf before the first run
    Absent,       \* a file that does not exist
    Truncated,    \* a file opened with 'w' whose write then failed
    NoKey,        \* self.ca_key before generate_ca_certificate
    MaxRuns,      \* number of runs of the program
    IoFaults,     \* whether file operations may fail and abort the run
    ProfileFaults \* whether the write of Client_Profile.xml may fail

ASSUME MaxRuns \in Nat /\ IoFaults \in BOOLEAN /\ ProfileFaults \in BOOLEAN

(* Values the code hard-codes.                                            *)
CaFilePrefix          == "ca"                        \* lines 519, 555
DefaultServerIdentity == "magic-server.example.com"  \* lines 456, 540
DefaultServerPrefix   == "magic-server"              \* line 541
DefaultServerIP       == "192.168.126.1"             \* line 457
CaName                == "root-ca"                   \* the CA's subject

VARIABLES
    cfg,        \* self.config: [caPrefix, servers, clients]
    disk,       \* file name -> content, or Absent
    pc,         \* [stage, idx, step] of the running program
    caKey,      \* self.ca_key of the running process
    curKey,     \* the key of the leaf being issued
    run,        \* number of runs started
    lastExit,   \* exit code of the last run; -1 before it ends
    faulted,    \* a file operation failed in the current run
    succeeded   \* some run has exited 0

vars == <<cfg, disk, pc, caKey, curKey, run, lastExit, faulted, succeeded>>

(***************************************************************************)
(* Files.  A file is named by its kind and the prefix that names it.      *)
(***************************************************************************)
KeyFile(p)   == <<"key", p>>      \* <output>/<prefix>.key
CrtFile(p)   == <<"crt", p>>      \* <output>/<prefix>.crt
FdFile(p)    == <<"fd", p>>       \* client_fd_config/fd_<prefix>.conf
MagicFile(p) == <<"magic", p>>    \* client_magic_config/<prefix>_magic.conf
AclFile      == <<"acl", "conf">>
ProfileFile  == <<"profile", "server_profile">>
FdServerFile == <<"fdserver", "server_profile">>

AllPrefixes == OutPrefixes \cup {CaFilePrefix, DefaultServerPrefix}
Files ==
    {<<kind, p>> : kind \in {"key", "crt", "fd", "magic"}, p \in AllPrefixes}
      \cup {AclFile, ProfileFile, FdServerFile}

(***************************************************************************)
(* The configuration as the stages read it.                               *)
(***************************************************************************)
CAPeer == [cn |-> CaName, prefix |-> cfg.caPrefix, org |-> TRUE, ip |-> NoIP]

ClientCNs == [i \in 1..Len(cfg.clients) |-> cfg.clients[i].cn]

\* The first <Server> decides the peer every config connects to.
ServerIdentity ==
    IF cfg.servers # <<>> THEN cfg.servers[1].cn ELSE DefaultServerIdentity
ServerPrefix ==
    IF cfg.servers # <<>> THEN cfg.servers[1].prefix ELSE DefaultServerPrefix
ServerIP ==
    IF cfg.servers # <<>> /\ cfg.servers[1].ip \in IPs
    THEN cfg.servers[1].ip ELSE DefaultServerIP

\* Reading a leaf: find('CommonName').text raises on a missing element and
\* build_san_extension raises on a malformed IP literal.

PeerOK(peer) == peer.cn # Missing /\ peer.ip # BadIP

(***************************************************************************)
(* Program counter.  Issuing stages step through "key" (generate, sign,   *)
(* write the key), "chmod" (chmod 600) and "crt" (write the certificate). *)
(***************************************************************************)
Idle         == [stage |-> "idle", idx |-> 0, step |-> "-"]
At(s, i)     == [stage |-> s, idx |-> i, step |-> "-"]
IssueAt(s, i) == [stage |-> s, idx |-> i, step |-> "key"]
IssueStages == {"ca", "servers", "clients"}

ClientsFrom(i) ==
    IF i <= Len(cfg.clients) THEN IssueAt("clients", i) ELSE At("acl", 0)
ServersFrom(i) ==
    IF i <= Len(cfg.servers) THEN IssueAt("servers", i) ELSE ClientsFrom(1)
MagicFrom(i) ==
    IF i <= Len(cfg.clients) THEN At("magic", i) ELSE At("fdserver", 0)
FdFrom(i) ==
    IF i <= Len(cfg.clients) THEN At("fd", i) ELSE MagicFrom(1)

IssuedPeer ==
    CASE pc.stage = "ca"      -> CAPeer
      [] pc.stage = "servers" -> cfg.servers[pc.idx]
      [] pc.stage = "clients" -> cfg.clients[pc.idx]

Eku(stage) ==
    CASE stage = "ca" -> "ca" [] stage = "servers" -> "server"
      [] stage = "clients" -> "client"

NextIssue ==
    CASE pc.stage = "ca"      -> ServersFrom(1)
      [] pc.stage = "servers" -> ServersFrom(pc.idx + 1)
      [] pc.stage = "clients" -> ClientsFrom(pc.idx + 1)

\* An exception escapes a stage: run() prints it and returns False.
Abort ==
    /\ pc' = Idle
    /\ lastExit' = 1
    /\ UNCHANGED <<cfg, disk, caKey, curKey, run, succeeded>>

(***************************************************************************)
(* Init: a fresh output directory; the access list may or may not exist.  *)
(***************************************************************************)
Init ==
    /\ cfg \in Configs
    /\ \E acl \in InitialAcl:
          disk = [f \in Files |-> IF f = AclFile THEN acl ELSE Absent]
    /\ pc = Idle
    /\ caKey = NoKey
    /\ curKey = NoKey
    /\ run = 0
    /\ lastExit = -1
    /\ faulted = FALSE
    /\ succeeded = FALSE

\* Mutant: the new process starts with the CA key of the one before.
StartRunKeepsCaKey ==
    /\ pc = Idle
    /\ run < MaxRuns
    /\ run' = run + 1
    /\ pc' = At("load", 0)
    /\ curKey' = NoKey
    /\ lastExit' = -1
    /\ faulted' = FALSE
    /\ UNCHANGED <<cfg, disk, caKey, succeeded>>

(* A new process: python3 cert_generator.py <config.xml>.                 *)
StartRun ==
    /\ pc = Idle
    /\ run < MaxRuns
    /\ run' = run + 1
    /\ pc' = At("load", 0)
    /\ caKey' = NoKey
    /\ curKey' = NoKey
    /\ lastExit' = -1
    /\ faulted' = FALSE
    /\ UNCHANGED <<cfg, disk, succeeded>>

(* load_config: parse, create the output directories.                     *)
LoadConfig ==
    /\ pc.stage = "load"
    /\ pc' = IssueAt("ca", 0)
    /\ UNCHANGED <<cfg, disk, caKey, curKey, run, lastExit, faulted, succeeded>>

(* Generate the key pair, build (and sign) the certificate in memory, and *)
(* save_private_key's open(..., 'wb') + write.  A file that already exists *)
(* keeps its mode; a new one is created with the umask's 0644.            *)
SaveKey ==
    /\ pc.stage \in IssueStages
    /\ pc.step = "key"
    /\ pc.stage = "ca" \/ PeerOK(IssuedPeer)
    /\ LET k == <<run, pc.stage, pc.idx>>
           f == KeyFile(IssuedPeer.prefix)
       IN  /\ disk' = [disk EXCEPT ![f] =
                         [kind |-> "key", key |-> k,
                          mode |-> IF disk[f] = Absent THEN "0644"
                                   ELSE disk[f].mode]]
           /\ curKey' = k
           /\ caKey' = IF pc.stage = "ca" THEN k ELSE caKey
    /\ pc' = [pc EXCEPT !.step = "chmod"]
    /\ UNCHANGED <<cfg, run, lastExit, faulted, succeeded>>

(* A server or client whose CommonName is missing or whose IP is          *)
(* malformed: the exception reaches run() before anything is saved.       *)
IssueConfigError ==
    /\ pc.stage \in {"servers", "clients"}
    /\ pc.step = "key"
    /\ ~PeerOK(IssuedPeer)
    /\ UNCHANGED faulted
    /\ Abort

(* save_private_key's os.chmod(key_path, 0o600).                          *)
ChmodKey ==
    /\ pc.stage \in IssueStages
    /\ pc.step = "chmod"
    /\ disk' = [disk EXCEPT ![KeyFile(IssuedPeer.prefix)].mode = "0600"]
    /\ pc' = [pc EXCEPT !.step = "crt"]
    /\ UNCHANGED <<cfg, caKey, curKey, run, lastExit, faulted, succeeded>>

(* The certificate of the CA (self-signed) or of a leaf (signed by        *)
(* self.ca_key), as save_certificate writes it.                           *)
\* Mutant: the leaf's public key taken from self.ca_key.
CertOfWithCaPublicKey(peer, stage) ==
    [kind |-> "crt", cn |-> peer.cn, key |-> caKey, signer |-> caKey,
     eku |-> Eku(stage)]

CertOf(peer, stage) ==
    [kind |-> "crt", cn |-> peer.cn, key |-> curKey, signer |-> caKey,
     eku |-> Eku(stage)]

\* Mutant: save_certificate given the key's file name.
SaveCertToKeyPath ==
    /\ pc.stage \in IssueStages
    /\ pc.step = "crt"
    /\ disk' = [disk EXCEPT ![KeyFile(IssuedPeer.prefix)] =
                              CertOf(IssuedPeer, pc.stage)]
    /\ pc' = NextIssue
    /\ UNCHANGED <<cfg, caKey, curKey, run, lastExit, faulted, succeeded>>

SaveCert ==
    /\ pc.stage \in IssueStages
    /\ pc.step = "crt"
    /\ disk' = [disk EXCEPT ![CrtFile(IssuedPeer.prefix)] =
                              CertOf(IssuedPeer, pc.stage)]
    /\ pc' = NextIssue
    /\ UNCHANGED <<cfg, caKey, curKey, run, lastExit, faulted, succeeded>>

(* update_acl_whitelist: a missing file is a warning and the stage        *)
(* returns; otherwise the identities not found in the file are appended. *)
AclNewEntries(content) == SelectSeq(ClientCNs, LAMBDA n: n \notin ToSet(content))

\* Mutant: the file opened with 'w' instead of 'a'.
UpdateAclOverwrite ==
    /\ pc.stage = "acl"
    /\ LET content == disk[AclFile] IN
         \/ /\ content = Absent
            /\ UNCHANGED disk
         \/ /\ content # Absent
            /\ AclNewEntries(content) = <<>>
            /\ UNCHANGED disk
         \/ /\ content # Absent
            /\ AclNewEntries(content) # <<>>
            /\ disk' = [disk EXCEPT ![AclFile] = AclNewEntries(content)]
    /\ pc' = At("profile", 0)
    /\ UNCHANGED <<cfg, caKey, curKey, run, lastExit, faulted, succeeded>>

UpdateAcl ==
    /\ pc.stage = "acl"
    /\ LET content == disk[AclFile] IN
         \/ /\ content = Absent
            /\ UNCHANGED disk
         \/ /\ content # Absent
            /\ AclNewEntries(content) = <<>>
            /\ UNCHANGED disk
         \/ /\ content # Absent
            /\ AclNewEntries(content) # <<>>
            /\ disk' = [disk EXCEPT ![AclFile] = content \o AclNewEntries(content)]
    /\ pc' = At("profile", 0)
    /\ UNCHANGED <<cfg, caKey, curKey, run, lastExit, faulted, succeeded>>

(* update_client_profile: the document is rebuilt from the clients and    *)
(* written with open(..., 'w').                                           *)
UpdateClientProfile ==
    /\ pc.stage = "profile"
    /\ disk' = [disk EXCEPT ![ProfileFile] =
                              [kind |-> "profile", clients |-> ClientCNs]]
    /\ pc' = FdFrom(1)
    /\ UNCHANGED <<cfg, caKey, curKey, run, lastExit, faulted, succeeded>>

(* The same stage when open or write raises: the exception is caught and  *)
(* printed (line 445) and the run goes on.  A failed open leaves the old  *)
(* file, a failed write leaves it truncated.                              *)
ProfileWriteFails ==
    /\ ProfileFaults
    /\ pc.stage = "profile"
    /\ \E after \in {disk[ProfileFile], Truncated}:
          disk' = [disk EXCEPT ![ProfileFile] = after]
    /\ faulted' = TRUE
    /\ pc' = FdFrom(1)
    /\ UNCHANGED <<cfg, caKey, curKey, run, lastExit, succeeded>>

(* generate_client_fd_configs, one client.                                *)
GenerateClientFdConfig ==
    /\ pc.stage = "fd"
    /\ LET c == cfg.clients[pc.idx] IN
         disk' = [disk EXCEPT ![FdFile(c.prefix)] =
                    [kind |-> "fd", identity |-> c.cn, cred |-> c.prefix,
                     ca |-> CaFilePrefix, peer |-> ServerIdentity,
                     connectTo |-> ServerIP]]
    /\ pc' = FdFrom(pc.idx + 1)
    /\ UNCHANGED <<cfg, caKey, curKey, run, lastExit, faulted, succeeded>>

(* generate_client_magic_configs, one client: client.find('Organization') *)
(* .text raises when the element is absent (line 615).                    *)
MagicConfigError ==
    /\ pc.stage = "magic"
    /\ pc.step = "-"
    /\ ~cfg.clients[pc.idx].org
    /\ UNCHANGED faulted
    /\ Abort

GenerateClientMagicConfig ==
    /\ pc.stage = "magic"
    /\ pc.step = "-"
    /\ cfg.clients[pc.idx].org
    /\ LET f == MagicFile(cfg.clients[pc.idx].prefix) IN
         disk' = [disk EXCEPT ![f] =
                    [kind |-> "magic", clientId |-> cfg.clients[pc.idx].cn,
                     mode |-> IF disk[f] = Absent THEN "0644" ELSE disk[f].mode]]
    /\ pc' = [pc EXCEPT !.step = "chmod"]
    /\ UNCHANGED <<cfg, caKey, curKey, run, lastExit, faulted, succeeded>>

(* os.chmod(magic_conf_path, 0o600) after the write (line 774).           *)
ChmodMagicConfig ==
    /\ pc.stage = "magic"
    /\ pc.step = "chmod"
    /\ disk' = [disk EXCEPT ![MagicFile(cfg.clients[pc.idx].prefix)].mode = "0600"]
    /\ pc' = MagicFrom(pc.idx + 1)
    /\ UNCHANGED <<cfg, caKey, curKey, run, lastExit, faulted, succeeded>>

(* generate_server_fd_config, then run() returns True: exit 0.            *)
\* Mutant: TLS_Cred always built from the default server prefix.
GenerateServerFdConfigDefaultCred ==
    /\ pc.stage = "fdserver"
    /\ disk' = [disk EXCEPT ![FdServerFile] =
                  [kind |-> "fdserver", identity |-> ServerIdentity,
                   cred |-> DefaultServerPrefix, ca |-> CaFilePrefix]]
    /\ pc' = Idle
    /\ lastExit' = 0
    /\ succeeded' = TRUE
    /\ UNCHANGED <<cfg, caKey, curKey, run, faulted>>

GenerateServerFdConfig ==
    /\ pc.stage = "fdserver"
    /\ disk' = [disk EXCEPT ![FdServerFile] =
                  [kind |-> "fdserver", identity |-> ServerIdentity,
                   cred |-> ServerPrefix, ca |-> CaFilePrefix]]
    /\ pc' = Idle
    /\ lastExit' = 0
    /\ succeeded' = TRUE
    /\ UNCHANGED <<cfg, caKey, curKey, run, faulted>>

(* A file operation of the current step raises (or the process dies):     *)
(* the step has no effect and the run ends with exit code 1.              *)
IoFault ==
    /\ IoFaults
    /\ pc.stage \notin {"idle", "profile"}
    /\ ~(pc.stage = "acl" /\ disk[AclFile] = Absent)
    /\ faulted' = TRUE
    /\ Abort

(* After the last run nothing happens any more.                           *)
Terminating ==
    /\ pc = Idle
    /\ run = MaxRuns
    /\ UNCHANGED vars

Next ==
    \/ StartRun
    \/ LoadConfig
    \/ SaveKey
    \/ IssueConfigError
    \/ ChmodKey
    \/ SaveCert
    \/ UpdateAcl
    \/ UpdateClientProfile
    \/ ProfileWriteFails
    \/ GenerateClientFdConfig
    \/ MagicConfigError
    \/ GenerateClientMagicConfig
    \/ ChmodMagicConfig
    \/ GenerateServerFdConfig
    \/ IoFault
    \/ Terminating

Spec == Init /\ [][Next]_vars

(***************************************************************************)
(* Properties                                                             *)
(***************************************************************************)
Stages == {"idle", "load", "acl", "profile", "fd", "magic", "fdserver"}
            \cup IssueStages
KeyIds == (0..MaxRuns) \X IssueStages \X (0..10)
TypeOK ==
    /\ DOMAIN disk = Files
    /\ \A p \in AllPrefixes :
          /\ disk[KeyFile(p)] \in {Absent} \cup
                [kind : {"key"}, key : KeyIds, mode : {"0644", "0600"}]
          /\ disk[CrtFile(p)] = Absent \/ disk[CrtFile(p)].kind = "crt"
          /\ disk[MagicFile(p)] \in {Absent} \cup
                [kind : {"magic"}, clientId : ToSet(ClientCNs), mode : {"0644", "0600"}]
    /\ disk[ProfileFile] = Absent \/ disk[ProfileFile] = Truncated
         \/ disk[ProfileFile].kind = "profile"
    /\ pc.stage \in Stages
    /\ caKey \in KeyIds \cup {NoKey}
    /\ curKey \in KeyIds \cup {NoKey}
    /\ run \in 0..MaxRuns
    /\ lastExit \in {-1, 0, 1}
    /\ faulted \in BOOLEAN
    /\ succeeded \in BOOLEAN

\* The last run exited 0 and no run is in progress.
Done == pc = Idle /\ lastExit = 0

IssuedPeers ==
    {[peer |-> CAPeer, eku |-> "ca"]}
      \cup {[peer |-> s, eku |-> "server"] : s \in ToSet(cfg.servers)}
      \cup {[peer |-> c, eku |-> "client"] : c \in ToSet(cfg.clients)}

(* After a run exits 0, the key and certificate files of every configured *)
(* peer belong together, name the peer, carry its role, and the           *)
(* certificate was signed by the key in the CA's key file.  Files left by *)
(* earlier, failed runs are on the same disk, so this needs every issuing *)
(* step of generate_*_certificate to have rewritten both files.           *)
PeerMaterialConsistent ==
    Done =>
      \A ip \in IssuedPeers :
        LET k  == disk[KeyFile(ip.peer.prefix)]
            c  == disk[CrtFile(ip.peer.prefix)]
            ca == disk[KeyFile(cfg.caPrefix)]
        IN  /\ k # Absent /\ c # Absent /\ ca # Absent
            /\ c.key = k.key
            /\ c.cn = ip.peer.cn
            /\ c.eku = ip.eku
            /\ c.signer = ca.key

(* After a run exits 0, every freeDiameter config (fd_<prefix>.conf and   *)
(* fd_server.conf) names in TLS_Cred a certificate of its own Identity    *)
(* with the matching key, and in TLS_CA the CA certificate that signed    *)
(* it; a client config connects to the identity the server config        *)
(* declares.  The paths are built independently in lines 518-519 and     *)
(* 553-555 from prefixes, not from the files the issuing stages wrote.    *)
TrustPathsResolve ==
    Done =>
      \A f \in {FdFile(c.prefix) : c \in ToSet(cfg.clients)} \cup {FdServerFile} :
        LET conf == disk[f]
            cred == disk[CrtFile(conf.cred)]
            key  == disk[KeyFile(conf.cred)]
            ca   == disk[CrtFile(conf.ca)]
        IN  /\ cred # Absent /\ key # Absent /\ ca # Absent
            /\ cred.cn = conf.identity
            /\ cred.key = key.key
            /\ ca.eku = "ca"
            /\ cred.signer = ca.key
            /\ conf.kind = "fd" => conf.peer = disk[FdServerFile].identity

(* After a run exits 0, each client's common name is the subject of its   *)
(* certificate, the Identity of its freeDiameter config, the CLIENT_ID of *)
(* its business parameter file, a ClientID of Client_Profile.xml and an  *)
(* entry of the access list: the identity key spec section 8 requires of *)
(* every artifact set.  Stages that return normally without writing      *)
(* (lines 272-274, 445-448) would leave the set incomplete.               *)
ArtifactsShareIdentity ==
    Done =>
      \A c \in ToSet(cfg.clients) :
        /\ disk[CrtFile(c.prefix)].cn = c.cn
        /\ disk[FdFile(c.prefix)].identity = c.cn
        /\ disk[MagicFile(c.prefix)].clientId = c.cn
        /\ disk[AclFile] # Absent
        /\ c.cn \in ToSet(disk[AclFile])
        /\ disk[ProfileFile] \notin {Absent, Truncated}
        /\ c.cn \in ToSet(disk[ProfileFile].clients)

\* The spec's conditions for a configuration the run must accept: every
\* server and client has a common name and well-formed IP literals.
ConfigValid ==
    \A p \in ToSet(cfg.servers) \cup ToSet(cfg.clients) :
        p.cn # Missing /\ p.ip # BadIP

(* A run exits 1 only if a file operation failed or the configuration     *)
(* breaks a rule of the spec (error taxonomy: ConfigError,                *)
(* PersistenceError); no stage raises on a configuration the spec calls   *)
(* valid.                                                                 *)
NoSpuriousAbort ==
    lastExit = 1 => faulted \/ ~ConfigValid

(* A file holding a secret is never on disk readable by others (spec 6:  *)
(* owner-only keys and business-parameter files): save_private_key and   *)
(* generate_client_magic_configs write the file, then chmod it to 600.   *)
SecretsNeverWorldReadable ==
    \A f \in {KeyFile(p) : p \in AllPrefixes} \cup {MagicFile(p) : p \in AllPrefixes} :
        disk[f] # Absent => disk[f].mode = "0600"


(***************************************************************************)
(* Refinement of AbstractRun: the stages of run() (786-793) in the order *)
(* of spec 4.5, the exit code, and self.ca_key as the root key.  Steps   *)
(* inside a stage (key, chmod, certificate, one loop iteration) are       *)
(* stuttering steps of the abstract run.                                  *)
(***************************************************************************)
RunStages ==
    <<"load", "ca", "servers", "clients", "acl", "profile", "fd", "magic", "fdserver">>

StageIndex ==
    IF pc.stage = "idle" THEN 0
    ELSE CHOOSE i \in DOMAIN RunStages : RunStages[i] = pc.stage

AbstractRunSpec ==
    INSTANCE AbstractRun WITH
        StageNames <- RunStages, RootStage <- 2,
        stage <- StageIndex, exitCode <- lastExit, rootKey <- caKey, runs <- run

(* Every behaviour of the generator is a behaviour of AbstractRun: stages *)
(* in the order of spec 4.5 and never back, exit 0 only after            *)
(* generate_server_fd_config, exit 1 from any stage, and self.ca_key set *)
(* once per process in generate_ca_certificate and never replaced while *)
(* the leaves are signed with it.                                         *)
ImplementsAbstractRun == AbstractRunSpec!Spec

=============================================================================
