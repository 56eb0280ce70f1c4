# TLA+ models of the MAGIC certificate and configuration generator

This directory holds TLA+ models of `src/tools/cert_generator/cert_generator.py`.
That program is a one-shot, offline tool. It reads an XML configuration of one
CA, some servers and some clients. It issues an RSA trust hierarchy and writes a
set of correlated configuration files. The models are checked with TLC.

## 1. Inventory

### Components (source: `cert_generator.py`)

| Component | Code | State it keeps | Operations |
|---|---|---|---|
| ConfigModel | `load_config` (51-77) | `self.config` (XML tree), output directories | parse the XML, create the output directories |
| Storage | `save_private_key` (87-97), `save_certificate` (99-105) | files in the output directory and their modes | write a PEM key, then `chmod 600`; write a PEM certificate, then `chmod 644` |
| TrustAuthority | `generate_ca_certificate` (154-185) | `self.ca_key`, `self.ca_cert` | generate the root key, self-sign the root certificate, save both |
| LeafCertificateFactory | `generate_server_certificates` (187-225), `generate_client_certificates` (227-265), `build_subject_name` (107-125) | per-leaf key, certificate | one key pair and certificate per peer, signed by `self.ca_key`, saved under the peer's `OutputPrefix` |
| SubjectAltNameBuilder | `build_san_extension` (127-152) | the SAN list being built | DNS names, parsed IPs, one OtherName encoded by hand as DER UTF8String |
| ArtifactEmitter: access list | `update_acl_whitelist` (267-296) | `conf/acl_wl.conf` (read, then appended) | append client identities not found in the file by substring search |
| ArtifactEmitter: business profile | `update_client_profile` (298-448) | `server_profile/Client_Profile.xml`, two companion files | rebuild the profile document from scratch, copy two companion documents; every exception is caught and printed |
| ArtifactEmitter: peer configs | `generate_client_fd_configs` (450-534), `generate_server_fd_config` (536-594) | `client_fd_config/fd_<prefix>.conf`, `server_profile/fd_server.conf` | write one freeDiameter config per client and one for the server |
| ArtifactEmitter: business parameters | `generate_client_magic_configs` (596-775) | `client_magic_config/<prefix>_magic.conf` | resolve each field from `MagicConfig` or a default, write, `chmod 600` |
| Orchestrator | `run` (777-803), `__main__` (806-812) | exit code | call the stages in a fixed order; any exception that escapes a stage aborts the run with exit 1 |
| Link-simulator socket probe | `_cleanup_backup/.../test_socket_connection.py` | results dictionary | connect to four ports, send one JSON line, wait for a reply, print a summary |

### How the components interact

Everything runs in one thread, one stage after another (`run`, 786-793). The
stages share state through the object (`self.ca_key`, `self.ca_cert`,
`self.config`) and through the file system. Only two files are read back:
the access list `conf/acl_wl.conf` (read, then appended) and the companion
documents (copied). Every other file is overwritten by each run. The files
outlive the process, so what a run leaves on disk is the starting point of the
next run. A run can stop after any file operation: an exception (a bad field,
a failed write or `chmod`) or a kill of the process. Nothing is rolled back.

### What is hard here

* **Partial failure across runs.** A run that stops between two saves leaves
  files of two runs side by side: a key from run 2 beside a certificate from
  run 1, leaf certificates signed by a CA key that has been replaced. Only a run
  that exits 0 is meant to leave a consistent set.
* **Cross-artifact identity.** Six stages write files that must agree on one
  identity (the client's CN) and on file paths (certificate, key, CA).
  Each stage recomputes what it needs from the XML. The stages do not pass values
  to each other, so nothing in the code forces them to agree.
* **Error policy.** `run` aborts on an exception, but `update_acl_whitelist` silently returns
  when the access list is missing and `update_client_profile` swallows every exception.
  A run can exit 0 with stages that did nothing.
* **Permission window.** Keys and the business parameter files are written first
  and `chmod`ed afterwards.
* **Byte-level encoding.** The OtherName DER header is written by hand (line 146).
  Its length byte is the character count, not the byte count, and long-form
  lengths are not handled.
* **Substring membership.** The access list uses `identity not in content` (line 284).

### Properties that make each component correct

* TrustAuthority / LeafCertificateFactory: after a successful run, every key
  file on disk matches its certificate file, and every leaf certificate on disk
  is signed by the key in the CA key file on disk.
* Peer configs: every path a config names (`TLS_Cred`, `TLS_CA`) holds the
  certificate of the identity the config declares, signed by the CA that `TLS_CA` names.
* All emitters: the client CN is the identity in the access list, the profile,
  the peer config and the business parameter file.
* Access list: merging the same identities again changes nothing.
* Orchestrator: a run exits 1 only when the configuration breaks a rule of the
  spec or an I/O operation failed.
* Storage: a private key is never on disk readable by others.
* SAN builder: the OtherName value decodes as DER to the UTF-8 bytes of the value,
  and a value too long for a short-form length is rejected.
* Business parameters: per-field resolution from override or default, one
  default TFT rule per direction, list-count fields equal to list lengths.

## 2. Plan and status

| Module | Status | What it covers |
|---|---|---|
| `CertGenRun` | written, checked | the orchestrator with every stage, the storage, CA and leaf issuance and the four emitters, over a disk that persists across `MaxRuns` runs and I/O operations that may fail; refines `AbstractRun` |
| `SanBuilder` | written, checked | `build_san_extension` with the DER header as the code computes it, against a reference decoder |
| `AclMerge` | written, checked | `update_acl_whitelist` over file contents as character sequences: substring membership, trailing newline, labelled block, a write cut short |
| `BusinessArtifacts` | written, checked | one client's profile record (`update_client_profile`) against its `_magic.conf` (`generate_client_magic_configs`), with every override present or absent |
| `AbstractRun` | written, checked | what one process promises (stage order, exit codes, one root key); `CertGenRun` is shown to implement it |
| `SocketProbe` | not written | see "Not modelled" |

## 3. Modules

### `CertGenRun` — one run after another over a persistent disk

**State.**

| Variable | Code |
|---|---|
| `cfg` | the parsed XML (`self.config`), reduced to the CA's `OutputPrefix` and, per server and client: common name (or `Missing`), `OutputPrefix`, whether `<Organization>` is present, and an IP (`NoIP`, a good literal, or `BadIP`) |
| `disk` | every file the program writes, keyed `<<kind, prefix>>`. Contents are abstract records: a key `[key, mode]`; a certificate `[cn, key, eku, signer]`; an fd config `[kind, identity, cred, ca, peer]`; a magic conf `[kind, clientId, mode]`; the access list as the sequence of identities it contains; the profile `[clients]` or `Truncated`. A file not written is `Absent` |
| `pc` | the stage of `run` (786-793), the index of the peer in the current loop, and within an issuing stage whether the key or the certificate is next |
| `caKey`, `curKey` | `self.ca_key` and the key generated in the current loop body. A key is the id `<<run, stage, idx>>`, unique per generation |
| `run`, `lastExit`, `faulted`, `succeeded` | the run counter (bounded by `MaxRuns`), the exit code of `__main__` (-1 while running), whether an I/O fault was injected in this run, and whether any run has exited 0 |

**Actions.**

| Action | Code |
|---|---|
| `StartRun` | `__main__`, a new process. Python state is gone and the disk stays |
| `LoadConfig` | `load_config` |
| `SaveKey`, `ChmodKey` | the key half of one issuing loop body. The key is written in `open('wb')`, whose mode is 0644 for a new file and the old mode otherwise, then `chmod 600` |
| `IssueConfigError` | a leaf without CN, or with an IP `ip_address` rejects. The exception leaves `run` (exit 1) |
| `SaveCert` (with `CertOf`) | the certificate half: signed by `self.ca_key` |
| `UpdateAcl` | `update_acl_whitelist`: a missing file is skipped with a warning, and identities not already present are appended |
| `UpdateClientProfile`, `ProfileWriteFails` | `update_client_profile`. A failing write leaves the old file or a truncated one, and the exception is swallowed |
| `GenerateClientFdConfig`, `GenerateServerFdConfig` | the freeDiameter configs. `TLS_CA` is the literal `ca.crt`, and the defaults apply when there is no server |
| `GenerateClientMagicConfig`, `ChmodMagicConfig`, `MagicConfigError` | `generate_client_magic_configs`. The file is written by `open('w')` (0644 when new, the old mode otherwise) and `chmod 600`ed in a separate step (770-774). A client without `<Organization>` raises at line 615 |
| `IoFault` | any write or `chmod` raising `OSError` (or a kill), enabled when the constant `IoFaults` is TRUE. The run ends with exit 1 |
| `ProfileWriteFails` | a failing write of `Client_Profile.xml`, enabled when `ProfileFaults` is TRUE; it is caught by the handler of 445-448 and the run goes on |
| `Terminating` | stuttering once `MaxRuns` runs are done |

**Runs.** All runs use the fleet of `MC_CertGenRun`: one server and up to two
clients, with prefixes from `{"ca","root","srv","p1","p2"}`.

| Run | Result | What it shows |
|---|---|---|
| `core` | passes (35,350 states) | Three runs with faults anywhere, over a disk holding an access list. These hold: `PeerMaterialConsistent` (every key and certificate agree and are signed by the CA key on disk), `TrustPathsResolve` (every `TLS_Cred`/`TLS_CA` resolves), `ArtifactsShareIdentity` (CN = cert subject = fd Identity = CLIENT_ID, the CN is in the ACL and in the profile) and the refinement `ImplementsAbstractRun` |
| `fresh` | passes (103,185 states, three runs) | `PeerMaterialConsistent` on an empty disk, with optional servers and `<Organization>`, and failing profile writes |
| `default_paths` | violation of `TrustPathsResolve` | A CA whose `OutputPrefix` is not `ca`: `TLS_CA = ca.crt` (line 519) names a file that is not the CA. With no `<Server>`, the defaults of 456/541 name a `magic-server.crt` that nothing wrote. A client whose `OutputPrefix` is the server's or the CA's overwrites that peer's key and certificate (224, 264-265), because nothing checks that prefixes are unique. `fd_server.conf`'s `TLS_Cred` then names the client's certificate, or `TLS_CA` names a leaf |
| `silent_skip` | violation of `ArtifactsShareIdentity` | A missing `acl_wl.conf` is skipped (272-274), or a failed profile write is swallowed (445-448), and the run still exits 0 |
| `no_org` | violation of `NoSpuriousAbort` | A client without `<Organization>` aborts the run at line 615, although the spec does not require that field |
| `key_mode` | violation of `SecretsNeverWorldReadable` | A new key file (90-96) or `_magic.conf` (770-774) is readable by others between the write and the `chmod` |

**Bounds.**
* Three runs: two failed runs can leave files of two different runs side by side before a run that succeeds (two runs are the least that lets one failure leave files for the next).
* Two clients are the least that lets two of them collide or be merged.
* Prefixes include `ca` and `root`, so a CA prefix can be the default and not the default.
* The access list starts empty or holding a configured identity, so the merge both appends and skips.

**Fairness.** None. The program is single-threaded, never waits (no network,
no locks, spec section 5) and every loop runs over a finite element list, so
every run ends; termination is not a question worth a run. `Terminating` makes
the end of the last run a legal final state instead of a deadlock.

**Refinement.** `AbstractRun` states what one process promises: stages in the
order of spec 4.5 (load, CA, servers, clients, access list, profile, peer
configs, business files, server config), no stage before the previous one is
over, exit 0 only after the last stage and exit 1 from any stage, and a root
key generated once in the CA stage and not replaced for the rest of the
process. `CertGenRun` instantiates it with `stage <- StageIndex` (the index of
`pc.stage` in `RunStages`, 0 when idle), `exitCode <- lastExit`,
`rootKey <- caKey` and `runs <- run`; `ImplementsAbstractRun` is the abstract
`Spec`, checked as a property in `core`. Steps inside a stage (key, chmod,
certificate) map to stuttering steps; stages with nothing to do are passed
over by `Advance`.

### `SanBuilder` — `build_san_extension` (127-152)

**State.** `san` is the `<SubjectAltNames>` element (or `NoSan`): DNS and IP
lists and an optional OtherName value, which is a sequence of characters
(1-, 2- or 3-byte in UTF-8) or `NoneText`. `stage` and `i` are the position in
the loops. `sanList` is `san_list`, and `result` is the return value.

**Actions.** `SanConfigNone` and `BeginLoops` implement the `None` check.
`AddDNS`/`DNSDone` and `AddIP`/`BadIPRaises`/`IPDone` are the two `findall`
loops. `AddOtherName`/`OtherNameRaises`/`NoOtherName` are lines 139-148:
`len(None)` raises TypeError and `to_bytes(1)` raises OverflowError at 256.
`Return` is lines 150-152. The encoding `EncodeOtherName` is line 146 as
written: tag 12, `len(val)` as one byte, then the UTF-8 bytes (`Utf8`).

**Reference.** `DerDecode` is an X.690 decoder of one TLV, handling short and
long form. `Expected` is the result the spec asks for.
`SanExtensionAsSpecified` says that the list the code returns, with each
OtherName decoded, equals `Expected`.

| Run | Result | What it shows |
|---|---|---|
| `san_pass` | passes | ASCII values of 1, 2, 127 and 300 characters, None, and up to two DNS and IP entries: the code agrees with the spec |
| `san_boundary` | violation | Values of 128 or 255 ASCII characters, or with 2- and 3-byte characters, decode as malformed. The length byte counts characters, and 128-255 is a long-form marker |

**Bounds.** The lengths are chosen at the boundaries: 127/128 (short/long
form), 255/256 (one byte overflows), and 42/43 three-byte characters
(126/129 bytes).

### `AclMerge` — `update_acl_whitelist` (267-296) across runs

**State.** `acl` is the text of `conf/acl_wl.conf` as a sequence of
one-character strings (or `Absent`). `clients` is the list of client CNs,
each a sequence of characters. `pc` is the position in the stage (`idle`,
`check`, `append`). `content` and `newEntries` are the locals of the same name.
`run` and `lastExit` are the run counter and the stage's outcome (0 returned, 1
raised). `merged` records that some run has completed the stage, and `origin`
holds the file as it was before the first run (history only).

**Actions.** `StartRun` is a new process reaching the stage. `AclMissing` is
lines 272-274. `ReadAcl` is lines 276-286 and 295-296: it reads the file and keeps
the identities for which `identity not in content` holds (`NewEntries`, with
`InText` as "is a contiguous piece of"); with none it returns. `AppendEntries` is
lines 287-294: it writes a newline when the text does not end with one, the
label line and one line per new entry (`AppendedBlock`). `AppendEntriesFails`
is a write that raises or a kill part way through: any strict prefix of the
block stays on disk and the run exits 1. `Terminating` is the end of the last
run.

| Run | Result | What it shows |
|---|---|---|
| `acl_pass` | passes (1,924 states) | Three runs, so that two appends cut short can precede a merge that completes, clients whose identities are not pieces of one another, files absent, empty, with and without a final newline, or holding a label. `AclListsClients`: after the stage returns, every client is a line of the file. `AclMergeIdempotent`: once a run has completed the merge, later runs do not change a byte |
| `acl_exact` | violation of `AclWhitelistExact` | A client `a` beside an entry `aa` is never added, because `a` is a piece of `aa` (line 284, the open question of spec section 9). An append cut short leaves a fragment (for instance `a` of `aa`) as a line of its own; the next run appends the full entry after it, and the file keeps an entry nobody configured (spec section 8 says nothing of a partial append) |

**Bounds.** Characters `a`, `b`, `#`, `h` and newline are enough: `aa` and `b`
are not pieces of each other or of the label, and `a` is a piece of `aa`. Two
runs are the least that lets a cut-short append be read by a later run.

### `BusinessArtifacts` — one client's profile record and `_magic.conf`

**State.** `client` is the `<Client>` element: its CN as a sequence of
dot-separated labels, its IP (or `NoIP`) and its `<MagicConfig>` (or `NoMagic`),
whose username, passwords, TFT rules and NAPT rules are each present or `Unset`.
`profile` is the `ClientProfile` record written to `Client_Profile.xml`, and
`magic` is the parsed `_magic.conf`. `serverCN` is the CommonName of the first
`<Server>` (as labels, or `NoServer`), which the file's `DESTINATION_REALM` is
derived from (`ServerRealm`, 605-611). `FdRealm` is the `Realm = "example.com"`
that every freeDiameter config announces (508, 568). `stage` is the order of `run` (790-791).

**Actions.** `BuildProfile` is the body of the client loop of
`update_client_profile` (312-421): the username is the first label of the CN,
the passwords are the constants of lines 331-332, and the TFT whitelist is copied
with each rule's `direction` attribute, or two default templates when
`<MagicConfig>` has no `<TFTs>`. `ProfileRaises` is a TFT element without text
(line 395): the exception is printed (445-448) and no profile is written.
`WriteMagicConf` is `generate_client_magic_configs` for the client (613-772):
each field comes from `GetConfig` or its default, and the rules are split into
GROUND and anything else (714-726). A direction without rules gets one default
rule, and so do the NAPT rules. `MagicRaises` is line 721 on a rule without
text, which nothing catches.

| Run | Result | What it shows |
|---|---|---|
| `business_pass` | passes (216 states) | Without credential overrides and with a server inside `example.com` (or none), `ServerAdmitsClient` holds: the file's `DESTINATION_REALM` is the announced Realm, and the profile has the same identity, username and passwords as the file, and its whitelist holds every TFT rule the file presents, under its direction. The clients have custom rules of both directions (one without a `direction` attribute), so no default rule is needed |
| `business_override` | violation of `ServerAdmitsClient` | An overridden `<Username>`/`<ClientPassword>` reaches the file (651-653) but not the profile (328-332). A lower-case `direction="air"` is copied verbatim into the profile (394), where it matches neither direction, while the file counts every direction other than `'GROUND'` as AIR (721-724). A client whose rules are all of one direction gets a default rule for the other direction in the file (729-743) but not in the profile. A client without `<MagicConfig>`, or with an empty `<TFTs/>`, gets an empty whitelist (390-392), and one without `<TFTs>` gets two rules holding the literal `{client_ip}` (403, 406), while its file presents concrete default rules with its address (729-743); the comment at 387-388 says the server checks the client's TFT against this list. A server `gs.airline.net` makes the client route to `airline.net` (609), a realm no freeDiameter config announces |

**Reading of the whitelist.** `Covers` is the strict reading of the comment
at 387-388: the whitelist must hold the rule the client presents, under its
direction. An empty whitelist admits nothing, and the literal `{client_ip}` is
a different rule from one carrying an address. The server that reads the
profile is not in this repository; this is what the generator's own comment
promises of it.

**Bounds.** One client and one server CN: none, without dots, inside `example.com` and, in the violation run, outside it. The client has a CN with and without dots, an IP present or absent,
and `<MagicConfig>` shapes chosen to tell the documents apart. The passing run
has rules of both directions, NAPT lists absent, empty or not, and a rule
without text; the violation run has no element, no
`<TFTs>`, an empty one, rules of one direction, a lower-case
direction, and credential overrides.

### `AbstractRun` — what one process promises

See "Refinement" under `CertGenRun`. It has no run of its own: it is checked
only as the property `ImplementsAbstractRun` of `core`.

### Not modelled

* **The link-simulator socket probe** (`_cleanup_backup/.../test_socket_connection.py`).
  It is an archived script outside the generator, and the spec does not name it.
  Its hazard is listed in `PROJECT.json`: `except ConnectionRefused`
  names an undefined class, so a refused connection ends the probe with
  NameError (line 73).
  The project's run budget is spent on the generator, whose behaviour the spec describes.
* **Constant fields.** Bandwidth, QoS, ports and session toggles are constants or
  copied overrides. The QoS and link-policy count fields of the profile (349, 357) are
  literals next to literal lists, so a property about them would hold by the shape of the code.
  The server-side admission of bandwidth and QoS values lives in the server, which is not in this
  repository, so they are left out.
* Cryptography, PEM formatting, printing and XML layout are outside what the
  properties distinguish. A key is an id, and signing records the signer's id.
