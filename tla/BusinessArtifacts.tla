-------------------------- MODULE BusinessArtifacts --------------------------
(***************************************************************************)
(* The two business documents of one client, built by separate stages    *)
(* from the same <Client> element:                                        *)
(*  - its ClientProfile record in server_profile/Client_Profile.xml       *)
(*    (update_client_profile, cert_generator.py 312-421), which the       *)
(*    server checks a client against;                                     *)
(*  - its client_magic_config/<prefix>_magic.conf                         *)
(*    (generate_client_magic_configs, 613-761), which the client presents.*)
(* The stages run in this order (run, 790-791).  Texts are abstracted:    *)
(* the common name is its sequence of dot-separated labels, a TFT or NAPT *)
(* rule is a model value or a default rule record.                        *)
(***************************************************************************)
EXTENDS Integers, Sequences, SequencesExt

CONSTANTS
    Clients,         \* the <Client> elements: [cn, ip, magic]
    NoIP,            \* no <SubjectAltNames>/<IP>
    DefaultClientIP, \* "192.168.126.5" (line 619)
    NoMagic,         \* no <MagicConfig>
    Unset,           \* an optional element or attribute that is absent
    NoneText,        \* an element without text: .text is None
    Placeholder,     \* the literal "{client_ip}" of lines 403 and 406
    DefaultClientPw, \* "magic123"
    DefaultServerPw, \* "1111"
    ServerCNs,       \* the first <Server>'s CommonName, as its labels, or NoServer
    NoServer,        \* no .//Servers/Server element
    FdRealm          \* the labels of "example.com", the Realm of every fd config

VARIABLES
    client,   \* the <Client> element
    serverCN, \* the CommonName of the first <Server>, read at line 608
    stage,    \* "profile", "magic", "done" or "error"
    profile,  \* the ClientProfile record, or Unset when none was written
    magic     \* the parsed _magic.conf, or Unset

vars == <<client, serverCN, stage, profile, magic>>

(***************************************************************************)
(* Helpers shared by both stages.                                         *)
(***************************************************************************)
Directions == {"GROUND", "AIR"}

\* identity.split('.')[0]; for a name without '.', the whole name.
FirstLabel(cn) == cn[1]

\* The default rules of lines 403/406 and 731/740, for an address.
DefaultRule(dir, ip) == [kind |-> "default", dir |-> dir, ip |-> ip]

\* Mutant: findtext-style lookup, None for a tag <MagicConfig> lacks.
GetConfigNoTagCheck(m, tag, default) ==
    IF m # NoMagic THEN m[tag] ELSE default

\* magic_cfg.find(tag) is not None and its .text, else the default.
GetConfig(m, tag, default) ==
    IF m # NoMagic /\ m[tag] # Unset THEN m[tag] ELSE default

\* tft.get('direction', 'GROUND')
DirectionOf(t) == IF t.dir = Unset THEN "GROUND" ELSE t.dir

\* tft.text.strip() raises AttributeError on an element without text.
TftTextMissing(m) ==
    /\ m # NoMagic
    /\ m.tfts # Unset
    /\ \E k \in DOMAIN m.tfts : m.tfts[k].text = NoneText

(***************************************************************************)
(* update_client_profile, the body of the loop for one client.            *)
(***************************************************************************)
\* Mutant: every copied rule is filed under GROUND.
ProfileTftsAllGround(c) ==
    IF c.magic = NoMagic THEN <<>>
    ELSE IF c.magic.tfts = Unset
         THEN <<[dir |-> "GROUND", rule |-> DefaultRule("GROUND", Placeholder)],
                [dir |-> "AIR", rule |-> DefaultRule("AIR", Placeholder)]>>
         ELSE [k \in DOMAIN c.magic.tfts |->
                 [dir |-> "GROUND", rule |-> c.magic.tfts[k].text]]

\* Lines 389-406: the whitelist.  Rules are copied from <TFTs> with their
\* direction attribute; defaults only when <MagicConfig> has no <TFTs>.
ProfileTfts(c) ==
    IF c.magic = NoMagic THEN <<>>
    ELSE IF c.magic.tfts = Unset
         THEN <<[dir |-> "GROUND", rule |-> DefaultRule("GROUND", Placeholder)],
                [dir |-> "AIR", rule |-> DefaultRule("AIR", Placeholder)]>>
         ELSE [k \in DOMAIN c.magic.tfts |->
                 [dir |-> DirectionOf(c.magic.tfts[k]), rule |-> c.magic.tfts[k].text]]

\* Lines 315-332 and 383: the record's identity, credentials and traffic.
ProfileRecord(c) ==
    [clientId   |-> c.cn,
     username   |-> FirstLabel(c.cn),
     clientPw   |-> DefaultClientPw,
     serverPw   |-> DefaultServerPw,
     sourceIP   |-> c.ip,
     tfts       |-> ProfileTfts(c)]

Init ==
    /\ client \in Clients
    /\ serverCN \in ServerCNs
    /\ stage = "profile"
    /\ profile = Unset
    /\ magic = Unset

BuildProfile ==
    /\ stage = "profile"
    /\ ~TftTextMissing(client.magic)
    /\ profile' = ProfileRecord(client)
    /\ stage' = "magic"
    /\ UNCHANGED <<client, serverCN, magic>>

\* Line 395 raises; the handler of 445-448 prints it and the stage ends
\* without writing the document; the run goes on.
ProfileRaises ==
    /\ stage = "profile"
    /\ TftTextMissing(client.magic)
    /\ stage' = "magic"
    /\ UNCHANGED <<client, serverCN, profile, magic>>

(***************************************************************************)
(* generate_client_magic_configs, the body of the loop for one client.    *)
(***************************************************************************)
\* Lines 619-624.
ClientIP(c) == IF c.ip = NoIP THEN DefaultClientIP ELSE c.ip

\* Lines 714-726: custom rules of one direction; any direction attribute
\* other than 'GROUND' counts as AIR.
CustomTfts(m, dir) ==
    IF m = NoMagic \/ m.tfts = Unset THEN <<>>
    ELSE LET IsDir(t) == (DirectionOf(t) = "GROUND") = (dir = "GROUND")
         IN  [k \in 1..Len(SelectSeq(m.tfts, IsDir)) |->
                SelectSeq(m.tfts, IsDir)[k].text]

\* Mutant: a direction without custom rules gets no default.
MagicTftsNoDefault(c, dir) == CustomTfts(c.magic, dir)

\* Lines 729-743: the custom rules, or one default rule.
MagicTfts(c, dir) ==
    IF CustomTfts(c.magic, dir) = <<>>
    THEN <<DefaultRule(dir, ClientIP(c))>>
    ELSE CustomTfts(c.magic, dir)

\* Lines 749-761.
MagicNapts(c) ==
    IF c.magic = NoMagic \/ c.magic.napts = Unset \/ c.magic.napts = <<>>
    THEN <<[kind |-> "snat", ip |-> ClientIP(c)]>>
    ELSE c.magic.napts

\* Lines 606-611: the labels after the first, or "example.com".
ServerRealm(s) ==
    IF s = NoServer \/ Len(s) = 1 THEN FdRealm ELSE Tail(s)

\* Lines 651-653 and 663-707: the key=value fields of the file.
MagicRecord(c) ==
    [clientId |-> c.cn,
     realm    |-> ServerRealm(serverCN),
     username |-> GetConfig(c.magic, "username", FirstLabel(c.cn)),
     clientPw |-> GetConfig(c.magic, "clientPw", DefaultClientPw),
     serverPw |-> GetConfig(c.magic, "serverPw", DefaultServerPw),
     tfts     |-> [d \in Directions |-> MagicTfts(c, d)],
     napts    |-> MagicNapts(c)]

WriteMagicConf ==
    /\ stage = "magic"
    /\ ~TftTextMissing(client.magic)
    /\ magic' = MagicRecord(client)
    /\ stage' = "done"
    /\ UNCHANGED <<client, serverCN, profile>>

\* Line 721 raises; nothing catches it and the run exits 1.
MagicRaises ==
    /\ stage = "magic"
    /\ TftTextMissing(client.magic)
    /\ stage' = "error"
    /\ UNCHANGED <<client, serverCN, profile, magic>>

Finished ==
    /\ stage \in {"done", "error"}
    /\ UNCHANGED vars

Next ==
    \/ BuildProfile \/ ProfileRaises
    \/ WriteMagicConf \/ MagicRaises
    \/ Finished

Spec == Init /\ [][Next]_vars

(***************************************************************************)
(* Properties                                                             *)
(***************************************************************************)
TypeOK ==
    /\ client \in Clients
    /\ serverCN \in ServerCNs
    /\ stage \in {"profile", "magic", "done", "error"}
    /\ profile = Unset \/ DOMAIN profile = {"clientId", "username", "clientPw",
                                           "serverPw", "sourceIP", "tfts"}
    /\ stage = "done" <=> magic # Unset
    \* a written file has at least one rule per direction
    /\ magic # Unset => \A d \in Directions : magic.tfts[d] # <<>>
    \* and a value for each credential key
    /\ magic # Unset => Unset \notin {magic.username, magic.clientPw, magic.serverPw}

\* The server's whitelist entry w holds the rule r the client presents in
\* direction d.  The profile stores rule texts as written, the defaults of
\* lines 403/406 with the literal {client_ip}.
Covers(w, d, r) == w.dir = d /\ w.rule = r

(* When the _magic.conf was written, the server admits the client that    *)
(* presents it: its DESTINATION_REALM (line 609) is the Realm that the    *)
(* server's fd_server.conf announces (line 568), and when the profile was *)
(* written too, the server's ClientProfile has the same Username (spec   *)
(* 4.4: the first label of the common name unless overridden) and        *)
(* passwords, and holds every TFT rule of each direction the client      *)
(* presents: the comment at lines 387-388 says the server checks the     *)
(* client's TFT against this whitelist.                                   *)
ServerAdmitsClient ==
    stage = "done" =>
      /\ magic.realm = FdRealm
      /\ profile # Unset =>
        /\ profile.clientId = magic.clientId
        /\ profile.username = magic.username
        /\ profile.clientPw = magic.clientPw
        /\ profile.serverPw = magic.serverPw
        /\ \A d \in Directions : \A k \in DOMAIN magic.tfts[d] :
             \E j \in DOMAIN profile.tfts : Covers(profile.tfts[j], d, magic.tfts[d][k])

=============================================================================
