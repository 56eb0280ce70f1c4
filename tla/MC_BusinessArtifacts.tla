------------------------ MODULE MC_BusinessArtifacts ------------------------
(***************************************************************************)
(* One client, with every <MagicConfig> shape that tells the two          *)
(* documents apart: absent, without <TFTs>, with an empty <TFTs>, with    *)
(* rules of one or both directions, a rule without direction attribute or *)
(* with a lower-case one, a rule without text, and credential overrides.  *)
(***************************************************************************)
EXTENDS BusinessArtifacts

CONSTANTS ip1, t1, t2, n1

ExampleRealm == <<"example", "com">>

\* Servers whose realm is example.com: none, a CN without '.', one inside it.
ExampleServers == {NoServer, <<"gs">>, <<"gs", "example", "com">>}

\* And a server of another domain.
OtherServers == ExampleServers \cup {<<"gs", "airline", "net">>}

CNs == {<<"cli1", "example", "com">>, <<"cli1">>}

Rule(dir, text) == [dir |-> dir, text |-> text]

Magic(users, cpws, tfts, napts) ==
    [username : users, clientPw : cpws, serverPw : {Unset},
     tfts : tfts, napts : napts]

\* No credential override; TFT rules of both directions, with and without
\* the direction attribute, or a rule without text.
AgreeingMagics ==
    Magic({Unset}, {Unset},
          {<<Rule(Unset, t1), Rule("AIR", t2)>>, <<Rule("GROUND", NoneText)>>},
          {Unset, <<>>, <<n1>>})

\* No <MagicConfig>, no <TFTs>, an empty one, rules of only one direction,
\* a lower-case direction attribute, or Username / password overridden.
OverrideMagics ==
    {NoMagic}
      \cup Magic({Unset}, {Unset}, {Unset, <<>>}, {Unset})
      \cup Magic({Unset, "pilot"}, {Unset, "secret"},
                 {<<Rule("GROUND", t1)>>, <<Rule("air", t2), Rule("GROUND", t1)>>},
                 {Unset})

AgreeingClients  == [cn : CNs, ip : {ip1, NoIP}, magic : AgreeingMagics]
OverrideClients == [cn : CNs, ip : {ip1, NoIP}, magic : OverrideMagics]
=============================================================================
