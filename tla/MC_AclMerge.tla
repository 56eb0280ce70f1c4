---------------------------- MODULE MC_AclMerge ----------------------------
(***************************************************************************)
(* Small texts for AclMerge.  Characters are one-letter strings; "h"      *)
(* stands for the label text after "#".  Identities "aa" and "b" are not  *)
(* pieces of one another, of the label or of each other's lines, so the   *)
(* substring test of line 284 is exact for them; "a" is a piece of "aa".  *)
(***************************************************************************)
EXTENDS AclMerge

CONSTANT Missing

NLChar == "\n"
Label  == <<"#", "h">>

AA == <<"a", "a">>
B  == <<"b">>
A  == <<"a">>

\* Clients whose identities are not pieces of one another.
DistinctLists == {<<>>, <<B>>, <<AA, B>>}

\* Files before the first run: none, empty, an entry without its final
\* newline, an entry with it, a label line.
VariedAcls == {Missing, <<>>, <<"b">>, <<"b", "\n">>, <<"#", "h", "\n">>}

\* One client whose identity is a piece of another peer's entry "aa".
PrefixClient == {<<A>>}
OtherPeerAcl == {<<"a", "a", "\n">>}

\* One client and an empty file, for the cut-short append.
OneClient == {<<AA>>}
EmptyAcl  == {<<>>}

\* Both: a client inside another entry, or an append cut short.
ExactClients == PrefixClient \cup OneClient
ExactAcls    == OtherPeerAcl \cup EmptyAcl
=============================================================================
