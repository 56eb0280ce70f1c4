--------------------------- MODULE MC_SanBuilder ---------------------------
(***************************************************************************)
(* Inputs of build_san_extension for TLC: up to two DNS names, up to two   *)
(* IP texts (one of which may be malformed), and OtherName values at the   *)
(* boundaries of the one-byte length.                                      *)
(***************************************************************************)
EXTENDS SanBuilder

CONSTANTS d1, d2, ip1, ip2, bad

\* A text of n characters of one class.
Text(c, n) == [k \in 1..n |-> c]

SeqsUpTo2(S) == {<<>>} \cup {<<a>> : a \in S} \cup (S \X S)

Inputs(others) ==
    {NoSan} \cup
    [dns : SeqsUpTo2({d1, d2}), ips : SeqsUpTo2({ip1, ip2, bad}), other : others]

\* ASCII values the one-byte header covers, the missing text, and one of
\* 300 characters that to_bytes rejects.
ShortAsciiValues ==
    {NoOther, NoneText, Text("ascii", 1), Text("ascii", 2), Text("ascii", 127),
     Text("ascii", 300)}

\* Values at the boundaries the header gets wrong: 128 and 255 ASCII
\* characters, and short values of multi-byte characters.
BoundaryValues ==
    {Text("ascii", 128), Text("ascii", 255), Text("latin", 1),
     Text("latin", 64), Text("cjk", 42), Text("cjk", 43)}

PassInputs == Inputs(ShortAsciiValues)
BoundaryInputs == Inputs(BoundaryValues)

=============================================================================
