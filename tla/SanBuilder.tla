----------------------------- MODULE SanBuilder -----------------------------
(***************************************************************************)
(* CertificateGenerator.build_san_extension (cert_generator.py 127-152):  *)
(* the Subject Alternative Name list of one leaf, built by one loop over  *)
(* the <DNS> elements, one over the <IP> elements and one optional        *)
(* <OtherName> whose value is wrapped by hand as a DER UTF8String:        *)
(*     b'\x0c' + len(val).to_bytes(1, 'big') + val.encode('utf-8')        *)
(* A string is a sequence of characters.  Each character is one of three  *)
(* classes whose UTF-8 encodings take 1, 2 and 3 bytes.  Bytes are        *)
(* integers in 0..255.                                                    *)
(***************************************************************************)
EXTENDS Integers, Sequences, SequencesExt

CONSTANTS
    DNSNames,   \* texts of <DNS> elements
    GoodIPs,    \* IP literals ipaddress.ip_address accepts
    BadIPs,     \* texts it rejects with ValueError
    SanInputs,  \* the <SubjectAltNames> elements a leaf may carry
    NoSan,      \* no <SubjectAltNames> element: san_config is None
    NoOther,    \* no <OtherName> element
    NoneText    \* <Value/>: ElementTree gives .text = None

VARIABLES
    san,      \* the input: NoSan or [dns, ips, other]
    stage,    \* "dns", "ip", "other", "done" or "error"
    i,        \* loop index of the current findall loop
    sanList,  \* san_list built so far
    result    \* the return value: kind "none" (not yet), "omitted" (None)
              \* or "ext" with the list of entries

vars == <<san, stage, i, sanList, result>>

(***************************************************************************)
(* UTF-8 and the hand-written DER header.                                 *)
(***************************************************************************)
\* The bytes of one character of each class (U+0041, U+00E9, U+4E2D).
CharBytes(c) ==
    CASE c = "ascii" -> <<65>>
      [] c = "latin" -> <<195, 169>>
      [] c = "cjk"   -> <<228, 184, 173>>

\* val.encode('utf-8'): the bytes of the characters in order (split in
\* halves so that 300-character values stay within TLC's stack).
RECURSIVE Utf8(_)
Utf8(s) ==
    IF s = <<>> THEN <<>>
    ELSE IF Len(s) = 1 THEN CharBytes(s[1])
    ELSE LET h == Len(s) \div 2
         IN  Utf8(SubSeq(s, 1, h)) \o Utf8(SubSeq(s, h + 1, Len(s)))

\* Mutant: the length is not range-checked (a wider to_bytes).
LengthByteFitsUnchecked(s) == Len(s) >= 0

\* len(val) counts characters; to_bytes(1, 'big') raises OverflowError at
\* 256 and above.
LengthByteFits(s) == Len(s) < 256

\* len(None) raises TypeError; to_bytes raises OverflowError.
OtherNameRaisesOn(o) == IF o = NoneText THEN TRUE ELSE ~LengthByteFits(o)

\* Mutant: the length byte counts the tag byte too.
EncodeOtherNameCountsTag(s) == <<12, Len(s) + 1>> \o Utf8(s)

\* The encoded OtherName value of line 146.
EncodeOtherName(s) == <<12, Len(s)>> \o Utf8(s)

(***************************************************************************)
(* The loop.                                                              *)
(***************************************************************************)
\* What build_san_extension hands back, or raises.
Outcome(kind, list) == [kind |-> kind, list |-> list]
NotReturned == Outcome("none", <<>>)

Init ==
    /\ san \in SanInputs
    /\ stage = "start"
    /\ i = 1
    /\ sanList = <<>>
    /\ result = NotReturned

\* if san_config is None: return None
SanConfigNone ==
    /\ stage = "start"
    /\ san = NoSan
    /\ stage' = "done"
    /\ result' = Outcome("omitted", <<>>)
    /\ UNCHANGED <<san, i, sanList>>

BeginLoops ==
    /\ stage = "start"
    /\ san # NoSan
    /\ stage' = "dns"
    /\ UNCHANGED <<san, i, sanList, result>>

\* san_list.append(x509.DNSName(dns.text)), one <DNS> element.
AddDNS ==
    /\ stage = "dns"
    /\ i <= Len(san.dns)
    /\ sanList' = Append(sanList, [type |-> "dns", v |-> san.dns[i]])
    /\ i' = i + 1
    /\ UNCHANGED <<san, stage, result>>

DNSDone ==
    /\ stage = "dns"
    /\ i > Len(san.dns)
    /\ stage' = "ip"
    /\ i' = 1
    /\ UNCHANGED <<san, sanList, result>>

\* x509.IPAddress(ipaddress.ip_address(ip.text)), one <IP> element.
AddIP ==
    /\ stage = "ip"
    /\ i <= Len(san.ips)
    /\ san.ips[i] \in GoodIPs
    /\ sanList' = Append(sanList, [type |-> "ip", v |-> san.ips[i]])
    /\ i' = i + 1
    /\ UNCHANGED <<san, stage, result>>

\* ip_address raises ValueError; it propagates out of the issuing stage.
BadIPRaises ==
    /\ stage = "ip"
    /\ i <= Len(san.ips)
    /\ san.ips[i] \in BadIPs
    /\ stage' = "error"
    /\ UNCHANGED <<san, i, sanList, result>>

IPDone ==
    /\ stage = "ip"
    /\ i > Len(san.ips)
    /\ stage' = "other"
    /\ UNCHANGED <<san, i, sanList, result>>

\* The <OtherName> element, if any.
AddOtherName ==
    /\ stage = "other"
    /\ san.other # NoOther
    /\ ~OtherNameRaisesOn(san.other)
    /\ sanList' = Append(sanList, [type |-> "other",
                                   v |-> EncodeOtherName(san.other)])
    /\ stage' = "return"
    /\ UNCHANGED <<san, i, result>>

\* len(None) raises TypeError; len(val) >= 256 makes to_bytes raise
\* OverflowError.
OtherNameRaises ==
    /\ stage = "other"
    /\ san.other # NoOther
    /\ OtherNameRaisesOn(san.other)
    /\ stage' = "error"
    /\ UNCHANGED <<san, i, sanList, result>>

NoOtherName ==
    /\ stage = "other"
    /\ san.other = NoOther
    /\ stage' = "return"
    /\ UNCHANGED <<san, i, sanList, result>>

\* if san_list: return x509.SubjectAlternativeName(san_list); return None
Return ==
    /\ stage = "return"
    /\ result' = IF sanList # <<>> THEN Outcome("ext", sanList)
                                   ELSE Outcome("omitted", <<>>)
    /\ stage' = "done"
    /\ UNCHANGED <<san, i, sanList>>

\* The issuing stage ends (done or raised); nothing more happens.
Finished ==
    /\ stage \in {"done", "error"}
    /\ UNCHANGED vars

Next ==
    \/ AddDNS \/ DNSDone
    \/ AddIP \/ BadIPRaises \/ IPDone
    \/ AddOtherName \/ OtherNameRaises \/ NoOtherName
    \/ SanConfigNone \/ BeginLoops
    \/ Return
    \/ Finished

Spec == Init /\ [][Next]_vars

(***************************************************************************)
(* Reference: a DER decoder of one TLV, and the extension the spec asks   *)
(* for (section 4.3).                                                     *)
(***************************************************************************)
RECURSIVE BigEndian(_)
BigEndian(bs) == IF bs = <<>> THEN 0 ELSE BigEndian(Front(bs)) * 256 + Last(bs)

Malformed == [ok |-> FALSE, tag |-> 0, payload |-> <<>>]

\* X.690: a short-form length is one byte below 128; a long form is 128+n
\* followed by n >= 1 big-endian bytes without a leading zero, encoding a
\* length of at least 128; the content fills the rest exactly.
DerDecode(b) ==
    IF Len(b) < 2 THEN Malformed
    ELSE IF b[2] < 128
    THEN IF Len(b) = 2 + b[2]
         THEN [ok |-> TRUE, tag |-> b[1], payload |-> SubSeq(b, 3, Len(b))]
         ELSE Malformed
    ELSE LET n == b[2] - 128 IN
         IF n = 0 \/ Len(b) < 2 + n THEN Malformed
         ELSE LET l == BigEndian(SubSeq(b, 3, 2 + n)) IN
              IF b[3] # 0 /\ l >= 128 /\ Len(b) = 2 + n + l
              THEN [ok |-> TRUE, tag |-> b[1], payload |-> SubSeq(b, 3 + n, Len(b))]
              ELSE Malformed

\* What the spec says build_san_extension returns for an input.
SpecOtherNameInvalid(o) == o # NoOther /\ (o = NoneText \/ Len(Utf8(o)) >= 128)
SpecEntries(in) ==
    [k \in DOMAIN in.dns |-> [type |-> "dns", v |-> in.dns[k]]]
      \o [k \in DOMAIN in.ips |-> [type |-> "ip", v |-> in.ips[k]]]
      \o (IF in.other = NoOther THEN <<>>
          ELSE <<[type |-> "other", v |-> Utf8(in.other)]>>)
Expected(in) ==
    IF in = NoSan THEN Outcome("omitted", <<>>)
    ELSE IF (\E k \in DOMAIN in.ips : in.ips[k] \in BadIPs)
            \/ SpecOtherNameInvalid(in.other) THEN Outcome("error", <<>>)
    ELSE IF SpecEntries(in) = <<>> THEN Outcome("omitted", <<>>)
    ELSE Outcome("ext", SpecEntries(in))

\* The built list read back: an OtherName is replaced by the payload a DER
\* decoder finds in it as a UTF8String (tag 0x0C); an undecodable one is
\* kept as it is and typed "malformed".
ReadBack(e) ==
    IF e.type # "other" THEN e
    ELSE LET d == DerDecode(e.v) IN
         IF d.ok /\ d.tag = 12 THEN [type |-> "other", v |-> d.payload]
         ELSE [type |-> "malformed", v |-> e.v]
Observed ==
    IF stage = "error" THEN Outcome("error", <<>>)
    ELSE [result EXCEPT !.list = [k \in DOMAIN @ |-> ReadBack(@[k])]]

(***************************************************************************)
(* Properties                                                             *)
(***************************************************************************)
TypeOK ==
    /\ stage \in {"start", "dns", "ip", "other", "return", "done", "error"}
    /\ i \in Nat
    /\ sanList \in Seq([type : {"dns", "ip", "other"}, v : DNSNames \cup GoodIPs \cup Seq(0..255)])
    /\ result \in {NotReturned, Outcome("omitted", <<>>), Outcome("ext", sanList)}

(* When build_san_extension returns or raises, the outcome is the one the *)
(* spec gives: DNS names verbatim, then the parsed IPs, then the          *)
(* OtherName, whose value decodes as a DER UTF8String to exactly the      *)
(* UTF-8 bytes of the text; no extension at all when there is no entry;   *)
(* a ConfigError for a malformed IP or an OtherName of 128 bytes or more. *)
SanExtensionAsSpecified ==
    (stage = "error" \/ stage = "done") => Observed = Expected(san)

=============================================================================
