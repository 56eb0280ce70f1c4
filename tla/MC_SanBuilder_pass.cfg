\* The SAN builder on the inputs its one-byte DER header covers.
CONSTANTS
    d1 = d1
    d2 = d2
    ip1 = ip1
    ip2 = ip2
    bad = bad
    DNSNames = {d1, d2}
    GoodIPs = {ip1, ip2}
    BadIPs = {bad}
    NoSan = NoSan
    NoOther = NoOther
    NoneText = NoneText
    SanInputs <- PassInputs
SPECIFICATION Spec
INVARIANTS
    TypeOK
    SanExtensionAsSpecified
