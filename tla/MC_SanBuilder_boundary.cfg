\* OtherName values of 128-255 characters and of multi-byte characters.
CONSTANTS
    d1 = d1
    d2 = d2
    ip1 = ip1
    ip2 = ip2
    bad = bad
    DNSNames = {d1, d2}
    GoodIPs = {ip1, ip2}
    BadIPs = {bad}
    NoSan = NoSan
    NoOther = NoOther
    NoneText = NoneText
    SanInputs <- BoundaryInputs
SPECIFICATION Spec
INVARIANT
    SanExtensionAsSpecified
