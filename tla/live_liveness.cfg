\* One generator, every await of it.
CONSTANTS
    Streams = {s1}
    Ports = {p1}
    Tokens = {tok}
    NoToken = NoToken
    MaxPrefix = 2
SPECIFICATION FairSpec
PROPERTIES
    OpeningSettles
    ScanSettles
    ReleaseSettles
