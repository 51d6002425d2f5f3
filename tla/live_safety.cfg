\* Two generators that compete for two receiver ports.
CONSTANTS
    Streams = {s1, s2}
    Ports = {p1, p2}
    Tokens = {tok}
    NoToken = NoToken
    MaxPrefix = 1
SPECIFICATION Spec
SYMMETRY Symmetry
INVARIANTS
    TypeOK
    NoLeakedLink
    StreamInsideCommand
    MediaAfterHandshake
PROPERTIES
    ImplementsSession
