\* An IDR slice (19) and an SEI (39): the SEI is never sent with pseudo headers.
CONSTANTS
    SeqMod = 4
    MaxFrames = 6
    MaxFragments = 3
    Types = {19, 39}
    PseudoTypes = {19}
    BareBytes = {5}
SPECIFICATION Spec
CHECK_DEADLOCK FALSE
INVARIANTS
    TypeOK
    OutputIsExact
    FlushAddsOnePrefix
