\* A prefix SEI (39) whose continuations carry the EZVIZ pseudo header.
CONSTANTS
    SeqMod = 4
    MaxFrames = 6
    MaxFragments = 3
    Types = {39}
    PseudoTypes = {39}
    BareBytes = {5}
SPECIFICATION Spec
CHECK_DEADLOCK FALSE
INVARIANTS
    OutputIsExact
