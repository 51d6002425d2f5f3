\* Playback: the decoder is fed what recv() returns.
CONSTANTS
    MaxFrames = 3
    Body = 2
    Leads = {1}
    Sources = {"reads"}
SPECIFICATION Spec
CHECK_DEADLOCK FALSE
INVARIANTS
    FramesAreWhole
