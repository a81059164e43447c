SPECIFICATION Spec
CONSTANTS
    Names = {u1, u2}
    NoName = none
    MaxClicks = 2
    MaxTextures = 3
    MaxJoins = 2
    FramesInFlight = 2
INVARIANTS
    DialogOnce
    FramesDrawRight
    GpuReadsLive
CHECK_DEADLOCK FALSE
