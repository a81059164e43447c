SPECIFICATION FairSpec
CONSTANTS
    FramesInFlight = 2
    ImageCounts = {2, 3, 4}
    MaxResizes = 2
INVARIANTS
    BuffersNotInUse
    FencesWillSignal
    GpuUsesLiveSwapchain
    SemaphoresSuffice
PROPERTIES
    FramesGoOn
CHECK_DEADLOCK FALSE
