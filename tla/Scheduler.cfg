SPECIFICATION MCSpec
CONSTANTS
    MaxQueueDepth = 3
    AvgPacketSize = 1
    Targets = {0, 7, 64}
    Priorities = {0, 1, 4}
    Streams = {s1, s2}
    MaxPackets = {2, 64}
    MaxEnqueues = 4
    RateSpace = 4096
    BweConfigs <- MCBweConfigs
    BweSteps = {100, 600, 9000}
    BweFeedbacks <- MCBweFeedbacks
    MaxBweCalls = 3
INVARIANTS
    Conservation
    StreamFifo
    RateWithinLimits
    NoTimeCreditedTwice
PROPERTIES
    StrictPriority
    BweTrimFits
    DrainsOut
