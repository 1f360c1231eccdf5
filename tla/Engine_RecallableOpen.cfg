SPECIFICATION Spec
CONSTANTS
    Built <- MCBuilt
    EngineConfigs <- MCConfigs
    StaticPlugins <- MCStatic
    UserPlugins <- MCUser
    FaultSets <- MCFaults
    MaxInits = 2
    MaxSets = 1
    MaxChannels = 1
    UserProfiles <- MCUserProfiles
    UserDocuments <- MCDocuments
    Overrides <- MCOverrides
    MaxBuilds = 2
    Timeout = 2
    MaxLag = 1
    Descriptions <- OneDescription
    MaxOpens = 2
    MaxQueue = 1
    SocketRoom = 1
    GmFailures = {"none", "context", "certificate", "init", "socket", "pem", "prf"}
    GmCalls = 2
    Messages <- MCMessages
    GcTtl = 2
    MaxTicks = 4
    MaxArrivals = 5
    MaxRestarts = 1
INVARIANT RecallableOpen
CHECK_DEADLOCK FALSE
