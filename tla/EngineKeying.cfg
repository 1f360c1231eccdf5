SPECIFICATION MCSpec
CONSTANTS
    Streams = {"audio", "video"}
    Setups <- MCSetups
    Engines = {"a", "b"}
    MaxVersion = 4
    SessionIds <- MCIds
    SgSetups <- MCSgSetups
INVARIANTS
    InstalledIsCurrent
    DecryptsWhatItGets
    PinBeforeKeys
    OneClient
    NegotiationAgrees
PROPERTIES
    KeysGetInstalled
CHECK_DEADLOCK FALSE
