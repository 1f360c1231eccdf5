SPECIFICATION MCSpec
CONSTANTS
    Setups <- AllSetups
    SeqSpace = 16
    TsSpace = 16
    MaxInflight = 2
    MaxWait = 2
    VpSetups <- MCVpSetups
    VpSeqSpace = 16
    VpBlpBits = 2
    VcSetups <- MCVcSetups
INVARIANTS
    FramesOnce
    SentUnchanged
    FeedbackMerged
    QuietWhenIdle
    FrozenTimeBounded
    FramesWhole
PROPERTIES
    NoneOverdue
    CloseJoins
