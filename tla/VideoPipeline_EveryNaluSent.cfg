SPECIFICATION MCSpec
CONSTANTS
    Setups <- OneSetup
    SeqSpace = 16
    TsSpace = 16
    MaxInflight = 2
    MaxWait = 2
    VpSetups <- SmallThenLarge
    VpSeqSpace = 16
    VpBlpBits = 2
    VcSetups <- MCVcSetups
INVARIANTS EveryNaluSent
