SPECIFICATION Spec
CONSTANTS
    Setups <- OneSetup
    SeqSpace = 16
    TsSpace = 16
    MaxInflight = 2
    MaxWait = 2
INVARIANTS DeliveredOnce
