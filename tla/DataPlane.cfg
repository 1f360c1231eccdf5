SPECIFICATION Spec
CONSTANTS
    Ends = {"a", "b"}
    MaxEvents = 3
    Labels = {"", "cmd", "telemetry"}
    DcSetups <- MCDcSetups
    Sessions = {"s1", "s2"}
    Streams <- MCStreams
    MaxPayloads = 3
    WtSetups <- MCWtSetups
    kMaxTableCapacity = 8
    kEntryOverhead = 3
    SplitAnywhere = FALSE
    MaxInstructions = 5
    SeqSpace = 8
    AckBits = 4
    Window = 3
    FirstSeq = 7
    c1 = c1
    c2 = c2
    Callers = {c1, c2}
    Links <- AllLinks
INVARIANTS
    ChannelAsOpened
    ReleasedOnce
    StreamsServedOnce
    SectionsDecode
    ReceiverInOrder
PROPERTIES
    CloseEndsDelivery
    ArqDelivers
CHECK_DEADLOCK FALSE
