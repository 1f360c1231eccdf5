SPECIFICATION QpackSpec
CONSTANTS
    Ends = {"a", "b"}
    MaxEvents = 3
    Labels = {"", "cmd", "telemetry"}
    DcSetups <- MCDcSetups
    Sessions = {"s1", "s2"}
    Streams <- MCStreams
    MaxPayloads = 3
    WtSetups <- MCWtSetups
    kMaxTableCapacity = 8
    kEntryOverhead = 3
    SplitAnywhere = TRUE
    MaxInstructions = 4
    SeqSpace = 8
    AckBits = 4
    Window = 3
    FirstSeq = 7
    c1 = c1
    c2 = c2
    Callers = {c1, c2}
    Links <- AllLinks
INVARIANT AppliedOnce
CHECK_DEADLOCK FALSE
