SPECIFICATION MCSpec
CONSTANTS
    Stream <- ThreePackets
    Configs <- BothModes
    TsSpace = 4
    BaseDelay = 2
    Delays = {1, 2}
    MaxArrivals = 3
    LastArrival = 2
    MaxTime = 5
    MaxCalls = 1
    Second = 40
    NtpFraction = 64
    kNtpEpochOffset = 7
    AstTick = 2
    kAbsSendTimeModulus = 64
    kRtpTsModulus = 512
    RtpRate = 40
    kDefaultClockRateHz = 80
    kMaxAstObservations = 3
    kAstAnchorWindow = 25
    kMinFitSpan = 30
    MaxAdvance = 5
    AgreementTolerance = 40
    SlopeFilters <- ClampedFilter
    SrPeriod = 20
    FrameTicks = 20
    Drifts = {0, 1}
    Pause = 30
    Starts <- NearWrap
    MaxFrames = 4
    MaxPauses = 1
    MaxWire = 2
    Headers <- MCHeaders
    Sources <- MCSources
    Extensions <- MCExtensions
    SendTimes <- MCSendTimes
    ExtIds = {0, 2, 14, 15, 255}
    RtpPayloads <- MCPayloads
    Paddings = {1, 255}
    ReportFields <- MCReportFields
    ReportBlocks <- MCReportBlocks
    NackEntries <- MCNackEntries
    MaxCsrc = 2
    MaxSetters = 3
    MaxReports = 2
INVARIANTS
    PacketsAccounted
    WaitsItsDelay
    CaptureFaithful
    CodecRoundTrip
PROPERTIES
    PlaysOut
CHECK_DEADLOCK FALSE
