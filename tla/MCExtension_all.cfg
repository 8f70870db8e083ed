\* Two invocations, all interleavings of loop, handler and tickers.
SPECIFICATION FairSpec
CONSTANTS
    MaxInvocations = 2
    LogsPerInvocation = 2
    Excluded <- OneExcluded
INVARIANTS
    TypeOK
    Accounted
    CollectedAtFreeze
PROPERTIES
    ShipsTheLog
    ShutdownEnds
    Released
    BufferedIsSettled
CHECK_DEADLOCK FALSE
