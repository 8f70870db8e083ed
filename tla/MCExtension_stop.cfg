\* A delivery between the last flush and the end of the server.
SPECIFICATION Spec
CONSTANTS
    MaxInvocations = 1
    LogsPerInvocation = 1
    Excluded <- NoneExcluded
INVARIANT StopDrains
CHECK_DEADLOCK FALSE
