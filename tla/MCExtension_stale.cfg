\* A signal that comes after its wait has timed out.
SPECIFICATION FairSpec
CONSTANTS
    MaxInvocations = 2
    LogsPerInvocation = 1
    Excluded <- NoneExcluded
PROPERTY SignalIsCurrent
CHECK_DEADLOCK FALSE
