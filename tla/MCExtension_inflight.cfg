\* A ticker's upload and the release of the environment.
SPECIFICATION Spec
CONSTANTS
    MaxInvocations = 1
    LogsPerInvocation = 1
    Excluded <- NoneExcluded
INVARIANT NoUploadFrozen
CHECK_DEADLOCK FALSE
