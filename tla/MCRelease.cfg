\* Two edits, two pushes, one failing job.
SPECIFICATION Spec
CONSTANTS
    ARTIFACTS <- ArtifactsMC
    TARGETS <- TargetsMC
    Suffixes = {"arm64"}
    Edits = {"go", "names", "logger"}
    MaxEdits = 2
    MaxBuilds = 2
    MaxPushes = 2
    MaxFaults = 1
INVARIANTS
    TypeOK
    PublishedSound
    StaleIsSeen
    EveryVersionHasNews
    HeadReleased
PROPERTIES
    VersionsAreFinal
    BuildRepairs
CHECK_DEADLOCK FALSE
