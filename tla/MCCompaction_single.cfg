\* One run at a time: late uploads on the first day, deaths until the last.
SPECIFICATION FairSpec
CONSTANTS
    Files = {1, 2, 3, 4, 5}
    FirstPage = {1, 3}
    Size <- OneLarge
    Caps <- Steady
    LookbackDays = 3
    Runs = {r1}
    LateDays <- FirstDay
    Faults <- OneSeamThenAny
    Damageable <- NoManifest
INVARIANTS
    TypeOK
    DuplicatesRecoverable
    CleanAfterWindow
PROPERTIES
    EventuallyExactlyOnce
    MergesAreAtomic
CHECK_DEADLOCK FALSE
