\* A run dies before its manifest is written and a late upload lands.
SPECIFICATION Spec
CONSTANTS
    Files = {1, 2, 3}
    FirstPage = {1}
    Size <- UnitSize
    Caps <- Steady
    LookbackDays = 2
    Runs = {r1}
    LateDays <- FirstDay
    Faults <- Always
    Damageable <- NoManifest
INVARIANTS
    MergedOnce
CHECK_DEADLOCK FALSE
