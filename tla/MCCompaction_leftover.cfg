\* A byte cap that a batch of MinFiles files does not fit.
SPECIFICATION Spec
CONSTANTS
    Files = {1, 2, 3, 4}
    FirstPage = {1}
    Size <- TwoEach
    Caps <- Tight
    LookbackDays = 2
    Runs = {r1}
    LateDays <- NoDays
    Faults <- Never
    Damageable <- NoManifest
INVARIANTS
    LeftoverBelowMinimum
CHECK_DEADLOCK FALSE
