\* Two runs overlap, of deployments that differ, while late uploads land and
\* a manifest gets damaged.
SPECIFICATION Spec
CONSTANTS
    Files = {1, 2, 3}
    FirstPage = {1}
    Size <- UnitSize
    Caps <- Changing
    LookbackDays = 1
    Runs = {r1, r2}
    LateDays <- FirstDay
    Faults <- Always
    Damageable <- OneManifest
SYMMETRY RunSymmetry
INVARIANTS
    ManifestVouched
PROPERTIES
    QueriesSeeEveryRow
    OutputsKept
CHECK_DEADLOCK FALSE
