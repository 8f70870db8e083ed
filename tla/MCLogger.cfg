\* Three tasks and two loggers.
SPECIFICATION Spec
CONSTANTS
    Root = root
    Others = {t1, t2}
    Names = {log, other}
    Programs <- ProgramsMC
INVARIANTS
    TypeOK
    Isolation
    OneIdPerRun
    LevelGoverns
    RoundTrip
CHECK_DEADLOCK FALSE
