SPECIFICATION EntrypointSpec
CONSTANTS
    Required = {c1, c2}
    MaxPlayers = 2
    MaxOthers = 1
    MaxGenerations = 2
INVARIANTS
    ReadyIsEarned
    ExitsCleanly
PROPERTIES
    AbsenceEndsReadiness
    DepartureEndsReadiness
    FailureEndsContainer
CHECK_DEADLOCK FALSE
