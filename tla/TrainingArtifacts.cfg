SPECIFICATION ArtifactSpec
CONSTANTS
    Clients = {c1, c2}
    NoPlayer = none
    Outsiders = {p1}
    Directions = {"UP", "DOWN"}
    Distances = {1}
    MaxClock = 1
    MaxServerRounds = 2
    Updates = 2
    MaxTrainingRounds = 3
    EvaluationRounds = 1
SYMMETRY PoolSymmetry
INVARIANTS
    SharedRoundIsReconciled
    CheckpointsAreWhole
    JournalIsBacked
    SummaryIsTrue
    PromotionIsEarned
PROPERTIES
    ArchivesMoveOn
CHECK_DEADLOCK FALSE
