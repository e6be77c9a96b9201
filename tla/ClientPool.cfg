SPECIFICATION FairPoolSpec
CONSTANTS
    Clients = {c1, c2, c3}
    Versions = {0}
    DriveRounds = 2
    MaxRounds = 2
    PoolFaults = {"client_fails", "startup_timeout", "same_player"}
PROPERTIES
    SurvivorsAct
    FailureStopsAll
    PoolPlaysRounds
CHECK_DEADLOCK FALSE
