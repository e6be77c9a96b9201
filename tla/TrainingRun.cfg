SPECIFICATION TrainSpec
CONSTANTS
    Clients = {c1, c2}
    Versions = {0, 1, 2}
    DriveRounds = 1
    MaxRounds = 4
    PoolFaults = {"client_fails", "optimizer_fails", "startup_timeout", "same_player", "split_round"}
    RolloutLength = 2
    Updates = 2
INVARIANTS
    AbortsHaveCause
    RolloutOfOnePolicy
    StartsMarkRounds
CHECK_DEADLOCK FALSE
