SPECIFICATION BridgeSpec
CONSTANTS
    Sessions = {s1, s2}
    Rounds <- SentRounds
    Policies <- SentPolicies
    Requests = {1}
    Sequences <- SentSequences
    DeadlineTicks = 0
    HoldTicks = 2
    MaxPaperLosses = 0
    Faults = {"write_error"}
    TrainerRounds = {1}
    TrainerPolicies = {0}
    MaxActions = 1
    MaxDials = 1
    MaxTurns = 2
    TrainerFaults = {"trainer_gone"}
INVARIANTS
    NoHandlerDies
CHECK_DEADLOCK FALSE
