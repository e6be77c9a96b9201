SPECIFICATION BridgeSpec
CONSTANTS
    Sessions = {s1, s2}
    Rounds <- SentRounds
    Policies <- SentPolicies
    Requests = {1}
    Sequences <- SentSequences
    DeadlineTicks = 0
    HoldTicks = 2
    MaxPaperLosses = 0
    Faults = {}
    TrainerRounds = {1}
    TrainerPolicies = {0}
    MaxActions = 1
    MaxDials = 1
    MaxTurns = 2
    TrainerFaults = {}
INVARIANTS
    EndsAreLearnt
CHECK_DEADLOCK FALSE
