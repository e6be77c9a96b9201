SPECIFICATION BridgeSpec
CONSTANTS
    Sessions = {s1, s2, s3}
    Rounds <- SentRounds
    Policies <- SentPolicies
    Requests = {1}
    Sequences <- SentSequences
    DeadlineTicks = 0
    HoldTicks = 2
    MaxPaperLosses = 0
    Faults = {}
    TrainerRounds = {1}
    TrainerPolicies = {0}
    MaxActions = 1
    MaxDials = 2
    MaxTurns = 2
    TrainerFaults = {"handshake_timeout"}
INVARIANTS
    OneSessionPerConnection
CHECK_DEADLOCK FALSE
