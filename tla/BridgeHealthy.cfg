SPECIFICATION FairBridgeSpec
CONSTANTS
    Sessions = {s1, s2}
    Rounds <- SentRounds
    Policies <- SentPolicies
    Requests = {1}
    Sequences <- SentSequences
    DeadlineTicks = 0
    HoldTicks = 2
    MaxPaperLosses = 0
    Faults = {}
    TrainerRounds = {1, 2}
    TrainerPolicies = {0}
    MaxActions = 1
    MaxDials = 2
    MaxTurns = 2
    TrainerFaults = {}
INVARIANTS
    HealthyLinkNeverFails
    EndsCarryNoAction
PROPERTIES
    ArmedRoundIsPlayed
    ActionIsAnswered
CHECK_DEADLOCK FALSE
