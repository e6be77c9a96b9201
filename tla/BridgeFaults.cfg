SPECIFICATION FairBridgeSpec
CONSTANTS
    Sessions = {s1, s2, s3}
    Rounds <- SentRounds
    Policies <- SentPolicies
    Requests = {1}
    Sequences <- SentSequences
    DeadlineTicks = 0
    HoldTicks = 3
    MaxPaperLosses = 1
    Faults = {"paper_loss", "late_action", "write_error", "client_stop"}
    TrainerRounds = {1}
    TrainerPolicies = {0}
    MaxActions = 1
    MaxDials = 2
    MaxTurns = 2
    TrainerFaults = {"handshake_timeout", "trainer_timeout", "trainer_gone"}
INVARIANTS
    KeysFollowAction
    LearntActionsWereHeld
    TalkFollowsSession
PROPERTIES
    NeverLeftWaiting
CHECK_DEADLOCK FALSE
