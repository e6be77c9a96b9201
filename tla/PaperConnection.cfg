SPECIFICATION PaperConnectionSpec
CONSTANTS
    InitialTicks = 5
    MaximumTicks = 12
    AttemptTimeoutTicks = 12
    LongBits = 6
    MaxAttempts = 5
INVARIANTS
    SilenceIsBounded
PROPERTIES
    PausesGrow
    ReturnsToPaper
