SPECIFICATION RendererSpec
CONSTANTS
    Batches = {b1, b2}
    Replays = 2
INVARIANTS
    OutputsAreWhole
    OneMinecraft
    ManifestAccounts
PROPERTIES
    BatchesEnd
CHECK_DEADLOCK FALSE
