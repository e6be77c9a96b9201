SPECIFICATION SequencerSpec
CONSTANTS
    Sessions = {s1, s2}
    Rounds = {1, 2, 3}
    Policies = {0, 1}
    Requests = {1}
    Sequences = {0, 1, 2}
    DeadlineTicks = 1
SYMMETRY SessionSymmetry
INVARIANTS
    SequencerTypeOK
    PhaseFollowsEpisode
    KeptActionIsCurrent
    LiveOnlyInActiveRound
    EndedEpisodeRemembered
    RoundsAdvance
    MidRoundArmSkips
PROPERTIES
    SequencerKeepsContract
