------------------------- MODULE MCTrainingArtifacts -------------------------
EXTENDS TrainingArtifacts, TLC

\* The clients of a pool are interchangeable.
PoolSymmetry == Permutations(Clients)

=============================================================================
