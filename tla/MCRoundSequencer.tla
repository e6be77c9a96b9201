-------------------------- MODULE MCRoundSequencer --------------------------
(* Constants for checking RoundSequencer on a small instance. *)
EXTENDS RoundSequencer, TLC

SessionSymmetry == Permutations(Sessions)

=============================================================================
