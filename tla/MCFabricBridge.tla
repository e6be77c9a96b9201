--------------------------- MODULE MCFabricBridge ---------------------------
(***************************************************************************)
(* Small bridges for TLC.  The client draws its sets from what the trainer *)
(* of the instance can send.                                               *)
(***************************************************************************)
EXTENDS FabricBridge

\* The numbers action requests carry: MaxActions answers and the late one.
SentSequences == 0..(MaxActions + 1)
SentRounds == TrainerRounds
SentPolicies == TrainerPolicies

=============================================================================
