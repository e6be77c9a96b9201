-------------------------- MODULE EpisodeContract --------------------------
(***************************************************************************)
(* What the Fabric client promises the trainer about one session, with the *)
(* packets, phases and skipping rules of RoundSequencer left out:          *)
(*                                                                         *)
(*   - an arm names a round above every round already played;             *)
(*   - only the armed round is ever played, one round at a time;           *)
(*   - while a round is played, one action at a time is outstanding, and   *)
(*     every observation is answered by at most one action;                *)
(*   - a round ends once; an action that was in flight when it ended is    *)
(*     dropped once, and none is dropped if one was outstanding.           *)
(*                                                                         *)
(* RoundSequencer!Contract is the refinement mapping.                      *)
(***************************************************************************)
EXTENDS Naturals

CONSTANT Rounds     \* the round sequence numbers a trainer may name, all positive

VARIABLES
    armed,          \* the round armed for the next start, 0 if none
    playing,        \* the round being played, 0 if none
    last,           \* the highest round started since the last reset
    held,           \* actions held to completion in the round being played
    outstanding,    \* an action was accepted and is not yet complete
    late            \* one action for the ended round may still be in flight

contractVars == <<armed, playing, last, held, outstanding, late>>

ContractTypeOK ==
    /\ armed \in Rounds \cup {0}
    /\ playing \in Rounds \cup {0}
    /\ last \in Rounds \cup {0}
    /\ held \in Nat
    /\ outstanding \in BOOLEAN
    /\ late \in BOOLEAN

ContractInit ==
    /\ armed = 0
    /\ playing = 0
    /\ last = 0
    /\ held = 0
    /\ outstanding = FALSE
    /\ late = FALSE

-----------------------------------------------------------------------------

\* A new session, or a failure: every promise of the old episode is void.
Reset ==
    /\ armed' = 0
    /\ playing' = 0
    /\ last' = 0
    /\ held' = 0
    /\ outstanding' = FALSE
    /\ late' = FALSE

ArmRound(r) ==
    /\ armed = 0
    /\ playing = 0
    /\ r > last
    /\ armed' = r
    /\ UNCHANGED <<playing, last, held, outstanding, late>>

StartRound ==
    /\ armed # 0
    /\ playing = 0
    /\ playing' = armed
    /\ last' = armed
    /\ armed' = 0
    /\ UNCHANGED <<held, outstanding, late>>

AcceptAction ==
    /\ playing # 0
    /\ ~outstanding
    /\ outstanding' = TRUE
    /\ UNCHANGED <<armed, playing, last, held, late>>

HoldAction ==
    /\ outstanding
    /\ held' = held + 1
    /\ outstanding' = FALSE
    /\ UNCHANGED <<armed, playing, last, late>>

EndRound ==
    /\ playing # 0
    /\ playing' = 0
    /\ held' = 0
    /\ outstanding' = FALSE
    /\ late' = ~outstanding
    /\ UNCHANGED <<armed, last>>

DropLateAction ==
    /\ late
    /\ late' = FALSE
    /\ UNCHANGED <<armed, playing, last, held, outstanding>>

ContractNext ==
    \/ Reset
    \/ \E r \in Rounds : ArmRound(r)
    \/ StartRound
    \/ AcceptAction
    \/ HoldAction
    \/ EndRound
    \/ DropLateAction

ContractSpec == ContractInit /\ [][ContractNext]_contractVars

=============================================================================
