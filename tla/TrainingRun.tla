----------------------------- MODULE TrainingRun -----------------------------
(***************************************************************************)
(* training.py, train(): a pool driven until the policy has been updated a *)
(* number of times, the rollout that its transitions fill (rollout.py) and *)
(* the optimiser thread.  receive_transition and boundary run on the       *)
(* driving thread, inside drive(); the optimiser thread hands its result   *)
(* over in a queue of size one that only the boundary reads.  The contents *)
(* of transitions and the optimisation itself are left out.                *)
(***************************************************************************)
EXTENDS ClientPool

CONSTANTS
    RolloutLength,      \* rollout_length, 256 in the defaults
    Updates             \* updates

ASSUME TrainingAssumption ==
    /\ RolloutLength \in Nat \ {0}
    /\ Updates \in Nat \ {0}
    /\ 0..Updates \subseteq Versions

VARIABLES
    collecting,         \* collector is not None
    rolloutPolicy,      \* collector.policy_version, of the last one if it is None
    kept,               \* the transitions of that collector, by client
    optimizing,         \* the optimiser thread is at work
    source,             \* the policy version it started from
    output,             \* optimizer_output: "none", "result" or "failure"
    active,             \* active.version
    updates             \* completed_updates

trainingVars == <<collecting, rolloutPolicy, kept, optimizing, source, output, active, updates>>
trainVars == <<poolVars, trainingVars>>

EmptyRollout == [c \in Clients |-> <<>>]

TrainInit ==
    /\ PoolInit
    /\ collecting = TRUE
    /\ rolloutPolicy = 0
    /\ kept = EmptyRollout
    /\ optimizing = FALSE
    /\ source = 0
    /\ output = "none"
    /\ active = 0
    /\ updates = 0

-----------------------------------------------------------------------------
(* RolloutCollector *)

\* What is kept of a transition: its round and episode_start, and by whom its
\* action was sampled.
Kept(e) == [round |-> e.round, start |-> e.start, by |-> e.by]

Add(e) ==
    IF Len(kept[e.client]) < RolloutLength
    THEN [kept EXCEPT ![e.client] = Append(@, Kept(e))]
    ELSE kept

Complete(k) == \A c \in Clients : Len(k[c]) = RolloutLength

\* add() refuses a transition of another version than the collector's.
MixesPolicies == collecting /\ policy # rolloutPolicy

\* receive_transition
ReceiveTransition(e) ==
    /\ ~MixesPolicies
    /\ UNCHANGED <<rolloutPolicy, output, active, updates>>
    /\ IF ~collecting
       THEN UNCHANGED <<collecting, kept, optimizing, source>>
       ELSE /\ kept' = Add(e)
            /\ collecting' = ~Complete(kept')
            /\ optimizing' = Complete(kept')
            /\ source' = IF Complete(kept') THEN active ELSE source

TrainingStep ==
    /\ NextEvent
    /\ Handled.kind = "step"
    /\ \/ ~Handled.valid /\ HandleStep /\ UNCHANGED trainingVars
       \/ Handled.valid /\ HandleStep /\ ReceiveTransition(Handled)
       \/ /\ Handled.valid /\ MixesPolicies
          /\ Fail("mixed")
          /\ UNCHANGED <<actorVars, events, trainingVars>>

-----------------------------------------------------------------------------
(* The optimiser thread *)

\* optimize_copy refuses a rollout of another version than its source.
OptimizerEnds ==
    /\ optimizing
    /\ output = "none"
    /\ optimizing' = FALSE
    /\ \/ rolloutPolicy = source /\ output' = "result"
       \/ rolloutPolicy # source /\ output' = "failure"
       \/ "optimizer_fails" \in PoolFaults /\ output' = "failure"
    /\ UNCHANGED <<poolVars, collecting, rolloutPolicy, kept, source, active, updates>>

-----------------------------------------------------------------------------
(* boundary *)

KeepPolicy ==
    /\ output = "none"
    /\ UNCHANGED trainingVars
    /\ BeginRound(active)
    /\ UNCHANGED roundsLeft

\* Mutant: the rollout stays the old policy's.
NextRolloutOldPolicy ==
    IF updates' < Updates
    THEN collecting' = TRUE /\ kept' = EmptyRollout /\ UNCHANGED rolloutPolicy
    ELSE UNCHANGED <<collecting, rolloutPolicy, kept>>

\* A new policy gets a rollout of its own unless it is the last.
NextRollout ==
    IF updates' < Updates
    THEN collecting' = TRUE /\ rolloutPolicy' = active' /\ kept' = EmptyRollout
    ELSE UNCHANGED <<collecting, rolloutPolicy, kept>>

AdoptPolicy ==
    /\ output = "result"
    /\ source = policy
    /\ output' = "none"
    /\ active' = source + 1
    /\ updates' = updates + 1
    /\ NextRollout
    /\ IF updates' < Updates THEN BeginRound(active') /\ UNCHANGED roundsLeft ELSE EndDrive
    /\ UNCHANGED <<optimizing, source>>

RefuseResult ==
    /\ \/ output = "failure" /\ Fail("optimizer")
       \/ output = "result" /\ source # policy /\ Fail("stale")
    /\ output' = "none"
    /\ UNCHANGED <<actorVars, events, collecting, rolloutPolicy, kept, optimizing, source, active,
                   updates>>

\* Mutant: a result that is ready is adopted in the middle of a round.
BoundaryAtOnce ==
    \/ driver = "boundary" /\ (KeepPolicy \/ AdoptPolicy \/ RefuseResult)
    \/ driver = "collecting" /\ AdoptPolicy

Boundary == driver = "boundary" /\ (KeepPolicy \/ AdoptPolicy \/ RefuseResult)

-----------------------------------------------------------------------------

StartTraining ==
    /\ driver = "idle"
    /\ updates = 0
    /\ BeginRound(active)
    /\ UNCHANGED <<roundsLeft, trainingVars>>

EndTraining == updates = Updates /\ Close /\ UNCHANGED trainingVars

ActorNext ==
    /\ \E c \in Clients : ThreadStep(c) \/ CallReturns(c) \/ EnvironmentFails(c)
    /\ UNCHANGED trainingVars

DriveNext == (DriverStep \/ StartupTimesOut) /\ UNCHANGED trainingVars

TrainNext ==
    \/ ActorNext
    \/ DriveNext
    \/ TrainingStep
    \/ OptimizerEnds
    \/ Boundary
    \/ StartTraining
    \/ EndTraining

TrainSpec == TrainInit /\ [][TrainNext]_trainVars

-----------------------------------------------------------------------------
(* Properties *)

\* Every transition of a rollout was sampled by the policy that the rollout is of,
\* however the optimiser's result falls between the rounds.
RolloutOfOnePolicy ==
    \A c \in Clients : \A i \in DOMAIN kept[c] : kept[c][i].by = rolloutPolicy

\* A client's transitions in a rollout are marked as starting an episode exactly
\* where their round changes, which is what the estimates of PPO are cut by.
StartsMarkRounds ==
    \A c \in Clients : \A i \in DOMAIN kept[c] :
        kept[c][i].start <=> (i = 1 \/ kept[c][i].round # kept[c][i - 1].round)

=============================================================================
