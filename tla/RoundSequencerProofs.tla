------------------------ MODULE RoundSequencerProofs ------------------------
(***************************************************************************)
(* RoundSequencer's invariants and its refinement of EpisodeContract, for  *)
(* all sessions, rounds, policies, sequence numbers and deadlines.         *)
(***************************************************************************)
EXTENDS RoundSequencer, TLAPS

\* The parts of the assumption the proofs use one at a time.
LEMMA DeadlineIsNat == DeadlineTicks \in Nat
  BY SequencerAssumption

\* Round sequences are positive.
LEMMA RoundsPositive == \A r \in Rounds : r \in Nat /\ r > 0
  BY SequencerAssumption

\* An arm has a positive round and its absence has round 0.
LEMMA ArmRounds ==
    /\ \A a \in Arms : a.round \in Rounds /\ a.round \in Nat /\ a.round > 0
    /\ NoArm.round = 0
<1>1. \A a \in Arms : a.round \in Rounds
  BY DEF Arms
<1>2. NoArm.round = 0
  BY DEF NoArm
<1> QED BY <1>1, <1>2, RoundsPositive

\* An arm is not the absence of one.
LEMMA ArmsArePresent == \A a \in Arms : a # NoArm
  BY ArmRounds

\* An action request is not the absence of one.
LEMMA ActionsArePresent == \A x \in Actions : x # NoAction
<1>1. \A x \in Actions : x.round > 0
  BY RoundsPositive DEF Actions
<1>2. NoAction.round = 0
  BY DEF NoAction
<1> QED BY <1>1, <1>2

-----------------------------------------------------------------------------
(* Types *)

\* The initial state has the types.
LEMMA InitTypeOK == SequencerInit => SequencerTypeOK
<1> SUFFICES ASSUME SequencerInit PROVE SequencerTypeOK
  OBVIOUS
<1> USE DEF SequencerInit
<1>1. obsAge \in 0..DeadlineTicks
  BY DeadlineIsNat
<1>2. phase \in SeqPhases
  BY DEF SeqPhases
<1> QED BY <1>1, <1>2 DEF SequencerTypeOK

\* Every action keeps the types, one step per action of SequencerNext.
LEMMA StepTypeOK ==
    ASSUME SequencerTypeOK, [SequencerNext]_seqVars
    PROVE  SequencerTypeOK'
<1> USE DeadlineIsNat DEF SequencerTypeOK, SeqPhases, armVars, actionVars, counterVars,
        completedVars, flagVars
<1>1. ASSUME NEW s \in Sessions, StartSession(s) PROVE SequencerTypeOK'
  BY <1>1 DEF StartSession
<1>2. ASSUME DropEpisode, latest' \in Packets \cup {NoPacket} PROVE SequencerTypeOK'
  BY <1>2 DEF DropEpisode, NothingKept
<1>3. ASSUME Abort PROVE SequencerTypeOK'
  BY <1>2, <1>3 DEF Abort
<1>4. ASSUME NEW s \in Sessions, NEW a \in Arms, ReceiveArm(s, a) PROVE SequencerTypeOK'
  <2>1. CASE ArmAccepted(s, a)
    BY <2>1 DEF ArmAccepted, ServerMidRound
  <2>2. CASE ArmRepeated(s, a)
    BY <2>2 DEF ArmRepeated, seqVars
  <2>3. CASE ArmRefused(s, a)
    BY <2>3, <1>3 DEF ArmRefused
  <2> QED BY <1>4, <2>1, <2>2, <2>3 DEF ReceiveArm
<1>5. ASSUME NEW p \in Packets, ReceivePacket(p) PROVE SequencerTypeOK'
  <2>1. CASE ReceiveInactive(p)
    BY <2>1 DEF ReceiveInactive, RoundForgotten
  <2>2. CASE ReceiveCountdown(p)
    <3>1. latest' = p /\ countdownSeen' \in BOOLEAN /\ phase' \in SeqPhases
      BY <2>2 DEF ReceiveCountdown
    <3> QED BY <2>2, <3>1 DEF ReceiveCountdown
  <2>3. CASE PlayerEliminated(p)
    BY <2>3 DEF PlayerEliminated, MarkTerminal, RememberEpisode, ActionInFlight
  <2>4. CASE RoundContinues(p)
    BY <2>4 DEF RoundContinues, KeepSequencing
  <2>5. CASE ActiveRoundSkipped(p)
    BY <2>5 DEF ActiveRoundSkipped, SkipRound
  <2>6. CASE EpisodeStarted(p)
    <3>1. /\ latest' = p
          /\ activeArm' = pendingArm
          /\ pendingArm' = NoArm
          /\ obsSeq' = 0 /\ actSeq' = 0
          /\ terminalReported' = FALSE
          /\ phase' = "WAITING_ACTION"
          /\ UNCHANGED <<session, completedArm, actionVars, completedVars, flagVars>>
      BY <2>6 DEF EpisodeStarted
    <3>2. obsAge' \in 0..DeadlineTicks
      BY <2>6 DEF EpisodeStarted
    <3> QED BY <3>1, <3>2
  <2>7. CASE CompleteRoundSkipped(p)
    BY <2>7 DEF CompleteRoundSkipped, SkipRound
  <2>8. CASE RoundCompleted(p)
    BY <2>8 DEF RoundCompleted, MarkTerminal, RememberEpisode, ActionInFlight
  <2>9. CASE CompletionRepeated(p)
    BY <2>9 DEF CompletionRepeated, KeepSequencing
  <2>10. CASE PacketRefused(p)
    BY <2>10, <1>2 DEF PacketRefused
  <2> QED BY <1>5, <2>1, <2>2, <2>3, <2>4, <2>5, <2>6, <2>7, <2>8, <2>9, <2>10 DEF ReceivePacket
<1>6. ASSUME NEW s \in Sessions, NEW x \in Actions, ReceiveAction(s, x) PROVE SequencerTypeOK'
  <2>1. CASE LateActionDropped(s, x)
    BY <2>1 DEF LateActionDropped
  <2>2. CASE ActionQueued(s, x)
    BY <2>2 DEF ActionQueued
  <2>3. CASE ActionRefused(s, x)
    BY <2>3, <1>3 DEF ActionRefused
  <2> QED BY <1>6, <2>1, <2>2, <2>3 DEF ReceiveAction
<1>7. ASSUME BeginAction PROVE SequencerTypeOK'
  BY <1>7 DEF BeginAction
<1>8. ASSUME CompleteAction PROVE SequencerTypeOK'
  BY <1>8 DEF CompleteAction
<1>9. ASSUME TickPasses PROVE SequencerTypeOK'
  BY <1>9 DEF TickPasses
<1>10. ASSUME DeadlineMissed PROVE SequencerTypeOK'
  BY <1>10, <1>3 DEF DeadlineMissed
<1>11. ASSUME UNCHANGED seqVars PROVE SequencerTypeOK'
  BY <1>11 DEF seqVars
<1> QED
  BY <1>1, <1>3, <1>4, <1>5, <1>6, <1>7, <1>8, <1>9, <1>10, <1>11 DEF SequencerNext

\* Types: every variable of the sequencer keeps its type in every behaviour.
THEOREM SequencerTypeCorrect == SequencerSpec => []SequencerTypeOK
  BY InitTypeOK, StepTypeOK, PTL DEF SequencerSpec

-----------------------------------------------------------------------------
(* The inductive invariant *)

\* The conjuncts of SequencerInv besides the types.
SequencerSafety ==
    /\ PhaseFollowsEpisode
    /\ KeptActionIsCurrent
    /\ LiveOnlyInActiveRound
    /\ EndedEpisodeRemembered
    /\ RoundsAdvance
    /\ MidRoundArmSkips
    /\ ObservationsCountActions

\* The initial state satisfies the invariant.
LEMMA InitInv == SequencerInit => SequencerInv
<1> SUFFICES ASSUME SequencerInit PROVE SequencerSafety
  BY InitTypeOK DEF SequencerInv, SequencerSafety
<1> QED
  BY DEF SequencerInit, SequencerSafety, PhaseFollowsEpisode, KeptActionIsCurrent,
         LiveOnlyInActiveRound, EndedEpisodeRemembered, RoundsAdvance, MidRoundArmSkips,
         ObservationsCountActions, EpisodeLive

\* Every action keeps the invariant; DropEpisode is the end of every refusal.
LEMMA StepInv ==
    ASSUME SequencerInv, [SequencerNext]_seqVars
    PROVE  SequencerInv'
<1>1. SequencerTypeOK /\ SequencerTypeOK'
  BY StepTypeOK DEF SequencerInv
<1> SUFFICES SequencerSafety'
  BY <1>1 DEF SequencerInv, SequencerSafety
<1>2. SequencerSafety
  BY DEF SequencerInv, SequencerSafety
<1> USE DEF SequencerSafety, PhaseFollowsEpisode, KeptActionIsCurrent,
         LiveOnlyInActiveRound, EndedEpisodeRemembered, RoundsAdvance, MidRoundArmSkips,
         ObservationsCountActions, EpisodeLive, ServerMidRound, PreviousRound, Answers, ForActiveRound,
         armVars, actionVars, counterVars, completedVars, flagVars
<1>3. ASSUME NEW s \in Sessions, StartSession(s) PROVE SequencerSafety'
  BY <1>1, <1>2, <1>3, ArmRounds, ArmsArePresent DEF StartSession
<1>4. ASSUME DropEpisode PROVE SequencerSafety'
  BY <1>1, <1>2, <1>4, ArmRounds, ArmsArePresent DEF DropEpisode, NothingKept
<1>5. ASSUME Abort PROVE SequencerSafety'
  BY <1>4, <1>5 DEF Abort
<1>6. ASSUME NEW s \in Sessions, NEW a \in Arms, ReceiveArm(s, a) PROVE SequencerSafety'
  <2>1. CASE ArmAccepted(s, a)
    BY <1>1, <1>2, <2>1, ArmRounds, ArmsArePresent DEF ArmAccepted, Armable
  <2>2. CASE ArmRepeated(s, a)
    BY <1>1, <1>2, <2>2, ArmRounds, ArmsArePresent DEF ArmRepeated, seqVars
  <2>3. CASE ArmRefused(s, a)
    BY <2>3, <1>5 DEF ArmRefused
  <2> QED BY <1>6, <2>1, <2>2, <2>3 DEF ReceiveArm
<1>7. ASSUME NEW p \in Packets, ReceivePacket(p) PROVE SequencerSafety'
  <2>1. CASE ReceiveInactive(p)
    BY <1>1, <1>2, <2>1, ArmRounds, ArmsArePresent DEF ReceiveInactive, RoundForgotten, InactiveTooEarly
  <2>2. CASE ReceiveCountdown(p)
    BY <1>1, <1>2, <2>2, ArmRounds, ArmsArePresent DEF ReceiveCountdown
  <2>3. CASE PlayerEliminated(p)
    BY <1>1, <1>2, <2>3, ArmRounds, ArmsArePresent DEF PlayerEliminated, MarkTerminal, RememberEpisode, ActionInFlight
  <2>4. CASE RoundContinues(p)
    BY <1>1, <1>2, <2>4, ArmRounds, ArmsArePresent DEF RoundContinues, KeepSequencing
  <2>5. CASE ActiveRoundSkipped(p)
    BY <1>1, <1>2, <2>5, ArmRounds, ArmsArePresent DEF ActiveRoundSkipped, SkipRound
  <2>6. CASE EpisodeStarted(p)
    BY <1>1, <1>2, <2>6, ArmRounds, ArmsArePresent DEF EpisodeStarted, CountdownFollowed
  <2>7. CASE CompleteRoundSkipped(p)
    BY <1>1, <1>2, <2>7, ArmRounds, ArmsArePresent DEF CompleteRoundSkipped, SkipRound
  <2>8. CASE RoundCompleted(p)
    BY <1>1, <1>2, <2>8, ArmRounds, ArmsArePresent DEF RoundCompleted, MarkTerminal, RememberEpisode, ActionInFlight
  <2>9. CASE CompletionRepeated(p)
    BY <1>1, <1>2, <2>9, ArmRounds, ArmsArePresent DEF CompletionRepeated, KeepSequencing
  <2>10. CASE PacketRefused(p)
    BY <2>10, <1>4 DEF PacketRefused
  <2> QED BY <1>7, <2>1, <2>2, <2>3, <2>4, <2>5, <2>6, <2>7, <2>8, <2>9, <2>10 DEF ReceivePacket
<1>8. ASSUME NEW s \in Sessions, NEW x \in Actions, ReceiveAction(s, x) PROVE SequencerSafety'
  <2>1. CASE LateActionDropped(s, x)
    BY <1>1, <1>2, <2>1, ArmRounds, ArmsArePresent DEF LateActionDropped
  <2>2. CASE ActionQueued(s, x)
    BY <1>1, <1>2, <2>2, ArmRounds, ArmsArePresent, ActionsArePresent DEF ActionQueued, ExpectedAction
  <2>3. CASE ActionRefused(s, x)
    BY <2>3, <1>5 DEF ActionRefused
  <2> QED BY <1>8, <2>1, <2>2, <2>3 DEF ReceiveAction
<1>9. ASSUME BeginAction PROVE SequencerSafety'
  BY <1>1, <1>2, <1>9, ArmRounds, ArmsArePresent DEF BeginAction
<1>10. ASSUME CompleteAction PROVE SequencerSafety'
  BY <1>1, <1>2, <1>10, ArmRounds, ArmsArePresent DEF CompleteAction
<1>11. ASSUME TickPasses PROVE SequencerSafety'
  BY <1>1, <1>2, <1>11, ArmRounds, ArmsArePresent DEF TickPasses
<1>12. ASSUME DeadlineMissed PROVE SequencerSafety'
  BY <1>12, <1>5 DEF DeadlineMissed
<1>13. ASSUME UNCHANGED seqVars PROVE SequencerSafety'
  BY <1>2, <1>13 DEF seqVars
<1> QED
  BY <1>3, <1>5, <1>6, <1>7, <1>8, <1>9, <1>10, <1>11, <1>12, <1>13 DEF SequencerNext

\* The inductive invariant holds in every behaviour.
LEMMA InvariantHolds == SequencerSpec => []SequencerInv
  BY InitInv, StepInv, PTL DEF SequencerSpec

\* No action outlives the observation it answers: whatever packets, arms,
\* actions and failures interleave with it, an action that queueAction accepted
\* or beginAction holds is for the live round and its current observation.
THEOREM KeptActionsAreCurrent == SequencerSpec => []KeptActionIsCurrent
<1>1. SequencerInv => KeptActionIsCurrent
  BY DEF SequencerInv
<1> QED BY InvariantHolds, <1>1, PTL

\* Actions are requested and held exactly while an episode is live, in every phase
\* and after every way a session, an arm or a round can end.
THEOREM PhasesFollowEpisodes == SequencerSpec => []PhaseFollowsEpisode
<1>1. SequencerInv => PhaseFollowsEpisode
  BY DEF SequencerInv
<1> QED BY InvariantHolds, <1>1, PTL

\* An episode is live only while the last packet received says that its round is
\* active with this client in it.
THEOREM LivesInActiveRound == SequencerSpec => []LiveOnlyInActiveRound
<1>1. SequencerInv => LiveOnlyInActiveRound
  BY DEF SequencerInv
<1> QED BY InvariantHolds, <1>1, PTL

\* The memory of an ended episode that the late action of a race is checked
\* against is the episode's own, as long as it lasts.
THEOREM EndedEpisodesAreRemembered == SequencerSpec => []EndedEpisodeRemembered
<1>1. SequencerInv => EndedEpisodeRemembered
  BY DEF SequencerInv
<1> QED BY InvariantHolds, <1>1, PTL

\* Armed, live and completed rounds are ordered, so an action for the live round
\* is never consumed as the late action of the completed one.
THEOREM RoundsAlwaysAdvance == SequencerSpec => []RoundsAdvance
<1>1. SequencerInv => RoundsAdvance
  BY DEF SequencerInv
<1> QED BY InvariantHolds, <1>1, PTL

\* A round that was already under way when the arm arrived, or that the server
\* entered while it waited, is skipped.
THEOREM MidRoundArmsSkip == SequencerSpec => []MidRoundArmSkips
<1>1. SequencerInv => MidRoundArmSkips
  BY DEF SequencerInv
<1> QED BY InvariantHolds, <1>1, PTL

-----------------------------------------------------------------------------
(* The refinement of EpisodeContract *)

\* The initial state maps to the contract's.
LEMMA InitRefines == SequencerInit => Contract!ContractInit
  BY ArmRounds DEF SequencerInit, Contract!ContractInit, EpisodeLive, PreviousRound

\* Under the invariant every step is a contract step or stutters there.
LEMMA StepRefines ==
    ASSUME SequencerInv, SequencerInv', [SequencerNext]_seqVars
    PROVE  [Contract!ContractNext]_(Contract!contractVars)
<1>1. SequencerTypeOK /\ SequencerTypeOK'
  BY DEF SequencerInv
<1>2. SequencerSafety /\ SequencerSafety'
  BY DEF SequencerInv, SequencerSafety
<1> DEFINE Goal == [Contract!ContractNext]_(Contract!contractVars)
           Stutter == UNCHANGED Contract!contractVars
<1> SUFFICES Goal
  OBVIOUS
<1>0. Stutter => Goal
  OBVIOUS
<1> USE DEF SequencerSafety, PhaseFollowsEpisode, KeptActionIsCurrent,
         LiveOnlyInActiveRound, EndedEpisodeRemembered, RoundsAdvance, 
         EpisodeLive, ServerMidRound, PreviousRound,
         armVars, actionVars, counterVars, completedVars, flagVars
<1>3. ASSUME NEW s \in Sessions, StartSession(s) PROVE Contract!Reset
  BY <1>3, ArmRounds DEF StartSession, Contract!Reset
<1>4. ASSUME DropEpisode PROVE Contract!Reset
  BY <1>4, ArmRounds DEF DropEpisode, NothingKept, Contract!Reset
<1>5. ASSUME Abort PROVE Contract!Reset
  BY <1>4, <1>5 DEF Abort
<1>6. ASSUME MarkTerminal, EpisodeLive PROVE Contract!EndRound
  <2>1. activeArm \in Arms /\ activeArm.round > 0
    BY <1>1, <1>6, ArmRounds DEF SequencerTypeOK
  <2>2. (completedArm' # NoArm /\ ~raceConsumed') <=> ~(queuedAction # NoAction \/ runningAction # NoAction)
    BY <1>6 DEF MarkTerminal, RememberEpisode, ActionInFlight
  <2>3. ~EpisodeLive' /\ activeArm' = activeArm /\ pendingArm' = pendingArm
    BY <1>6 DEF MarkTerminal, RememberEpisode, ActionInFlight
  <2>4. activeArm' # NoArm /\ queuedAction' = NoAction /\ runningAction' = NoAction
    BY <1>6 DEF MarkTerminal, RememberEpisode, ActionInFlight
  <2> QED BY <1>6, <2>1, <2>2, <2>3, <2>4 DEF Contract!EndRound
<1>7. ASSUME NEW s \in Sessions, NEW a \in Arms, ReceiveArm(s, a) PROVE Goal
  <2>1. CASE ArmAccepted(s, a)
    <3>1. Contract!ArmRound(a.round)
      BY <1>1, <1>2, <2>1, ArmRounds, ArmsArePresent
         DEF ArmAccepted, Armable, Contract!ArmRound
    <3>2. a.round \in Rounds
      BY ArmRounds
    <3> QED BY <3>1, <3>2 DEF Contract!ContractNext
  <2>2. CASE ArmRepeated(s, a)
    BY <2>2 DEF ArmRepeated, seqVars, Contract!contractVars
  <2>3. CASE ArmRefused(s, a)
    BY <2>3, <1>5 DEF ArmRefused, Contract!ContractNext
  <2> QED BY <1>7, <2>1, <2>2, <2>3 DEF ReceiveArm
<1>8. ASSUME NEW p \in Packets, ReceivePacket(p) PROVE Goal
  <2>1. CASE ReceiveInactive(p)
    <3>1. Stutter
      BY <1>1, <1>2, <2>1, ArmRounds, ArmsArePresent DEF ReceiveInactive, RoundForgotten, InactiveTooEarly, Contract!contractVars
    <3> QED BY <3>1
  <2>2. CASE ReceiveCountdown(p)
    <3>1. Stutter
      BY <1>1, <1>2, <2>2, ArmRounds, ArmsArePresent DEF ReceiveCountdown, Contract!contractVars
    <3> QED BY <3>1
  <2>3. CASE PlayerEliminated(p)
    <3>1. MarkTerminal /\ EpisodeLive
      BY <2>3 DEF PlayerEliminated
    <3>2. Contract!EndRound
      BY <3>1, <1>6
    <3> QED BY <3>2 DEF Contract!ContractNext
  <2>4. CASE RoundContinues(p)
    <3>1. Stutter
      BY <1>1, <1>2, <2>4, ArmRounds, ArmsArePresent DEF RoundContinues, KeepSequencing, Contract!contractVars
    <3> QED BY <3>1
  <2>5. CASE ActiveRoundSkipped(p)
    <3>1. Stutter
      BY <1>1, <1>2, <2>5, ArmRounds, ArmsArePresent DEF ActiveRoundSkipped, SkipRound, Contract!contractVars
    <3> QED BY <3>1
  <2>6. CASE EpisodeStarted(p)
    <3>1. pendingArm \in Arms /\ pendingArm.round > 0
      BY <1>1, <2>6, ArmRounds DEF EpisodeStarted, CountdownFollowed, SequencerTypeOK
    <3>2. activeArm' # NoArm /\ EpisodeLive' /\ actSeq' = 0
      BY <2>6, <3>1, ArmsArePresent DEF EpisodeStarted
    <3>3. activeArm = NoArm /\ pendingArm' = NoArm /\ activeArm' = pendingArm
      BY <2>6 DEF EpisodeStarted
    <3>4. UNCHANGED <<queuedAction, runningAction, completedArm, raceConsumed>>
      BY <2>6 DEF EpisodeStarted
    <3>5. Contract!StartRound
      BY <3>1, <3>2, <3>3, <3>4, ArmRounds DEF Contract!StartRound
    <3> QED BY <3>5 DEF Contract!ContractNext
  <2>7. CASE CompleteRoundSkipped(p)
    <3>1. Stutter
      BY <1>1, <1>2, <2>7, ArmRounds, ArmsArePresent DEF CompleteRoundSkipped, SkipRound, Contract!contractVars
    <3> QED BY <3>1
  <2>8. CASE RoundCompleted(p)
    <3>1. MarkTerminal /\ EpisodeLive
      BY <2>8 DEF RoundCompleted
    <3>2. Contract!EndRound
      BY <3>1, <1>6
    <3> QED BY <3>2 DEF Contract!ContractNext
  <2>9. CASE CompletionRepeated(p)
    <3>1. Stutter
      BY <1>1, <1>2, <2>9, ArmRounds, ArmsArePresent DEF CompletionRepeated, KeepSequencing, Contract!contractVars
    <3> QED BY <3>1
  <2>10. CASE PacketRefused(p)
    BY <2>10, <1>4 DEF PacketRefused, Contract!ContractNext
  <2> QED BY <1>8, <2>1, <2>2, <2>3, <2>4, <2>5, <2>6, <2>7, <2>8, <2>9, <2>10 DEF ReceivePacket
<1>9. ASSUME NEW s \in Sessions, NEW x \in Actions, ReceiveAction(s, x) PROVE Goal
  <2>1. CASE LateActionDropped(s, x)
    <3>1. Contract!DropLateAction
      BY <1>1, <1>2, <2>1, ArmRounds, ArmsArePresent
         DEF LateActionDropped, LateAction, ForCompletedRound, Contract!DropLateAction
    <3> QED BY <3>1 DEF Contract!ContractNext
  <2>2. CASE ActionQueued(s, x)
    <3>1. EpisodeLive /\ queuedAction = NoAction /\ runningAction = NoAction
      BY <1>2, <2>2 DEF ActionQueued, ExpectedAction
    <3>2. activeArm \in Arms /\ activeArm.round > 0
      BY <1>1, <3>1, ArmRounds DEF SequencerTypeOK
    <3>3. queuedAction' # NoAction
      BY <2>2, ActionsArePresent DEF ActionQueued
    <3>4. UNCHANGED <<armVars, terminalReported, actSeq, raceConsumed>>
      BY <2>2 DEF ActionQueued
    <3>5. Contract!AcceptAction
      BY <3>1, <3>2, <3>3, <3>4 DEF Contract!AcceptAction
    <3> QED BY <3>5 DEF Contract!ContractNext
  <2>3. CASE ActionRefused(s, x)
    BY <2>3, <1>5 DEF ActionRefused, Contract!ContractNext
  <2> QED BY <1>9, <2>1, <2>2, <2>3 DEF ReceiveAction
<1>10. ASSUME BeginAction PROVE Goal
  <2>1. Stutter
    BY <1>1, <1>2, <1>10 DEF BeginAction, Contract!contractVars
  <2> QED BY <2>1
<1>11. ASSUME CompleteAction PROVE Goal
  <2>1. Contract!HoldAction
    BY <1>1, <1>2, <1>11, ArmRounds DEF CompleteAction, Contract!HoldAction
  <2> QED BY <2>1 DEF Contract!ContractNext
<1>12. ASSUME TickPasses PROVE Goal
  <2>1. Stutter
    BY <1>12 DEF TickPasses, Contract!contractVars
  <2> QED BY <2>1
<1>13. ASSUME DeadlineMissed PROVE Goal
  BY <1>13, <1>5 DEF DeadlineMissed, Contract!ContractNext
<1>14. ASSUME UNCHANGED seqVars PROVE Goal
  <2>1. Stutter
    BY <1>14 DEF seqVars, Contract!contractVars
  <2> QED BY <2>1
<1>15. (\E s \in Sessions : StartSession(s)) \/ Abort => Goal
  BY <1>3, <1>5 DEF Contract!ContractNext
<1> HIDE DEF Goal
<1> QED
  BY <1>7, <1>8, <1>9, <1>10, <1>11, <1>12, <1>13, <1>14, <1>15 DEF SequencerNext

\* The sequencer implements the contract with the trainer: rounds advance, one
\* episode at a time, one action per observation, one late action at most.
THEOREM SequencerRefinesContract == SequencerSpec => SequencerKeepsContract
<1>1. SequencerInv /\ SequencerInv' /\ [SequencerNext]_seqVars
        => [Contract!ContractNext]_(Contract!contractVars)
  BY StepRefines
<1> QED
  BY <1>1, InvariantHolds, InitRefines, PTL
     DEF SequencerSpec, SequencerKeepsContract, Contract!ContractSpec

=============================================================================
