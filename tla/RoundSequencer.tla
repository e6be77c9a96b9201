--------------------------- MODULE RoundSequencer ---------------------------
(***************************************************************************)
(* core/RoundSequencer.java: the ordering state a Fabric client keeps for  *)
(* trainer arms, YRush lifecycle packets and actions.  One action per      *)
(* outcome of each public method.  A method that throws ProtocolViolation  *)
(* is always followed by abort(): YRushClient catches it in one place      *)
(* (protocolFailure), on the same thread, so each refusal is one step with *)
(* the abort in it.  Error codes and messages are abstracted away: all of  *)
(* them end the session in the same way.                                   *)
(*                                                                         *)
(* Any packet, arm or action may arrive at any time, as the methods check  *)
(* for themselves; FabricBridge composes this module with the code that    *)
(* really calls it.                                                        *)
(*                                                                         *)
(* A definition marked "Mutant" is what a slip in the code would make of   *)
(* the definition that follows it; no specification uses it.               *)
(***************************************************************************)
EXTENDS Naturals

CONSTANTS
    Sessions,       \* the session ids a client may draw (UUIDs in the code)
    Rounds,         \* round sequence numbers
    Policies,       \* policy versions
    Requests,       \* arm request ids
    Sequences,      \* observation and action sequence numbers requests carry
    DeadlineTicks   \* ticks an observation may wait for its action

NoSession == "NONE"     \* the blank session id the code starts with

ASSUME SequencerAssumption ==
    /\ NoSession \notin Sessions
    /\ Rounds \subseteq Nat \ {0}
    /\ Policies \subseteq Nat
    /\ Requests \subseteq Nat \ {0}
    /\ Sequences \subseteq Nat
    /\ DeadlineTicks \in Nat

SeqPhases == {"IDLE", "ARMED", "COUNTDOWN", "WAITING_ACTION", "ACTION_QUEUED",
              "ACTION_RUNNING", "TERMINAL", "SKIPPING", "ABORTED"}

Outcomes == {"WON", "LOST", "ELIMINATED", "DRAW", "STOPPED"}

\* An arm and its absence (null in the code); no real arm has round 0.
Arms == [request : Requests, round : Rounds, policy : Policies]
NoArm == [request |-> 0, round |-> 0, policy |-> 0]

\* An action request without its six choices.
Actions == [round : Rounds, policy : Policies, obs : Sequences, act : Sequences]
NoAction == [round |-> 0, policy |-> 0, obs |-> 0, act |-> 0]

\* The packets YRushPacket.parse lets through: player_outcome exactly when the
\* round is complete, and a player active only while the round is.
Packets ==
    [phase : {"LOCKED_COUNTDOWN", "ACTIVE"}, playerActive : BOOLEAN, outcome : {"NONE"}]
    \cup [phase : {"ROUND_COMPLETE"}, playerActive : {FALSE}, outcome : Outcomes]
    \cup [phase : {"INACTIVE"}, playerActive : {FALSE}, outcome : {"NONE"}]
NoPacket == [phase |-> "NONE", playerActive |-> FALSE, outcome |-> "NONE"]

VARIABLES
    session,            \* sessionId, NoSession before the first one
    pendingArm,         \* armed, waiting for its round to start
    activeArm,          \* the round being played, until it is cleaned up
    completedArm,       \* the last round that ended
    queuedAction,       \* accepted, to begin at the next tick
    runningAction,      \* being held
    latest,             \* latestPacket
    obsSeq,             \* observationSequence
    actSeq,             \* actionSequence
    obsAge,             \* clientTick - observationClientTick while an action is awaited
    completedObs,       \* completedObservationSequence
    completedAct,       \* completedActionSequence
    countdownSeen,
    skipUntilInactive,  \* skipPendingUntilInactive
    terminalReported,
    raceConsumed,       \* terminalRaceActionConsumed
    phase

armVars == <<pendingArm, activeArm, completedArm>>
actionVars == <<queuedAction, runningAction>>
counterVars == <<obsSeq, actSeq, obsAge>>
completedVars == <<completedObs, completedAct, raceConsumed>>
flagVars == <<countdownSeen, skipUntilInactive>>
seqVars == <<session, armVars, actionVars, latest, counterVars, completedVars,
             flagVars, terminalReported, phase>>

SequencerTypeOK ==
    /\ session \in Sessions \cup {NoSession}
    /\ pendingArm \in Arms \cup {NoArm}
    /\ activeArm \in Arms \cup {NoArm}
    /\ completedArm \in Arms \cup {NoArm}
    /\ queuedAction \in Actions \cup {NoAction}
    /\ runningAction \in Actions \cup {NoAction}
    /\ latest \in Packets \cup {NoPacket}
    /\ obsSeq \in Nat
    /\ actSeq \in Nat
    /\ obsAge \in 0..DeadlineTicks
    /\ completedObs \in Nat
    /\ completedAct \in Nat
    /\ countdownSeen \in BOOLEAN
    /\ skipUntilInactive \in BOOLEAN
    /\ terminalReported \in BOOLEAN
    /\ raceConsumed \in BOOLEAN
    /\ phase \in SeqPhases

SequencerInit ==
    /\ session = NoSession
    /\ pendingArm = NoArm
    /\ activeArm = NoArm
    /\ completedArm = NoArm
    /\ queuedAction = NoAction
    /\ runningAction = NoAction
    /\ latest = NoPacket
    /\ obsSeq = 0
    /\ actSeq = 0
    /\ obsAge = 0
    /\ completedObs = 0
    /\ completedAct = 0
    /\ countdownSeen = FALSE
    /\ skipUntilInactive = FALSE
    /\ terminalReported = FALSE
    /\ raceConsumed = FALSE
    /\ phase = "IDLE"

-----------------------------------------------------------------------------
(* Sessions and failures *)

\* startSession: everything but the latest packet and the completed counters.
StartSession(s) ==
    /\ s # session
    /\ session' = s
    /\ pendingArm' = NoArm
    /\ activeArm' = NoArm
    /\ completedArm' = NoArm
    /\ queuedAction' = NoAction
    /\ runningAction' = NoAction
    /\ obsSeq' = 0
    /\ actSeq' = 0
    /\ terminalReported' = FALSE
    /\ raceConsumed' = FALSE
    /\ countdownSeen' = FALSE
    /\ skipUntilInactive' = FALSE
    /\ phase' = "IDLE"
    /\ UNCHANGED <<latest, obsAge, completedObs, completedAct>>

\* abort: the counters, the flags and the session id survive it.
NothingKept ==
    /\ pendingArm' = NoArm
    /\ activeArm' = NoArm
    /\ completedArm' = NoArm
    /\ queuedAction' = NoAction
    /\ runningAction' = NoAction
    /\ phase' = "ABORTED"

DropEpisode ==
    /\ NothingKept
    /\ UNCHANGED <<session, counterVars, completedVars, flagVars, terminalReported>>

Abort == DropEpisode /\ UNCHANGED latest

-----------------------------------------------------------------------------
(* Arms *)

\* Mutant: forgets the last round once it is cleaned up.
PreviousRoundWhileActive == IF activeArm # NoArm THEN activeArm.round ELSE 0

\* The round an arm must exceed.
PreviousRound == IF activeArm # NoArm THEN activeArm.round ELSE completedArm.round

Armable(s, a) ==
    /\ s = session
    /\ pendingArm = NoArm
    /\ activeArm = NoArm \/ terminalReported
    /\ a.round > PreviousRound

ServerMidRound == latest.phase \in {"ACTIVE", "ROUND_COMPLETE"}

ArmAccepted(s, a) ==
    /\ Armable(s, a)
    /\ pendingArm' = a
    /\ skipUntilInactive' = (skipUntilInactive \/ ServerMidRound)
    /\ countdownSeen' = (countdownSeen \/ latest.phase = "LOCKED_COUNTDOWN")
    /\ phase' = IF ServerMidRound THEN "SKIPPING"
                ELSE IF latest.phase = "LOCKED_COUNTDOWN" THEN "COUNTDOWN"
                ELSE "ARMED"
    /\ UNCHANGED <<session, activeArm, completedArm, actionVars, latest,
                   counterVars, completedVars, terminalReported>>

ArmRepeated(s, a) ==
    /\ s = session
    /\ pendingArm = a
    /\ UNCHANGED seqVars

ArmRefused(s, a) ==
    /\ ~Armable(s, a)
    /\ ~(s = session /\ pendingArm = a)
    /\ Abort

-----------------------------------------------------------------------------
(* Packets *)

\* Mutant: the counters of an earlier round stay.
RememberArm == completedArm' = activeArm /\ UNCHANGED <<completedObs, completedAct>>

RememberEpisode ==
    /\ completedArm' = activeArm
    /\ completedObs' = obsSeq
    /\ completedAct' = actSeq

\* Mutant: an action that is being held is not counted.
ActionQueuedOnly == queuedAction # NoAction

\* An action was accepted and is not complete.
ActionInFlight == queuedAction # NoAction \/ runningAction # NoAction

\* markTerminal: remember where the round stopped; an action in flight is the one
\* the trainer may have sent for this observation.
MarkTerminal ==
    /\ RememberEpisode
    /\ raceConsumed' = ActionInFlight
    /\ queuedAction' = NoAction
    /\ runningAction' = NoAction
    /\ terminalReported' = TRUE
    /\ phase' = "TERMINAL"
    /\ UNCHANGED <<session, pendingArm, activeArm, counterVars, flagVars>>

\* Mutant: the arm is not kept from the round in progress.
SkipRoundUnmarked ==
    /\ phase' = "SKIPPING"
    /\ UNCHANGED <<session, armVars, actionVars, counterVars, completedVars,
                   flagVars, terminalReported>>

\* The round goes on without this client: keep the arm for the next one.
SkipRound ==
    /\ skipUntilInactive' = TRUE
    /\ phase' = "SKIPPING"
    /\ UNCHANGED <<session, armVars, actionVars, counterVars, completedVars,
                   countdownSeen, terminalReported>>

KeepSequencing == UNCHANGED <<session, armVars, actionVars, counterVars,
                              completedVars, flagVars, terminalReported, phase>>

EpisodeLive == activeArm # NoArm /\ ~terminalReported

\* Mutant: an active round may turn inactive.
InactiveAnyTime == FALSE

InactiveTooEarly == latest.phase = "ACTIVE" /\ EpisodeLive

\* Mutant: a skipped round is skipped for ever.
RoundStaysSkipped == countdownSeen' = FALSE /\ UNCHANGED skipUntilInactive

RoundForgotten == countdownSeen' = FALSE /\ skipUntilInactive' = FALSE

ReceiveInactive(p) ==
    /\ p.phase = "INACTIVE"
    /\ ~InactiveTooEarly
    /\ latest' = p
    /\ activeArm' = IF terminalReported THEN NoArm ELSE activeArm
    /\ terminalReported' = FALSE
    /\ queuedAction' = NoAction
    /\ runningAction' = NoAction
    /\ RoundForgotten
    /\ phase' = IF pendingArm = NoArm THEN "IDLE" ELSE "ARMED"
    /\ UNCHANGED <<session, pendingArm, completedArm, counterVars, completedVars>>

ReceiveCountdown(p) ==
    /\ p.phase = "LOCKED_COUNTDOWN"
    /\ ~ServerMidRound
    /\ latest' = p
    /\ IF pendingArm # NoArm /\ ~skipUntilInactive
       THEN /\ countdownSeen' = TRUE
            /\ phase' = "COUNTDOWN"
       ELSE UNCHANGED <<countdownSeen, phase>>
    /\ UNCHANGED <<session, armVars, actionVars, counterVars, completedVars,
                   skipUntilInactive, terminalReported>>

\* receiveActive, by what it finds: a round already being played, ...
PlayerEliminated(p) ==
    /\ p.phase = "ACTIVE"
    /\ EpisodeLive
    /\ ~p.playerActive
    /\ latest' = p
    /\ MarkTerminal

RoundContinues(p) ==
    /\ p.phase = "ACTIVE"
    /\ activeArm # NoArm
    /\ p.playerActive \/ terminalReported
    /\ latest' = p
    /\ KeepSequencing

\* ... a round this client has not followed from its countdown, ...
CountdownFollowed ==
    /\ pendingArm # NoArm
    /\ ~skipUntilInactive
    /\ latest.phase = "LOCKED_COUNTDOWN"
    /\ countdownSeen

ActiveRoundSkipped(p) ==
    /\ p.phase = "ACTIVE"
    /\ activeArm = NoArm
    /\ ~CountdownFollowed
    /\ latest' = p
    /\ SkipRound

\* ... or the start of the armed round.
EpisodeStarted(p) ==
    /\ p.phase = "ACTIVE"
    /\ activeArm = NoArm
    /\ CountdownFollowed
    /\ p.playerActive
    /\ latest' = p
    /\ activeArm' = pendingArm
    /\ pendingArm' = NoArm
    /\ obsSeq' = 0
    /\ actSeq' = 0
    /\ obsAge' = 0
    /\ terminalReported' = FALSE
    /\ phase' = "WAITING_ACTION"
    /\ UNCHANGED <<session, completedArm, actionVars, completedVars, flagVars>>

CompleteRoundSkipped(p) ==
    /\ p.phase = "ROUND_COMPLETE"
    /\ activeArm = NoArm
    /\ latest' = p
    /\ SkipRound

RoundCompleted(p) ==
    /\ p.phase = "ROUND_COMPLETE"
    /\ EpisodeLive
    /\ ServerMidRound
    /\ latest' = p
    /\ MarkTerminal

\* The end of a round this client was eliminated from, or a repeat.
CompletionRepeated(p) ==
    /\ p.phase = "ROUND_COMPLETE"
    /\ activeArm # NoArm /\ terminalReported
    /\ ServerMidRound
    /\ p.outcome = "ELIMINATED"
    /\ latest' = p
    /\ KeepSequencing

OutOfOrder(p) ==
    \/ p.phase = "INACTIVE" /\ InactiveTooEarly
    \/ p.phase = "LOCKED_COUNTDOWN" /\ ServerMidRound
    \/ p.phase = "ACTIVE" /\ activeArm = NoArm /\ CountdownFollowed /\ ~p.playerActive
    \/ /\ p.phase = "ROUND_COMPLETE"
       /\ activeArm # NoArm
       /\ ~ServerMidRound \/ (terminalReported /\ p.outcome # "ELIMINATED")

\* The packet is recorded before its order is checked, and stays recorded.
PacketRefused(p) ==
    /\ OutOfOrder(p)
    /\ latest' = p
    /\ DropEpisode

-----------------------------------------------------------------------------
(* Actions *)

ForCompletedRound(x) ==
    completedArm # NoArm /\ x.round = completedArm.round /\ x.policy = completedArm.policy

ForActiveRound(x) ==
    activeArm # NoArm /\ x.round = activeArm.round /\ x.policy = activeArm.policy

\* Mutant: takes the last completed action for the late one.
LateActionRepeated(x) ==
    /\ ForCompletedRound(x)
    /\ ~raceConsumed
    /\ x.obs = completedObs
    /\ x.act = completedAct

LateAction(x) ==
    /\ ForCompletedRound(x)
    /\ ~raceConsumed
    /\ x.obs = completedObs
    /\ x.act = completedAct + 1

\* Mutant: an action that answers any observation.
ExpectedActionOfAnyObservation(x) ==
    /\ ~ForCompletedRound(x)
    /\ ForActiveRound(x)
    /\ phase = "WAITING_ACTION"
    /\ x.act = actSeq + 1

ExpectedAction(x) ==
    /\ ~ForCompletedRound(x)
    /\ ForActiveRound(x)
    /\ phase = "WAITING_ACTION"
    /\ x.obs = obsSeq
    /\ x.act = actSeq + 1

LateActionDropped(s, x) ==
    /\ s = session
    /\ LateAction(x)
    /\ raceConsumed' = TRUE
    /\ UNCHANGED <<session, armVars, actionVars, latest, counterVars, completedObs,
                   completedAct, flagVars, terminalReported, phase>>

ActionQueued(s, x) ==
    /\ s = session
    /\ ExpectedAction(x)
    /\ queuedAction' = x
    /\ phase' = "ACTION_QUEUED"
    /\ UNCHANGED <<session, armVars, runningAction, latest, counterVars,
                   completedVars, flagVars, terminalReported>>

ActionRefused(s, x) ==
    /\ ~(s = session /\ (LateAction(x) \/ ExpectedAction(x)))
    /\ Abort

BeginAction ==
    /\ phase = "ACTION_QUEUED"
    /\ runningAction' = queuedAction
    /\ queuedAction' = NoAction
    /\ phase' = "ACTION_RUNNING"
    /\ UNCHANGED <<session, armVars, latest, counterVars, completedVars, flagVars,
                   terminalReported>>

CompleteAction ==
    /\ phase = "ACTION_RUNNING"
    /\ runningAction # NoAction
    /\ runningAction' = NoAction
    /\ actSeq' = actSeq + 1
    /\ obsSeq' = actSeq + 1
    /\ obsAge' = 0
    /\ phase' = "WAITING_ACTION"
    /\ UNCHANGED <<session, armVars, queuedAction, latest, completedVars, flagVars,
                   terminalReported>>

-----------------------------------------------------------------------------
(* Client ticks *)

\* Mutant: one tick too many.
TickPassesDeadline ==
    /\ phase = "WAITING_ACTION"
    /\ obsAge <= DeadlineTicks
    /\ obsAge' = obsAge + 1
    /\ UNCHANGED <<session, armVars, actionVars, latest, obsSeq, actSeq,
                   completedVars, flagVars, terminalReported, phase>>

\* A client tick, the last one within the deadline or the first one past it.
\* Only the deadline reads the age of an observation, and only while an action is
\* awaited.
TickPasses ==
    /\ phase = "WAITING_ACTION"
    /\ obsAge < DeadlineTicks
    /\ obsAge' = obsAge + 1
    /\ UNCHANGED <<session, armVars, actionVars, latest, obsSeq, actSeq,
                   completedVars, flagVars, terminalReported, phase>>

DeadlineMissed ==
    /\ phase = "WAITING_ACTION"
    /\ obsAge = DeadlineTicks
    /\ Abort

-----------------------------------------------------------------------------

ReceivePacket(p) ==
    \/ ReceiveInactive(p)
    \/ ReceiveCountdown(p)
    \/ PlayerEliminated(p)
    \/ RoundContinues(p)
    \/ ActiveRoundSkipped(p)
    \/ EpisodeStarted(p)
    \/ CompleteRoundSkipped(p)
    \/ RoundCompleted(p)
    \/ CompletionRepeated(p)
    \/ PacketRefused(p)

ReceiveArm(s, a) ==
    \/ ArmAccepted(s, a)
    \/ ArmRepeated(s, a)
    \/ ArmRefused(s, a)

ReceiveAction(s, x) ==
    \/ LateActionDropped(s, x)
    \/ ActionQueued(s, x)
    \/ ActionRefused(s, x)

SequencerNext ==
    \/ \E s \in Sessions : StartSession(s)
    \/ \E s \in Sessions, a \in Arms : ReceiveArm(s, a)
    \/ \E p \in Packets : ReceivePacket(p)
    \/ \E s \in Sessions, x \in Actions : ReceiveAction(s, x)
    \/ BeginAction
    \/ CompleteAction
    \/ TickPasses
    \/ DeadlineMissed
    \/ Abort

SequencerSpec == SequencerInit /\ [][SequencerNext]_seqVars

-----------------------------------------------------------------------------
(* Properties *)

\* The phases that let an action be requested, queued or held are exactly the
\* life of an episode: armed, started, not yet reported terminal (the phase is
\* assigned in ten places, the arms and the flag in eight others).
PhaseFollowsEpisode ==
    EpisodeLive <=> phase \in {"WAITING_ACTION", "ACTION_QUEUED", "ACTION_RUNNING"}

\* An action is kept only in the phase that disposes of it, it answers the
\* current observation of the round being played, and no two are kept at once.
Answers(x) == ForActiveRound(x) /\ x.obs = obsSeq /\ x.act = actSeq + 1

KeptActionIsCurrent ==
    /\ (queuedAction # NoAction) <=> (phase = "ACTION_QUEUED")
    /\ (runningAction # NoAction) <=> (phase = "ACTION_RUNNING")
    /\ queuedAction # NoAction => Answers(queuedAction)
    /\ runningAction # NoAction => Answers(runningAction)

\* An episode is live only while the last packet says that the round is active
\* and this player is still in it, whatever order the packets came in.
LiveOnlyInActiveRound ==
    EpisodeLive => latest.phase = "ACTIVE" /\ latest.playerActive

\* Until it is cleaned up, an ended episode is the completed one, with the
\* counters it ended at, and the server has not left its round.
EndedEpisodeRemembered ==
    activeArm # NoArm /\ terminalReported =>
        /\ completedArm = activeArm
        /\ completedObs = obsSeq
        /\ completedAct = actSeq
        /\ ServerMidRound

\* Rounds only advance: the armed round is above the one being played or ended,
\* and a live round above the completed one, so that an action for the live
\* round is never taken for a late action of the completed one.
RoundsAdvance ==
    /\ pendingArm # NoArm => pendingArm.round > PreviousRound /\ pendingArm.round > completedArm.round
    /\ EpisodeLive => activeArm.round > completedArm.round

\* An arm that waits while the server is in the middle of a round skips it.
MidRoundArmSkips == pendingArm # NoArm /\ ServerMidRound => skipUntilInactive

\* Observations are numbered by the actions that led to them.
ObservationsCountActions == obsSeq = actSeq

SequencerInv ==
    /\ SequencerTypeOK
    /\ PhaseFollowsEpisode
    /\ KeptActionIsCurrent
    /\ LiveOnlyInActiveRound
    /\ EndedEpisodeRemembered
    /\ RoundsAdvance
    /\ MidRoundArmSkips
    /\ ObservationsCountActions

\* The contract with the trainer that the sequencer implements.
Contract == INSTANCE EpisodeContract WITH
    armed <- pendingArm.round,
    playing <- IF EpisodeLive THEN activeArm.round ELSE 0,
    last <- PreviousRound,
    held <- IF EpisodeLive THEN actSeq ELSE 0,
    outstanding <- queuedAction # NoAction \/ runningAction # NoAction,
    late <- completedArm # NoArm /\ ~raceConsumed

\* Every step of the sequencer is a step of the contract or changes nothing in it.
SequencerKeepsContract == Contract!ContractSpec

=============================================================================
