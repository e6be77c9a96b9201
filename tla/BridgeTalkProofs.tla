-------------------------- MODULE BridgeTalkProofs --------------------------
(***************************************************************************)
(* The conversation of one trainer and one client, for any number of       *)
(* connections, rounds and actions, and whatever fails: while both ends    *)
(* are in one session, the trainer's state says what is on the wire to it, *)
(* frame by frame, and what the client may add to it.  And, when nothing   *)
(* fails: whatever is on the way to the client is what it can handle, so   *)
(* that neither end ever reports an error.                                 *)
(***************************************************************************)
EXTENDS FabricBridgeProofs

-----------------------------------------------------------------------------
(* The trainer by itself, and what it has sent *)

\* A connection is open in every state but two; what a step is told belongs to it,
\* and what it answers is of the armed round.
TrainerFits ==
    /\ (openConn # 0) <=> trainer \notin {"closed", "failed"}
    /\ trainer \in {"hello", "ready"} => armedRound = NoRequest
    /\ trainer # "stepping" => ~terminalSeen /\ tResult = "NONE"
    /\ trainer = "stepping" =>
        answered = [round |-> armedRound.round, policy |-> armedRound.policy,
                    obs |-> answered.obs, act |-> answered.obs + 1]

\* A connection that waits in the backlog has heard nothing yet.
WaitingIsSilent ==
    \A i \in DOMAIN backlog : backlog[i] = openConn => trainer = "hello" /\ toTrainer = <<>>

\* No session is known to anybody before it is drawn.
SessionsAreDrawn ==
    /\ session \in drawn \cup {NoSession}
    /\ trainer \in {"ready", "idle", "arming", "deciding", "stepping"} => tSession \in drawn
    /\ \A i \in DOMAIN toTrainer :
        toTrainer[i].type = "connection_hello" => toTrainer[i].session \in drawn

\* Without a peer nothing is on the way to the client.
NobodySends == peer = 0 => toClient = <<>>

\* What the trainer can have sent to the peer: no shutdown, as it closes at once; arms
\* up to its last; actions for earlier rounds, and in this one up to its last.
Sent(f) ==
    /\ f.type \in {"arm_episode", "action_request"}
    /\ f.type = "arm_episode" => f.arm.round <= armedRound.round
    /\ f.type = "action_request" =>
        \/ f.action.round < armedRound.round
        \/ /\ trainer # "arming"
           /\ f.action.round = armedRound.round
           /\ f.action.act <= answered.act

\* f has been sent to the peer, and the client has not handled it.
OnTheWay(f) ==
    \/ \E i \in DOMAIN toClient : toClient[i] = f
    \/ \E k \in DOMAIN tasks : IsMessage(tasks[k]) /\ tasks[k].frame = f

MessagesFit == Linked => \A f \in TrainerFrames : OnTheWay(f) => Sent(f)

-----------------------------------------------------------------------------
(* Both ends in one session *)

At(i, f) == i \in DOMAIN toTrainer /\ toTrainer[i] = f

\* Both ends know the same session, or the trainer is about to read it.
InSession ==
    /\ Linked
    /\ IF trainer = "hello" THEN At(1, Hello(session)) ELSE tSession = session

\* The trainer closes the connection at an error; what follows one is never read.
Clean == \A i \in DOMAIN toTrainer : toTrainer[i].type # "error"

\* Nothing from position k on, or an error.
Stop(k) == k \in DOMAIN toTrainer => toTrainer[k].type = "error"

\* From position k on the client has nothing to say: it is between two rounds,
Between(k) ==
    /\ Stop(k)
    /\ Clean => pendingArm = NoArm /\ ~EpisodeLive /\ PreviousRound = armedRound.round

\* has yet to take the arm or to start its round,
Awaiting ==
    /\ Stop(1)
    /\ Clean => pendingArm \in {NoArm, armedRound} /\ ~EpisodeLive
                /\ PreviousRound < armedRound.round

\* or plays it and has completed n actions; it may keep one that was sent.
Playing(k, n, sent) ==
    /\ Stop(k)
    /\ Clean => EpisodeLive /\ activeArm = armedRound /\ actSeq = n
                /\ (phase = "WAITING_ACTION" \/ sent)

\* The round ends after n actions.
Ends(k, n) ==
    /\ At(k, Observation(session, armedRound, n, n, TRUE))
    /\ \E o \in Outcomes : At(k + 1, Result(session, armedRound, n, o))
    /\ Between(k + 2)

RoundGoesOn(k, n, sent) == Playing(k, n, sent) \/ Ends(k, n)

\* An observation after n actions, with the round going on or ending behind it.
Observed(k, n) ==
    /\ At(k, Observation(session, armedRound, n, n, FALSE))
    /\ RoundGoesOn(k + 1, n, FALSE)

\* What is on the wire, by the state of the trainer.
Script ==
    \/ /\ trainer = "hello"
       /\ At(1, Hello(session)) /\ At(2, Ready(session)) /\ Between(3)
    \/ trainer = "ready" /\ At(1, Ready(session)) /\ Between(2)
    \/ trainer = "idle" /\ Between(1)
    \/ /\ trainer = "arming"
       /\ \/ ~readySeen /\ Awaiting
          \/ ~readySeen /\ At(1, EpisodeReady(session, armedRound)) /\ Observed(2, 0)
          \/ readySeen /\ Observed(1, 0)
    \/ trainer = "deciding" /\ RoundGoesOn(1, answered.act, FALSE)
    \/ /\ trainer = "stepping" /\ tResult = "NONE"
       /\ \/ ~applied /\ ~terminalSeen /\ RoundGoesOn(1, answered.obs, TRUE)
          \/ ~applied /\ ~terminalSeen /\ At(1, Applied(session, answered)) /\ Observed(2, answered.act)
          \/ applied /\ ~terminalSeen /\ Observed(1, answered.act)
          \/ /\ ~applied /\ terminalSeen
             /\ \E o \in Outcomes : At(1, Result(session, armedRound, answered.obs, o))
             /\ Between(2)

ScriptKept == InSession => Script

\* An arm on the way is the one in force, or too old to be taken.
ArmsFit ==
    InSession /\ Clean =>
        \A f \in TrainerFrames :
            OnTheWay(f) /\ f.type = "arm_episode" =>
                f.arm = armedRound \/ f.arm.round <= PreviousRound

\* A disconnection that is still to be handled meets a session that has begun since
\* and has heard nothing yet.
DisconnectionMeetsNothing ==
    InSession /\ (\E d \in DOMAIN tasks : tasks[d].kind = "disconnected") =>
        pendingArm = NoArm /\ activeArm = NoArm /\ completedArm = NoArm

ConversationInv ==
    /\ TrainerFits
    /\ WaitingIsSilent
    /\ SessionsAreDrawn
    /\ NobodySends
    /\ MessagesFit
    /\ ArmsFit
    /\ DisconnectionMeetsNothing
    /\ ScriptKept

-----------------------------------------------------------------------------
(* Whose steps change what *)

\* The connection is the trainer's to open and close, and a client's step leaves the
\* trainer alone.
LEMMA ClientKeepsOpen ==
    ASSUME SequencerTypeOK, ServerTypeOK, ClientNext
    PROVE  UNCHANGED <<openConn, trainerVars>>
<1>0. UNCHANGED trainerVars
  BY StepTalks
<1> USE DEF wireVars
<1>1. CASE ListenerNext \/ LossNext \/ StopNext
  BY <1>0, <1>1 DEF ListenerNext, Listener, Accept, AnnounceConnected, ReadFrame, PeerLost,
                    AnnounceDisconnected, LossNext, PaperLost, StopNext, ShutdownClient, CloseServer
<1>2. CASE TaskNext
  BY <1>0, <1>2 DEF TaskNext, HandleTask, HandleConnected, HandleStaleMessage, HandleArm,
                    HandleAction, HandleShutdown, HandleDisconnected, TakeTask
<1>3. CASE TickNext
  <2>1. KeepOutsideTick
    BY <1>3 DEF TickNext, ClientTick, TickMissesDeadline, TickWaits, TickBegins,
                TickBeginsOffline, TickHolds, TickCompletes, TickCompletesUnsent
  <2> QED BY <1>0, <2>1 DEF KeepOutsideTick
<1>4. CASE JoinNext \/ DisconnectNext
  BY <1>0, <1>4 DEF JoinNext, JoinedPaper, DisconnectNext, DisconnectedPaper
<1>5. CASE ServerNext
  BY <1>0, <1>5, ServerSteps DEF ReceiveYRush, KeepOutsidePacket
<1> QED BY <1>1, <1>2, <1>3, <1>4, <1>5 DEF ClientNext

\* Nor does a trainer's step touch the client, its tasks or its peer.
LEMMA TrainerKeepsClient ==
    ASSUME TrainerNext
    PROVE  UNCHANGED <<peer, tasks, acceptor, online, announced, drawn, stopped, seqVars, serverVars>>
<1>1. UNCHANGED <<tasks, acceptor, online, announced, drawn, stopped, seqVars, serverVars>>
  BY DEF TrainerNext, ReceiveNext, DialNext, ActNext, KeepOutsideTrainer, clientVars, paperVars,
         sessionVars
<1>2. UNCHANGED peer
  BY DEF TrainerNext, ReceiveNext, DialNext, ActNext, Dial, TrainerReceives, ReceiveHello,
         ReceiveReady, ReceiveEpisodeReady, ReceiveInitialObservation, ReceiveApplied,
         ReceiveNextObservation, ReceiveTerminalObservation, ReceiveResult, ReceiveUnexpected,
         ReceiveEnd, Receive, CloseAfterFailure, TrainerActs, CloseLawfully, TrainerRestarts,
         Timeout, TrainerGone, Arm, Answer, wireVars
<1> QED BY <1>1, <1>2

\* The trainer, with or without a connection.
LEMMA StepTrainerFits ==
    ASSUME SequencerTypeOK, BridgeTypeOK, AppliedIsFollowed, TrainerFits, [BridgeNext]_bridgeVars
    PROVE  TrainerFits'
<1> USE DEF BridgeTypeOK
<1>0. dials \in Nat /\ answered.obs \in Nat /\ answered.act \in Nat
  BY DEF WireTypeOK, TrainerTypeOK
<1>1. ASSUME UNCHANGED <<openConn, trainerVars>> PROVE TrainerFits'
  BY <1>1 DEF trainerVars, TrainerFits
<1>2. CASE ClientNext
  BY <1>1, <1>2, ClientKeepsOpen
<1>3. ASSUME openConn' = 0, trainer' \in {"closed", "failed"}, FreshConnection PROVE TrainerFits'
  BY <1>3 DEF FreshConnection, TrainerFits
<1>4. CASE DialNext
  BY <1>0, <1>4 DEF DialNext, Dial, FreshConnection, TrainerFits
<1>5. CASE ReceiveNext
  <2>1. CASE CloseAfterFailure
    BY <1>3, <2>1 DEF CloseAfterFailure
  <2>2. CASE ReceiveHello \/ ReceiveReady \/ ReceiveEpisodeReady \/ ReceiveInitialObservation
    BY <2>2 DEF ReceiveHello, ReceiveReady, ReceiveEpisodeReady, ReceiveInitialObservation, Receive,
                TrainerFits
  <2>3. ASSUME NEW b \in BOOLEAN, StepReturns(b), UNCHANGED openConn, trainer = "stepping"
        PROVE  TrainerFits'
    <3>1. trainer' \in {"idle", "deciding"}
      BY <2>3 DEF StepReturns
    <3> QED BY <2>3, <3>1 DEF StepReturns, TrainerFits
  <2>4. CASE ReceiveApplied
    BY <2>4 DEF ReceiveApplied, Receive, TrainerFits
  <2>5. CASE ReceiveNextObservation
    BY <2>3, <2>5 DEF ReceiveNextObservation, Receive
  <2>6. CASE ReceiveTerminalObservation
    <3>1. trainer = "stepping" /\ UNCHANGED openConn
      BY <2>6 DEF ReceiveTerminalObservation, Receive
    <3>2. StepReturns(TRUE) \/ UNCHANGED <<trainer, armedRound, answered>>
      BY <2>6 DEF ReceiveTerminalObservation
    <3> QED BY <2>3, <3>1, <3>2 DEF TrainerFits
  <2>7. CASE ReceiveResult
    <3>1. trainer = "stepping" /\ UNCHANGED openConn
      BY <2>7 DEF ReceiveResult, Receive
    <3>2. StepReturns(TRUE) \/ UNCHANGED <<trainer, armedRound, answered>>
      BY <2>7 DEF ReceiveResult
    <3> QED BY <2>3, <3>1, <3>2 DEF TrainerFits
  <2> QED BY <1>5, <2>1, <2>2, <2>4, <2>5, <2>6, <2>7
          DEF ReceiveNext, TrainerReceives, ReceiveUnexpected, ReceiveEnd
<1>6. CASE ActNext
  <2>1. CASE CloseLawfully \/ TrainerGone \/ Timeout
    BY <1>3, <2>1 DEF CloseLawfully, TrainerGone, Timeout, CloseAfterFailure
  <2>2. CASE TrainerRestarts
    BY <2>2 DEF TrainerRestarts, wireVars, TrainerFits
  <2>3. CASE \E r \in TrainerRounds, v \in TrainerPolicies : Arm(r, v)
    BY <2>3 DEF Arm, TrainerFits
  <2>4. CASE Answer
    <3>1. /\ trainer = "deciding" /\ trainer' = "stepping"
          /\ answered' = [round |-> armedRound.round, policy |-> armedRound.policy,
                          obs |-> answered.act, act |-> answered.act + 1]
          /\ UNCHANGED <<openConn, armedRound>>
      BY <2>4 DEF Answer
    <3> QED BY <3>1 DEF TrainerFits
  <2> QED BY <1>6, <2>1, <2>2, <2>3, <2>4 DEF ActNext, TrainerActs
<1>7. CASE UNCHANGED bridgeVars
  BY <1>1, <1>7 DEF bridgeVars, wireVars
<1> QED BY <1>2, <1>4, <1>5, <1>6, <1>7 DEF BridgeNext, ClientNext

-----------------------------------------------------------------------------
(* What a client's step does to its round and says about it *)

\* Nothing, as far as the trainer is concerned.
KeepsRound ==
    /\ UNCHANGED <<session, pendingArm, completedArm, toTrainer>>
    /\ PreviousRound' = PreviousRound
    /\ EpisodeLive' <=> EpisodeLive
    /\ activeArm' \in {activeArm, NoArm}
    /\ EpisodeLive => activeArm' = activeArm /\ actSeq' = actSeq
    /\ phase = "WAITING_ACTION" => phase' = "WAITING_ACTION"

\* A failure is reported and ends everything.
Reports == NothingKept /\ ClientWrites(<<ErrorFrame(session)>>) /\ UNCHANGED session

\* Everything ends without a word, because of a disconnection, a shutdown message or
\* a connection that is not there or goes away.
Silences ==
    /\ NothingKept
    /\ UNCHANGED <<session, toTrainer>>
    /\ HandleDisconnected \/ HandleShutdown \/ ~Linked \/ ~Linked'

TakesArm ==
    /\ HandleArm
    /\ ArmAccepted(Head(tasks).frame.session, Head(tasks).frame.arm)
    /\ UNCHANGED toTrainer

TakesAction ==
    /\ HandleAction
    /\ ActionQueued(Head(tasks).frame.session, Head(tasks).frame.action)
    /\ UNCHANGED toTrainer

Starts ==
    \E p \in Packets :
        /\ EpisodeStarted(p)
        /\ ClientWrites(<<EpisodeReady(session, pendingArm),
                          Observation(session, pendingArm, 0, 0, FALSE)>>)

Completes == CompleteAction /\ ClientWrites(HeldFrames)

Finishes ==
    \E p \in Packets :
        /\ PlayerEliminated(p) \/ RoundCompleted(p)
        /\ Ending(p) \in Outcomes
        /\ ClientWrites(EndFrames(p))

Turns ==
    \/ KeepsRound
    \/ Reports
    \/ Silences
    \/ TakesArm
    \/ TakesAction
    \/ Starts
    \/ Completes
    \/ Finishes

Begins == SessionBegins \/ (SessionBeginsUnsent /\ ~Linked)

\* A handler that leaves the sequencer and the wire alone.
LEMMA SameKeepsRound ==
    ASSUME UNCHANGED <<seqVars, toTrainer>>
    PROVE  KeepsRound
  BY DEF KeepsRound, seqVars, armVars, counterVars, EpisodeLive, PreviousRound

\* The beginning of a session, or not.
LEMMA BeginTurns ==
    ASSUME BeginTrainerSession
    PROVE  Begins \/ (KeepsRound /\ UNCHANGED drawn)
<1>1. CASE SessionBegins \/ SessionBeginsUnsent
  BY <1>1 DEF Begins, SessionBeginsUnsent, WriteMayFail
<1>2. CASE SessionNotBegun
  BY <1>2, SameKeepsRound DEF SessionNotBegun, sessionVars
<1> QED BY <1>1, <1>2 DEF BeginTrainerSession

\* A task.
LEMMA TaskTurns ==
    ASSUME SequencerInv, HandleTask
    PROVE  Begins \/ (Turns /\ UNCHANGED drawn)
<1>1. CASE HandleConnected
  <2>1. \/ SessionBegins \/ SessionBeginsUnsent \/ SessionNotBegun
        \/ UNCHANGED <<seqVars, sessionVars, toTrainer>>
    BY <1>1 DEF HandleConnected
  <2>2. CASE UNCHANGED <<seqVars, sessionVars, toTrainer>>
    BY <2>2, SameKeepsRound DEF Turns, sessionVars
  <2> QED BY <2>1, <2>2, BeginTurns DEF BeginTrainerSession, Turns
<1>2. CASE HandleStaleMessage
  BY <1>2, SameKeepsRound DEF HandleStaleMessage, Turns, sessionVars
<1>3. CASE HandleArm
  <2> DEFINE m == Head(tasks).frame
  <2>1. UNCHANGED drawn
    BY <1>3 DEF HandleArm, sessionVars
  <2>2. CASE ArmAccepted(m.session, m.arm) /\ UNCHANGED toTrainer
    BY <1>3, <2>1, <2>2 DEF TakesArm, Turns
  <2>3. CASE ArmRepeated(m.session, m.arm) /\ UNCHANGED toTrainer
    BY <2>1, <2>3, SameKeepsRound DEF ArmRepeated, Turns
  <2>4. CASE ArmRefused(m.session, m.arm) /\ ReportFailure
    BY <2>1, <2>4 DEF ArmRefused, ReportFailure, Abort, DropEpisode, Reports, Turns
  <2> QED BY <1>3, <2>2, <2>3, <2>4 DEF HandleArm
<1>4. CASE HandleAction
  <2> DEFINE m == Head(tasks).frame
  <2>1. UNCHANGED drawn
    BY <1>4 DEF HandleAction, sessionVars
  <2>2. CASE ActionQueued(m.session, m.action) /\ UNCHANGED toTrainer
    BY <1>4, <2>1, <2>2 DEF TakesAction, Turns
  <2>3. CASE LateActionDropped(m.session, m.action) /\ UNCHANGED toTrainer
    <3>1. KeepsRound
      BY <2>3 DEF LateActionDropped, KeepsRound, armVars, counterVars, EpisodeLive, PreviousRound
    <3> QED BY <2>1, <3>1 DEF Turns
  <2>4. CASE ActionRefused(m.session, m.action) /\ ReportFailure
    BY <2>1, <2>4 DEF ActionRefused, ReportFailure, Abort, DropEpisode, Reports, Turns
  <2> QED BY <1>4, <2>2, <2>3, <2>4 DEF HandleAction
<1>5. CASE HandleShutdown
  BY <1>5 DEF HandleShutdown, Abort, DropEpisode, Silences, Turns, sessionVars
<1>6. CASE HandleDisconnected
  BY <1>6 DEF HandleDisconnected, Abort, DropEpisode, Silences, Turns
<1> QED BY <1>1, <1>2, <1>3, <1>4, <1>5, <1>6 DEF HandleTask

\* A tick.
LEMMA TickTurns ==
    ASSUME SequencerInv, ClientTick
    PROVE  Turns /\ UNCHANGED drawn
<1>0. KeepOutsideTick
  BY DEF ClientTick, TickMissesDeadline, TickWaits, TickBegins, TickBeginsOffline, TickHolds,
         TickCompletes, TickCompletesUnsent
<1>1. UNCHANGED drawn
  BY <1>0 DEF KeepOutsideTick, sessionVars
<1>2. CASE TickMissesDeadline
  BY <1>1, <1>2 DEF TickMissesDeadline, DeadlineMissed, ReportFailure, Abort, DropEpisode, Reports, Turns
<1>3. CASE TickWaits
  <2>1. KeepsRound
    BY <1>3 DEF TickWaits, TickPasses, KeepsRound, armVars, EpisodeLive, PreviousRound
  <2> QED BY <1>1, <2>1 DEF Turns
<1>4. CASE TickBegins
  <2>1. KeepsRound
    BY <1>4 DEF TickBegins, BeginAction, KeepsRound, armVars, counterVars, EpisodeLive, PreviousRound
  <2> QED BY <1>1, <2>1 DEF Turns
<1>5. CASE TickBeginsOffline
  BY <1>1, <1>5 DEF TickBeginsOffline, ReportFailure, Abort, DropEpisode, Reports, Turns
<1>6. CASE TickHolds
  BY <1>1, <1>6, SameKeepsRound DEF TickHolds, Turns
<1>7. CASE TickCompletes
  BY <1>1, <1>7 DEF TickCompletes, Completes, Turns
<1>8. CASE TickCompletesUnsent
  BY <1>1, <1>8 DEF TickCompletesUnsent, WriteMayFail, Silences, Turns
<1> QED BY <1>2, <1>3, <1>4, <1>5, <1>6, <1>7, <1>8 DEF ClientTick

\* A packet that neither starts nor ends the round that the client plays.
LEMMA PacketKeepsRound ==
    ASSUME SequencerInv, NEW p \in Packets, CleanUp(p) \/ FollowRound(p)
    PROVE  KeepsRound /\ UNCHANGED <<completedObs, completedAct, raceConsumed>>
<1>1. CASE CleanUp(p)
  <2>1. ReceiveInactive(p) /\ UNCHANGED toTrainer
    BY <1>1 DEF CleanUp
  <2>2. ~EpisodeLive
    BY <2>1 DEF ReceiveInactive, InactiveTooEarly, SequencerInv, LiveOnlyInActiveRound
  <2>3. activeArm' = NoArm
    BY <2>1, <2>2 DEF ReceiveInactive, EpisodeLive
  <2>4. UNCHANGED <<session, pendingArm, completedArm, completedObs, completedAct, raceConsumed>>
    BY <2>1 DEF ReceiveInactive, completedVars
  <2>5. PreviousRound' = PreviousRound
    <3>1. CASE activeArm = NoArm
      BY <2>3, <2>4, <3>1 DEF PreviousRound
    <3>2. CASE activeArm # NoArm
      BY <2>2, <2>3, <2>4, <3>2 DEF PreviousRound, EpisodeLive, SequencerInv, EndedEpisodeRemembered
    <3> QED BY <3>1, <3>2
  <2>6. phase # "WAITING_ACTION"
    BY <2>2 DEF SequencerInv, PhaseFollowsEpisode
  <2> QED BY <2>1, <2>2, <2>3, <2>4, <2>5, <2>6 DEF KeepsRound, EpisodeLive
<1>2. CASE FollowRound(p)
  <2>1. UNCHANGED toTrainer
    BY <1>2 DEF FollowRound
  <2>2. CASE RoundContinues(p) \/ CompletionRepeated(p)
    BY <2>1, <2>2 DEF RoundContinues, CompletionRepeated, KeepSequencing, KeepsRound, armVars,
                      counterVars, completedVars, EpisodeLive, PreviousRound
  <2>3. CASE ReceiveCountdown(p) \/ ActiveRoundSkipped(p) \/ CompleteRoundSkipped(p)
    <3>1. UNCHANGED <<session, pendingArm, activeArm, completedArm, actSeq, terminalReported,
                      completedObs, completedAct, raceConsumed>>
      BY <2>3 DEF ReceiveCountdown, ActiveRoundSkipped, CompleteRoundSkipped, SkipRound, armVars,
                  counterVars, completedVars
    <3>2. phase' = phase \/ ~EpisodeLive
      BY <2>3 DEF ReceiveCountdown, ActiveRoundSkipped, CompleteRoundSkipped, EpisodeLive,
                  SequencerInv, LiveOnlyInActiveRound, ServerMidRound
    <3>3. phase = "WAITING_ACTION" => EpisodeLive
      BY DEF SequencerInv, PhaseFollowsEpisode
    <3> QED BY <2>1, <3>1, <3>2, <3>3 DEF KeepsRound, EpisodeLive, PreviousRound
  <2> QED BY <1>2, <2>2, <2>3 DEF FollowRound
<1> QED BY <1>1, <1>2

\* A packet.
LEMMA PacketTurns ==
    ASSUME SequencerInv, NEW p \in Packets, ReceiveYRush(p)
    PROVE  Turns /\ UNCHANGED drawn
<1>0. UNCHANGED drawn
  BY DEF ReceiveYRush, KeepOutsidePacket, sessionVars
<1>1. CASE StartEpisode(p)
  BY <1>0, <1>1 DEF StartEpisode, Starts, Turns
<1>2. CASE StartEpisodeUnsent(p)
  BY <1>0, <1>2 DEF StartEpisodeUnsent, WriteMayFail, Silences, Turns
<1>3. CASE FinishEpisode(p)
  <2>1. p.phase = "ACTIVE" \/ p.phase = "ROUND_COMPLETE"
    BY <1>3 DEF FinishEpisode, PlayerEliminated, RoundCompleted
  <2>2. Ending(p) \in Outcomes
    BY <2>1 DEF Ending, Packets, Outcomes
  <2> QED BY <1>0, <1>3, <2>2 DEF FinishEpisode, Finishes, Turns
<1>4. CASE FinishEpisodeUnsent(p)
  BY <1>0, <1>4 DEF FinishEpisodeUnsent, WriteMayFail, Silences, Turns
<1>5. CASE CleanUp(p) \/ FollowRound(p)
  BY <1>0, <1>5, PacketKeepsRound DEF Turns
<1>6. CASE RefusePacket(p)
  BY <1>0, <1>6 DEF RefusePacket, PacketRefused, DropEpisode, ReportFailure, Reports, Turns
<1> QED BY <1>1, <1>2, <1>3, <1>4, <1>5, <1>6 DEF ReceiveYRush

\* Every step of the client.
LEMMA ClientTurns ==
    ASSUME SequencerInv, ServerTypeOK, ClientNext
    PROVE  Begins \/ (Turns /\ UNCHANGED drawn)
<1>0. UNCHANGED <<seqVars, toTrainer, drawn>> => Turns /\ UNCHANGED drawn
  BY SameKeepsRound DEF Turns
<1>1. CASE ListenerNext \/ LossNext
  BY <1>0, <1>1 DEF ListenerNext, Listener, Accept, AnnounceConnected, ReadFrame, PeerLost,
                    AnnounceDisconnected, LossNext, PaperLost, wireVars, sessionVars
<1>2. CASE TaskNext
  BY <1>2, TaskTurns DEF TaskNext
<1>3. CASE TickNext
  BY <1>3, TickTurns DEF TickNext
<1>4. CASE JoinNext
  BY <1>4, BeginTurns DEF JoinNext, JoinedPaper, Turns
<1>5. CASE DisconnectNext
  BY <1>5 DEF DisconnectNext, DisconnectedPaper, ReportFailure, Abort, DropEpisode, Reports, Turns
<1>6. CASE StopNext
  <2>1. peer' = 0 /\ Abort /\ UNCHANGED <<toTrainer, drawn>>
    BY <1>6 DEF StopNext, ShutdownClient, CloseServer, sessionVars
  <2>2. ~Linked'
    BY <2>1 DEF Linked
  <2> QED BY <2>1, <2>2 DEF Abort, DropEpisode, Silences, Turns
<1>7. CASE ServerNext
  <2>1. CASE UNCHANGED <<seqVars, wireVars, clientVars>>
    BY <1>0, <2>1 DEF wireVars, clientVars, sessionVars
  <2>2. CASE \E p \in Packets : ReceiveYRush(p)
    BY <2>2, PacketTurns
  <2> QED BY <1>7, <2>1, <2>2, ServerSteps
<1> QED BY <1>1, <1>2, <1>3, <1>4, <1>5, <1>6, <1>7 DEF ClientNext

-----------------------------------------------------------------------------
(* What a trainer's step does to the wire *)

Closes ==
    /\ openConn' = 0
    /\ toTrainer' = <<>>
    /\ trainer' \in {"closed", "failed"}
    /\ FreshConnection
    /\ UNCHANGED <<backlog, dials>>
    /\ UNCHANGED toClient \/ TrainerWrites(ShutdownFrame(tSession))

Reads ==
    \/ ReceiveHello
    \/ ReceiveReady
    \/ ReceiveEpisodeReady
    \/ ReceiveInitialObservation
    \/ ReceiveApplied
    \/ ReceiveNextObservation
    \/ ReceiveTerminalObservation
    \/ ReceiveResult

\* One of six things.
LEMMA TrainerCases ==
    ASSUME TrainerNext
    PROVE  \/ Dial
           \/ Closes
           \/ Reads
           \/ TrainerRestarts
           \/ \E r \in TrainerRounds, v \in TrainerPolicies : Arm(r, v)
           \/ Answer
<1>1. CloseAfterFailure => Closes
  BY DEF CloseAfterFailure, Closes
<1>2. CloseLawfully \/ TrainerGone => Closes
  BY DEF CloseLawfully, TrainerGone, Closes
<1> QED BY <1>1, <1>2 DEF TrainerNext, ReceiveNext, DialNext, ActNext, TrainerReceives, TrainerActs,
           ReceiveUnexpected, ReceiveEnd, Timeout, Reads

\* What it reads is the first frame, no error, and the rest moves up.
LEMMA ReadsFirst ==
    ASSUME BridgeTypeOK, Reads
    PROVE  /\ toTrainer # <<>> /\ 1 \in DOMAIN toTrainer /\ Message = toTrainer[1]
           /\ Message \in ClientFrames /\ Message.type # "error"
           /\ DOMAIN toTrainer = 1..Len(toTrainer) /\ Len(toTrainer) \in Nat
           /\ DOMAIN toTrainer' = 1..(Len(toTrainer) - 1)
           /\ \A i \in DOMAIN toTrainer' : i + 1 \in DOMAIN toTrainer /\ toTrainer'[i] = toTrainer[i + 1]
           /\ \A i \in Nat \ {0} : i + 1 \in DOMAIN toTrainer => i \in DOMAIN toTrainer'
           /\ Receiving /\ UNCHANGED <<backlog, openConn, toClient, dials>>
<1>1. PICK type \in {"connection_hello", "connection_ready", "episode_ready", "observation",
                     "action_applied", "episode_result"} : Receive(type)
  BY DEF Reads, ReceiveHello, ReceiveReady, ReceiveEpisodeReady, ReceiveInitialObservation,
         ReceiveApplied, ReceiveNextObservation, ReceiveTerminalObservation, ReceiveResult
<1>2. toTrainer \in Seq(ClientFrames)
  BY DEF BridgeTypeOK, WireTypeOK
<1>3. /\ toTrainer # <<>> /\ toTrainer' = Tail(toTrainer) /\ Message.type # "error" /\ Receiving
      /\ UNCHANGED <<backlog, openConn, toClient, dials>>
  BY <1>1 DEF Receive
<1>4. Message \in ClientFrames /\ Message = toTrainer[1]
  BY <1>2, <1>3, MessageTypes
<1>5. /\ 1 \in DOMAIN toTrainer /\ DOMAIN toTrainer = 1..Len(toTrainer) /\ Len(toTrainer) \in Nat
      /\ DOMAIN toTrainer' = 1..(Len(toTrainer) - 1)
      /\ \A i \in DOMAIN toTrainer' : i + 1 \in DOMAIN toTrainer /\ toTrainer'[i] = toTrainer[i + 1]
  BY <1>2, <1>3, <1>4, AppendTail
<1>6. \A i \in Nat \ {0} : i + 1 \in DOMAIN toTrainer => i \in DOMAIN toTrainer'
  BY <1>5
<1> QED BY <1>3, <1>4, <1>5, <1>6

-----------------------------------------------------------------------------
(* What a client's step does to the wire *)

\* The peer changes when a connection is accepted or lost, and by nothing else.
LEMMA PeerMoves ==
    ASSUME SequencerTypeOK, ServerTypeOK, ClientNext
    PROVE  UNCHANGED peer \/ Accept \/ (peer' = 0 /\ toClient' = <<>>)
<1> USE DEF wireVars
<1>1. CASE ListenerNext
  BY <1>1 DEF ListenerNext, Listener, AnnounceConnected, ReadFrame, PeerLost, AnnounceDisconnected
<1>2. CASE TaskNext
  BY <1>2 DEF TaskNext, HandleTask, HandleConnected, HandleStaleMessage, HandleArm, HandleAction,
              HandleShutdown, HandleDisconnected, TakeTask
<1>3. CASE TickNext
  <2>1. KeepOutsideTick
    BY <1>3 DEF TickNext, ClientTick, TickMissesDeadline, TickWaits, TickBegins,
                TickBeginsOffline, TickHolds, TickCompletes, TickCompletesUnsent
  <2> QED BY <2>1 DEF KeepOutsideTick
<1>4. CASE JoinNext \/ LossNext \/ DisconnectNext \/ StopNext
  BY <1>4 DEF JoinNext, JoinedPaper, LossNext, PaperLost, DisconnectNext, DisconnectedPaper,
              StopNext, ShutdownClient, CloseServer
<1>5. CASE ServerNext
  BY <1>5, ServerSteps DEF ReceiveYRush, KeepOutsidePacket
<1> QED BY <1>1, <1>2, <1>3, <1>4, <1>5 DEF ClientNext

\* The client adds to what it has sent.
LEMMA ClientAdds ==
    ASSUME SequencerTypeOK, BridgeTypeOK, ClientNext
    PROVE  \/ UNCHANGED toTrainer
           \/ Linked /\ \E fs \in Seq(ClientFrames) : toTrainer' = toTrainer \o fs
<1>1. ClientTalks
  BY StepTalks DEF BridgeTypeOK
<1>2. ASSUME NEW fs \in Seq(ClientFrames), ClientWrites(fs)
      PROVE  UNCHANGED toTrainer \/ (Linked /\ toTrainer' = toTrainer \o fs)
  BY <1>2 DEF ClientWrites
<1>3. CASE \E fs \in Seq(OtherFrames) : ClientWrites(fs)
  <2>1. PICK fs \in Seq(OtherFrames) : ClientWrites(fs)
    BY <1>3
  <2>2. fs \in Seq(ClientFrames)
    BY DEF ClientFrames
  <2> QED BY <1>2, <2>1, <2>2
<1>4. CASE ClientWrites(HeldFrames)
  <2>1. session \in AnySession /\ activeArm \in Arms \cup {NoArm} /\ actSeq + 1 \in Nat
        /\ runningAction \in Actions \cup {NoAction}
    BY DEF SequencerTypeOK, AnySession
  <2>2. /\ Applied(session, runningAction) \in ClientFrames
        /\ Observation(session, activeArm, actSeq + 1, actSeq + 1, FALSE) \in ClientFrames
    BY <2>1, FrameTypes DEF ClientFrames
  <2>3. HeldFrames \in Seq(ClientFrames)
    BY <2>2, PairsAreSequences DEF HeldFrames
  <2> QED BY <1>2, <1>4, <2>3
<1> QED BY <1>1, <1>3, <1>4 DEF ClientTalks

\* It leaves alone what is on the wire already.
LEMMA ClientKeepsFrames ==
    ASSUME SequencerTypeOK, BridgeTypeOK, ClientNext
    PROVE  \A i \in DOMAIN toTrainer : i \in DOMAIN toTrainer' /\ toTrainer'[i] = toTrainer[i]
<1>1. CASE \E fs \in Seq(ClientFrames) : toTrainer' = toTrainer \o fs
  <2>1. PICK fs \in Seq(ClientFrames) : toTrainer' = toTrainer \o fs
    BY <1>1
  <2>2. toTrainer \in Seq(ClientFrames)
    BY DEF BridgeTypeOK, WireTypeOK
  <2>3. /\ DOMAIN toTrainer = 1..Len(toTrainer) /\ Len(toTrainer) \in Nat /\ Len(fs) \in Nat
        /\ DOMAIN toTrainer' = 1..(Len(toTrainer) + Len(fs))
        /\ \A i \in DOMAIN toTrainer : toTrainer'[i] = toTrainer[i]
    BY <2>1, <2>2, Concatenated
  <2> QED BY <2>3
<1> QED BY <1>1, ClientAdds

-----------------------------------------------------------------------------
(* Connections that wait, sessions that are drawn, a client without a peer *)

\* A connection that waits is not the peer.
LEMMA WaitingIsUnlinked ==
    ASSUME WireTypeOK, ConnectionsInOrder, NEW i \in DOMAIN backlog, backlog[i] = openConn
    PROVE  ~Linked /\ openConn # 0
<1>1. peer < backlog[i] /\ peer \in Nat /\ backlog[i] \in Nat
  BY DEF WireTypeOK, ConnectionsInOrder
<1> QED BY <1>1 DEF Linked

\* A client's step leaves nothing in the backlog that was not in it.
LEMMA ClientBacklog ==
    ASSUME WireTypeOK, ServerTypeOK, ClientNext, UNCHANGED dials, NEW i \in DOMAIN backlog'
    PROVE  \E j \in DOMAIN backlog : backlog'[i] = backlog[j]
<1>1. QueueMoves
  BY StepQueues DEF BridgeNext, ClientNext
<1>2. CASE Accept
  <2>1. /\ DOMAIN backlog' = 1..(Len(backlog) - 1)
        /\ \A k \in DOMAIN backlog' : k + 1 \in DOMAIN backlog /\ backlog'[k] = backlog[k + 1]
    BY <1>2, AppendTail DEF Accept, WireTypeOK
  <2> QED BY <2>1
<1>3. CASE ServerClosed
  BY <1>3 DEF ServerClosed
<1>4. CASE UNCHANGED backlog
  BY <1>4
<1>5. ~ConnectionDialled
  BY DEF ConnectionDialled, WireTypeOK
<1> QED BY <1>1, <1>2, <1>3, <1>4, <1>5
        DEF QueueMoves, Listener, AnnounceConnected, ReadFrame, PeerLost, AnnounceDisconnected, TaskTaken,
            queueVars, wireVars

\* It has heard nothing, for as long as it waits.
LEMMA StepWaiting ==
    ASSUME SequencerTypeOK, BridgeTypeOK, ConnectionsInOrder, TrainerFits, WaitingIsSilent,
           [BridgeNext]_bridgeVars
    PROVE  WaitingIsSilent'
<1> USE DEF BridgeTypeOK
<1>1. CASE ClientNext
  <2>1. UNCHANGED <<openConn, trainerVars>> /\ UNCHANGED <<trainer, dials>>
    BY <1>1, ClientKeepsOpen DEF trainerVars
  <2>2. ASSUME NEW i \in DOMAIN backlog', backlog'[i] = openConn'
        PROVE  trainer' = "hello" /\ toTrainer' = <<>>
    <3>1. PICK j \in DOMAIN backlog : backlog'[i] = backlog[j]
      BY <1>1, <2>1, ClientBacklog
    <3>2. trainer = "hello" /\ toTrainer = <<>> /\ ~Linked
      BY <2>1, <2>2, <3>1, WaitingIsUnlinked DEF WaitingIsSilent
    <3>3. UNCHANGED toTrainer
      BY <1>1, <3>2, ClientAdds
    <3> QED BY <2>1, <3>2, <3>3
  <2> QED BY <2>2 DEF WaitingIsSilent
<1>2. CASE TrainerNext
  <2>0. \A i \in DOMAIN backlog : backlog[i] # 0
    BY DEF ConnectionsInOrder, WireTypeOK
  <2>1. CASE Dial
    BY <2>1 DEF Dial, WaitingIsSilent
  <2>2. CASE Closes
    BY <2>0, <2>2 DEF Closes, WaitingIsSilent
  <2>3. CASE Reads
    <3>1. toTrainer # <<>> /\ UNCHANGED <<backlog, openConn>>
      BY <2>3, ReadsFirst
    <3> QED BY <3>1 DEF WaitingIsSilent
  <2>4. CASE TrainerRestarts
    <3>1. openConn = 0 /\ UNCHANGED <<backlog, openConn>>
      BY <2>4 DEF TrainerRestarts, wireVars, TrainerFits
    <3> QED BY <2>0, <3>1 DEF WaitingIsSilent
  <2>5. CASE \E r \in TrainerRounds, v \in TrainerPolicies : Arm(r, v)
    BY <2>5 DEF Arm, WaitingIsSilent
  <2>6. CASE Answer
    BY <2>6 DEF Answer, WaitingIsSilent
  <2> QED BY <1>2, <2>1, <2>2, <2>3, <2>4, <2>5, <2>6, TrainerCases
<1>3. CASE UNCHANGED bridgeVars
  BY <1>3 DEF bridgeVars, wireVars, trainerVars, WaitingIsSilent
<1> QED BY <1>1, <1>2, <1>3 DEF BridgeNext, ClientNext, TrainerNext

\* A client without a peer has nothing to read.
LEMMA StepNobodySends ==
    ASSUME SequencerTypeOK, BridgeTypeOK, ConnectionsInOrder, NobodySends, [BridgeNext]_bridgeVars
    PROVE  NobodySends'
<1> USE DEF BridgeTypeOK
<1>1. CASE ClientNext
  <2>1. CASE UNCHANGED peer
    <3>1. toClient' \in {toClient, <<>>} \/ (toClient # <<>> /\ toClient' = Tail(toClient))
      BY <1>1, ClientReads
    <3> QED BY <2>1, <3>1 DEF NobodySends
  <2>2. CASE Accept
    <3>1. peer' = backlog[1] /\ 1 \in DOMAIN backlog
      BY <2>2, AppendTail DEF Accept, WireTypeOK
    <3>2. peer' # 0
      BY <3>1 DEF ConnectionsInOrder, WireTypeOK
    <3> QED BY <3>2 DEF NobodySends
  <2> QED BY <1>1, <2>1, <2>2, PeerMoves DEF NobodySends
<1>2. CASE TrainerNext
  <2>1. UNCHANGED peer
    BY <1>2, TrainerKeepsClient
  <2>2. ASSUME NEW f, TrainerWrites(f) PROVE NobodySends'
    BY <2>1, <2>2 DEF TrainerWrites, Linked, NobodySends
  <2>3. UNCHANGED toClient => NobodySends'
    BY <2>1 DEF NobodySends
  <2>4. CASE Closes
    BY <2>2, <2>3, <2>4 DEF Closes
  <2>5. CASE Reads
    BY <2>3, <2>5, ReadsFirst
  <2>6. CASE Dial \/ TrainerRestarts
    BY <2>3, <2>6 DEF Dial, TrainerRestarts, wireVars
  <2>7. CASE \E r \in TrainerRounds, v \in TrainerPolicies : Arm(r, v)
    BY <2>2, <2>7 DEF Arm
  <2>8. CASE Answer
    BY <2>2, <2>8 DEF Answer
  <2> QED BY <1>2, <2>4, <2>5, <2>6, <2>7, <2>8, TrainerCases
<1>3. CASE UNCHANGED bridgeVars
  BY <1>3 DEF bridgeVars, wireVars, NobodySends
<1> QED BY <1>1, <1>2, <1>3 DEF BridgeNext, ClientNext, TrainerNext

\* What a turn of the round adds says nothing of sessions.
LEMMA TurnFrames ==
    ASSUME SequencerInv, Turns
    PROVE  /\ UNCHANGED session
           /\ \/ UNCHANGED toTrainer
              \/ \E fs \in Seq(ClientFrames) :
                    ClientWrites(fs) /\ \A k \in DOMAIN fs : fs[k].type # "connection_hello"
<1>0. /\ session \in AnySession /\ activeArm \in Arms \cup {NoArm} /\ pendingArm \in Arms \cup {NoArm}
      /\ actSeq \in Nat /\ obsSeq \in Nat /\ actSeq + 1 \in Nat /\ runningAction \in Actions \cup {NoAction}
  BY DEF SequencerInv, SequencerTypeOK, AnySession
<1>1. ASSUME NEW e \in ClientFrames, NEW f \in ClientFrames, ClientWrites(<<e, f>>),
             e.type # "connection_hello", f.type # "connection_hello"
      PROVE  \E fs \in Seq(ClientFrames) :
                ClientWrites(fs) /\ \A k \in DOMAIN fs : fs[k].type # "connection_hello"
  <2> DEFINE fs == <<e, f>>
  <2>1. fs \in Seq(ClientFrames) /\ DOMAIN fs = {1, 2} /\ fs[1] = e /\ fs[2] = f
    BY PairsAreSequences
  <2> HIDE DEF fs
  <2>2. ClientWrites(fs)
    BY <1>1 DEF fs
  <2> QED BY <1>1, <2>1, <2>2
<1>2. CASE KeepsRound \/ Silences
  BY <1>2 DEF KeepsRound, Silences
<1>3. CASE TakesArm \/ TakesAction
  BY <1>3 DEF TakesArm, TakesAction, ArmAccepted, ActionQueued
<1>4. CASE Reports
  <2> DEFINE fs == <<ErrorFrame(session)>>
  <2>1. fs \in Seq(ClientFrames) /\ \A k \in DOMAIN fs : fs[k].type # "connection_hello"
    <3>1. ErrorFrame(session) \in ClientFrames
      BY <1>0, FrameTypes DEF ClientFrames
    <3> QED BY <3>1 DEF ErrorFrame
  <2> QED BY <1>4, <2>1 DEF Reports
<1>5. CASE Starts
  <2>1. /\ EpisodeReady(session, pendingArm) \in ClientFrames
        /\ Observation(session, pendingArm, 0, 0, FALSE) \in ClientFrames
    BY <1>0, FrameTypes DEF ClientFrames
  <2>2. UNCHANGED session /\ ClientWrites(<<EpisodeReady(session, pendingArm),
                                            Observation(session, pendingArm, 0, 0, FALSE)>>)
    BY <1>5 DEF Starts, EpisodeStarted
  <2> QED BY <1>1, <2>1, <2>2 DEF EpisodeReady, Observation
<1>6. CASE Completes
  <2>1. /\ Applied(session, runningAction) \in ClientFrames
        /\ Observation(session, activeArm, actSeq + 1, actSeq + 1, FALSE) \in ClientFrames
    BY <1>0, FrameTypes DEF ClientFrames
  <2>2. UNCHANGED session /\ ClientWrites(HeldFrames)
    BY <1>6 DEF Completes, CompleteAction
  <2> QED BY <1>1, <2>1, <2>2 DEF HeldFrames, Applied, Observation
<1>7. CASE Finishes
  <2>1. PICK p \in Packets : (PlayerEliminated(p) \/ RoundCompleted(p)) /\ Ending(p) \in Outcomes
                                /\ ClientWrites(EndFrames(p))
    BY <1>7 DEF Finishes
  <2>2. /\ Observation(session, activeArm, obsSeq, actSeq, TRUE) \in ClientFrames
        /\ Result(session, activeArm, obsSeq, Ending(p)) \in ClientFrames
    BY <1>0, <2>1, FrameTypes DEF ClientFrames
  <2>3. UNCHANGED session
    BY <2>1 DEF PlayerEliminated, RoundCompleted, MarkTerminal
  <2> QED BY <1>1, <2>1, <2>2, <2>3 DEF EndFrames, Observation, Result
<1> QED BY <1>2, <1>3, <1>4, <1>5, <1>6, <1>7 DEF Turns

\* A hello that the trainer is sent is of the session that was drawn for it.
LEMMA StepSessionsDrawn ==
    ASSUME SequencerInv, SequencerTypeOK, BridgeTypeOK, SessionsAreDrawn, [BridgeNext]_bridgeVars
    PROVE  SessionsAreDrawn'
<1> USE DEF BridgeTypeOK
<1>0. toTrainer \in Seq(ClientFrames)
  BY DEF WireTypeOK
<1>1. ASSUME NEW fs \in Seq(ClientFrames), toTrainer' = toTrainer \o fs, drawn \subseteq drawn',
             \A k \in DOMAIN fs : fs[k].type = "connection_hello" => fs[k].session \in drawn',
             NEW i \in DOMAIN toTrainer', toTrainer'[i].type = "connection_hello"
      PROVE  toTrainer'[i].session \in drawn'
  <2>1. /\ \A j \in DOMAIN toTrainer : toTrainer'[j] = toTrainer[j]
        /\ i \in DOMAIN toTrainer \/ (i - Len(toTrainer) \in DOMAIN fs /\ toTrainer'[i] = fs[i - Len(toTrainer)])
    BY <1>0, <1>1, Concatenated
  <2>2. CASE i \in DOMAIN toTrainer
    BY <1>1, <2>1, <2>2 DEF SessionsAreDrawn
  <2>3. CASE i - Len(toTrainer) \in DOMAIN fs /\ toTrainer'[i] = fs[i - Len(toTrainer)]
    BY <1>1, <2>3
  <2> QED BY <2>1, <2>2, <2>3
<1>2. CASE ClientNext
  <2>0. UNCHANGED <<trainer, tSession>>
    BY <1>2, ClientKeepsOpen DEF trainerVars
  <2>1. CASE Turns /\ UNCHANGED drawn
    <3>1. UNCHANGED session
      BY <2>1, TurnFrames
    <3>2. CASE UNCHANGED toTrainer
      BY <2>0, <2>1, <3>1, <3>2 DEF SessionsAreDrawn
    <3>3. CASE \E fs \in Seq(ClientFrames) :
                    ClientWrites(fs) /\ \A k \in DOMAIN fs : fs[k].type # "connection_hello"
      <4>1. PICK fs \in Seq(ClientFrames) :
                    ClientWrites(fs) /\ \A k \in DOMAIN fs : fs[k].type # "connection_hello"
        BY <3>3
      <4>2. UNCHANGED toTrainer \/ toTrainer' = toTrainer \o fs
        BY <4>1 DEF ClientWrites
      <4>3. CASE toTrainer' = toTrainer \o fs
        <5>1. \A i \in DOMAIN toTrainer' :
                toTrainer'[i].type = "connection_hello" => toTrainer'[i].session \in drawn'
          BY <1>1, <2>1, <4>1, <4>3
        <5> QED BY <2>0, <2>1, <3>1, <5>1 DEF SessionsAreDrawn
      <4> QED BY <3>2, <4>2, <4>3
    <3> QED BY <2>1, <3>2, <3>3, TurnFrames
  <2>2. CASE Begins
    <3>1. PICK s \in Sessions : s = FreshSession
      BY <2>2, FreshSessions DEF Begins, SessionBegins, SessionBeginsUnsent
    <3>2. drawn' = drawn \cup {s} /\ session' = s
      BY <2>2, <3>1 DEF Begins, SessionBegins, SessionBeginsUnsent, StartSession
    <3>3. CASE UNCHANGED toTrainer
      BY <2>0, <3>2, <3>3 DEF SessionsAreDrawn
    <3>4. CASE toTrainer' = toTrainer \o <<Hello(s), Ready(s)>>
      <4>1. Hello(s) \in ClientFrames /\ Ready(s) \in ClientFrames
        BY FrameTypes DEF ClientFrames, AnySession
      <4>2. Hello(s).session = s /\ Ready(s).type # "connection_hello"
        BY DEF Hello, Ready
      <4>3. PICK fs \in Seq(ClientFrames) : fs = <<Hello(s), Ready(s)>>
        BY <4>1, PairsAreSequences
      <4>4. DOMAIN fs = {1, 2} /\ fs[1] = Hello(s) /\ fs[2] = Ready(s)
        BY <4>3
      <4>5. \A k \in DOMAIN fs : fs[k].type = "connection_hello" => fs[k].session \in drawn'
        BY <3>2, <4>2, <4>4
      <4>6. \A i \in DOMAIN toTrainer' :
                toTrainer'[i].type = "connection_hello" => toTrainer'[i].session \in drawn'
        BY <1>1, <3>2, <3>4, <4>3, <4>5
      <4> QED BY <2>0, <3>2, <4>6 DEF SessionsAreDrawn
    <3> QED BY <2>2, <3>1, <3>3, <3>4 DEF Begins, SessionBegins, SessionBeginsUnsent, ClientWrites
  <2> QED BY <1>2, <2>1, <2>2, ClientTurns
<1>3. CASE TrainerNext
  <2>0. UNCHANGED <<drawn, session>>
    BY <1>3, TrainerKeepsClient DEF seqVars
  <2>1. CASE Dial
    BY <2>0, <2>1 DEF Dial, SessionsAreDrawn
  <2>2. CASE Closes
    BY <2>0, <2>2 DEF Closes, SessionsAreDrawn
  <2>3. CASE Reads
    <3>1. \A i \in DOMAIN toTrainer' : i + 1 \in DOMAIN toTrainer /\ toTrainer'[i] = toTrainer[i + 1]
      BY <2>3, ReadsFirst
    <3>2. \A i \in DOMAIN toTrainer' :
                toTrainer'[i].type = "connection_hello" => toTrainer'[i].session \in drawn'
      BY <2>0, <3>1 DEF SessionsAreDrawn
    <3>3. CASE ReceiveHello
      <4>1. tSession' = Message.session /\ Message.type = "connection_hello"
        BY <3>3 DEF ReceiveHello, Receive
      <4>2. tSession' \in drawn
        BY <2>3, <4>1, ReadsFirst DEF SessionsAreDrawn
      <4> QED BY <2>0, <3>2, <4>2 DEF SessionsAreDrawn
    <3>4. CASE ~ReceiveHello
      <4>1. UNCHANGED tSession /\ trainer \in {"ready", "idle", "arming", "deciding", "stepping"}
        BY <2>3, <3>4 DEF Reads, ReceiveReady, ReceiveEpisodeReady, ReceiveInitialObservation,
             ReceiveApplied, ReceiveNextObservation, ReceiveTerminalObservation, ReceiveResult,
             StepReturns
      <4> QED BY <2>0, <3>2, <4>1 DEF SessionsAreDrawn
    <3> QED BY <3>3, <3>4
  <2>4. CASE TrainerRestarts
    BY <2>0, <2>4 DEF TrainerRestarts, wireVars, SessionsAreDrawn
  <2>5. CASE \E r \in TrainerRounds, v \in TrainerPolicies : Arm(r, v)
    BY <2>0, <2>5 DEF Arm, SessionsAreDrawn
  <2>6. CASE Answer
    BY <2>0, <2>6 DEF Answer, SessionsAreDrawn
  <2> QED BY <1>3, <2>1, <2>2, <2>3, <2>4, <2>5, <2>6, TrainerCases
<1>4. CASE UNCHANGED bridgeVars
  BY <1>4 DEF bridgeVars, wireVars, clientVars, sessionVars, trainerVars, seqVars, SessionsAreDrawn
<1> QED BY <1>2, <1>3, <1>4 DEF BridgeNext, ClientNext, TrainerNext

-----------------------------------------------------------------------------
(* What is on the way to the client *)

\* A client that keeps its peer only handles what is on the way.
LEMMA OnTheWayShrinks ==
    ASSUME WireTypeOK, ServerTypeOK, ClientNext, UNCHANGED peer, NEW f, OnTheWay(f)'
    PROVE  OnTheWay(f)
<1> USE DEF WireTypeOK
<1>1. toClient' \in {toClient, <<>>} \/ (toClient # <<>> /\ toClient' = Tail(toClient))
  BY ClientReads
<1>2. ASSUME NEW i \in DOMAIN toClient', toClient'[i] = f PROVE OnTheWay(f)
  <2>1. CASE toClient' \in {toClient, <<>>}
    BY <1>2, <2>1 DEF OnTheWay
  <2>2. CASE toClient # <<>> /\ toClient' = Tail(toClient)
    <3>1. i + 1 \in DOMAIN toClient /\ toClient[i + 1] = f
      BY <1>2, <2>2, AppendTail
    <3> QED BY <3>1 DEF OnTheWay
  <2> QED BY <1>1, <2>1, <2>2
<1>3. ASSUME NEW k \in DOMAIN tasks', IsMessage(tasks[k])', tasks'[k].frame = f PROVE OnTheWay(f)
  <2>0. tasks'[k].kind = "message" /\ tasks'[k].conn = peer
    BY <1>3 DEF IsMessage
  <2>1. ASSUME NEW j \in DOMAIN tasks, tasks'[k] = tasks[j] PROVE OnTheWay(f)
    BY <1>3, <2>0, <2>1 DEF IsMessage, OnTheWay
  <2>2. ASSUME NEW t \in Tasks, QueueTask(t) PROVE (\E j \in DOMAIN tasks : tasks'[k] = tasks[j]) \/ tasks'[k] = t
    <3>1. /\ DOMAIN tasks' = 1..(Len(tasks) + 1) /\ DOMAIN tasks = 1..Len(tasks) /\ Len(tasks) \in Nat
          /\ \A j \in DOMAIN tasks : tasks'[j] = tasks[j]
          /\ tasks'[Len(tasks) + 1] = t
      BY <2>2, AppendTail DEF QueueTask
    <3>2. PICK n \in Nat : n = Len(tasks)
      BY <3>1
    <3>3. DOMAIN tasks' = 1..(n + 1) /\ DOMAIN tasks = 1..n
      BY <3>1, <3>2
    <3>4. k \in 1..(n + 1)
      BY <1>3, <3>3
    <3>5. k \in 1..n \/ k = n + 1
      BY <3>4
    <3> QED BY <3>1, <3>2, <3>3, <3>5
  <2>3. CASE AnnounceConnected
    <3> DEFINE t == [kind |-> "connected", conn |-> peer]
    <3>1. t \in Tasks /\ QueueTask(t) /\ t.kind # "message"
      BY <2>3 DEF Tasks, Connecteds, AnnounceConnected
    <3> QED BY <2>0, <2>1, <2>2, <3>1
  <2>4. CASE ReadFrame
    <3> DEFINE t == [kind |-> "message", conn |-> peer, frame |-> Head(toClient)]
    <3>1. Head(toClient) \in TrainerFrames /\ Head(toClient) = toClient[1] /\ 1 \in DOMAIN toClient
      BY <2>4, AppendTail DEF ReadFrame
    <3>2. t \in Tasks /\ QueueTask(t) /\ t.frame = toClient[1]
      BY <2>4, <3>1 DEF Tasks, Messages, ReadFrame
    <3> HIDE DEF t
    <3>3. CASE tasks'[k] = t
      BY <1>3, <3>1, <3>2, <3>3 DEF OnTheWay
    <3> QED BY <2>1, <2>2, <3>2, <3>3
  <2>5. CASE AnnounceDisconnected
    <3> DEFINE t == [kind |-> "disconnected"]
    <3>1. t \in Tasks /\ QueueTask(t) /\ t.kind # "message"
      BY <2>5 DEF Tasks, AnnounceDisconnected
    <3> QED BY <2>0, <2>1, <2>2, <3>1
  <2>6. CASE TaskTaken
    <3>1. k + 1 \in DOMAIN tasks /\ tasks'[k] = tasks[k + 1]
      BY <2>6, AppendTail DEF TaskTaken
    <3> QED BY <2>1, <3>1
  <2>7. CASE UNCHANGED tasks
    BY <2>1, <2>7
  <2>8. QueueMoves
    BY StepQueues DEF BridgeNext, ClientNext
  <2> QED BY <2>3, <2>4, <2>5, <2>6, <2>7, <2>8
          DEF QueueMoves, Listener, Accept, PeerLost, ConnectionDialled, ServerClosed, queueVars
<1> QED BY <1>2, <1>3 DEF OnTheWay

\* To a connection that has just been accepted nothing is.
LEMMA NothingOnTheWay ==
    ASSUME WireTypeOK, PeerOfAcceptor, ConnectionsInOrder, NobodySends, Accept, NEW f
    PROVE  ~OnTheWay(f)'
<1>1. toClient' = <<>> /\ UNCHANGED tasks
  BY DEF Accept, PeerOfAcceptor, NobodySends
<1>2. peer' = backlog[1] /\ 1 \in DOMAIN backlog
  BY AppendTail DEF Accept, WireTypeOK
<1>3. \A k \in DOMAIN tasks : tasks[k].kind = "message" => tasks[k].conn \in Nat /\ tasks[k].conn < peer'
  BY <1>2 DEF WireTypeOK, Tasks, Connecteds, Messages, ConnectionsInOrder, About
<1>4. \A k \in DOMAIN tasks : tasks[k].kind = "message" => tasks[k].conn # peer'
  BY <1>2, <1>3 DEF WireTypeOK
<1> QED BY <1>1, <1>4 DEF OnTheWay, IsMessage

\* A client's step either keeps the link and what is on the way, or opens a link that
\* nothing is on the way over, or leaves none.
LEMMA LinkMoves ==
    ASSUME SequencerTypeOK, BridgeTypeOK, PeerOfAcceptor, ConnectionsInOrder, WaitingIsSilent,
           NobodySends, ClientNext, Linked'
    PROVE  \/ /\ Linked /\ UNCHANGED peer
              /\ \A f : OnTheWay(f)' => OnTheWay(f)
           \/ /\ Accept /\ ~Linked /\ trainer = "hello" /\ toTrainer' = <<>>
              /\ \A f : ~OnTheWay(f)'
<1> USE DEF BridgeTypeOK
<1>0. UNCHANGED openConn
  BY ClientKeepsOpen
<1>1. CASE UNCHANGED peer
  BY <1>0, <1>1, OnTheWayShrinks DEF Linked
<1>2. CASE Accept
  <2>1. peer' = backlog[1] /\ 1 \in DOMAIN backlog /\ UNCHANGED toTrainer
    BY <1>2, AppendTail DEF Accept, WireTypeOK
  <2>2. backlog[1] = openConn
    BY <1>0, <2>1 DEF Linked
  <2>3. ~Linked /\ trainer = "hello" /\ toTrainer = <<>>
    BY <2>1, <2>2, WaitingIsUnlinked DEF WaitingIsSilent
  <2> QED BY <1>2, <2>1, <2>3, NothingOnTheWay
<1>3. peer' # 0
  BY DEF Linked
<1> QED BY <1>1, <1>2, <1>3, PeerMoves

\* What a trainer writes joins what is on the way, and that is all.
LEMMA OnTheWayGrows ==
    ASSUME WireTypeOK, UNCHANGED <<tasks, peer>>, NEW g \in TrainerFrames, TrainerWrites(g),
           NEW f, OnTheWay(f)'
    PROVE  OnTheWay(f) \/ f = g
<1> USE DEF WireTypeOK
<1>1. ASSUME NEW k \in DOMAIN tasks', IsMessage(tasks[k])', tasks'[k].frame = f PROVE OnTheWay(f)
  BY <1>1 DEF IsMessage, OnTheWay
<1>2. ASSUME NEW i \in DOMAIN toClient', toClient'[i] = f PROVE OnTheWay(f) \/ f = g
  <2>1. CASE UNCHANGED toClient
    BY <1>2, <2>1 DEF OnTheWay
  <2>2. CASE toClient' = Append(toClient, g)
    <3>1. /\ DOMAIN toClient' = 1..(Len(toClient) + 1) /\ DOMAIN toClient = 1..Len(toClient)
          /\ \A j \in DOMAIN toClient : toClient'[j] = toClient[j]
          /\ toClient'[Len(toClient) + 1] = g /\ Len(toClient) \in Nat
      BY <2>2, AppendTail
    <3>2. i \in DOMAIN toClient \/ i = Len(toClient) + 1
      BY <3>1
    <3> QED BY <1>2, <3>1, <3>2 DEF OnTheWay
  <2> QED BY <2>1, <2>2 DEF TrainerWrites
<1> QED BY <1>1, <1>2 DEF OnTheWay

\* And nothing joins it otherwise.
LEMMA OnTheWaySame ==
    ASSUME UNCHANGED <<tasks, peer, toClient>>, NEW f, OnTheWay(f)'
    PROVE  OnTheWay(f)
  BY DEF OnTheWay, IsMessage

\* What the frames of a trainer are numbered by.
LEMMA FrameNumbers ==
    ASSUME NEW f \in TrainerFrames
    PROVE  /\ f.type = "arm_episode" => f.arm \in Arms /\ f.arm.round \in Nat \ {0}
           /\ f.type = "action_request" => f.action \in Actions /\ f.action.round \in Nat
                                           /\ f.action.act \in Nat
<1>1. f.type = "arm_episode" => f.arm \in Arms
  BY DEF TrainerFrames
<1>2. f.type = "action_request" => f.action \in Actions
  BY DEF TrainerFrames
<1>3. \A a \in Arms : a.round \in Nat \ {0}
  BY SequencerAssumption DEF Arms
<1>4. \A x \in Actions : x.round \in Nat /\ x.act \in Nat
  BY SequencerAssumption DEF Actions
<1> QED BY <1>1, <1>2, <1>3, <1>4

\* What is on the way is what this trainer can have sent.
LEMMA StepMessagesFit ==
    ASSUME SequencerTypeOK, BridgeTypeOK, PeerOfAcceptor, ConnectionsInOrder, WaitingIsSilent,
           NobodySends, TrainerFits, MessagesFit, [BridgeNext]_bridgeVars
    PROVE  MessagesFit'
<1> USE DEF BridgeTypeOK
<1>1. CASE ClientNext
  <2>1. UNCHANGED <<trainer, armedRound, answered>>
    BY <1>1, ClientKeepsOpen DEF trainerVars
  <2>2. ASSUME Linked', NEW f \in TrainerFrames, OnTheWay(f)' PROVE Sent(f)'
    <3>1. Linked /\ OnTheWay(f)
      BY <1>1, <2>2, LinkMoves
    <3> QED BY <2>1, <3>1 DEF MessagesFit, Sent
  <2> QED BY <2>2 DEF MessagesFit
<1>2. CASE TrainerNext
  <2>0. UNCHANGED <<tasks, peer>> /\ peer <= dials /\ peer \in Nat /\ dials \in Nat
    BY <1>2, TrainerKeepsClient DEF ConnectionsInOrder, WireTypeOK
  <2>1. CASE Dial
    <3>1. openConn' = dials + 1
      BY <2>1 DEF Dial
    <3> QED BY <2>0, <3>1 DEF Linked, MessagesFit
  <2>2. CASE Closes
    BY <2>2 DEF Closes, Linked, MessagesFit
  <2>3. CASE Reads
    <3>1. UNCHANGED <<openConn, toClient>>
      BY <2>3, ReadsFirst
    <3>2. UNCHANGED armedRound /\ (UNCHANGED answered \/ trainer = "arming")
          /\ (trainer' = "arming" => trainer = "arming" /\ UNCHANGED answered)
      BY <2>3 DEF Reads, ReceiveHello, ReceiveReady, ReceiveEpisodeReady, ReceiveInitialObservation,
             ReceiveApplied, ReceiveNextObservation, ReceiveTerminalObservation, ReceiveResult,
             StepReturns
    <3>3. ASSUME Linked', NEW f \in TrainerFrames, OnTheWay(f)' PROVE Sent(f)'
      <4>1. Linked /\ Sent(f)
        BY <2>0, <3>1, <3>3, OnTheWaySame DEF Linked, MessagesFit
      <4> QED BY <3>2, <4>1 DEF Sent
    <3> QED BY <3>3 DEF MessagesFit
  <2>4. CASE TrainerRestarts
    BY <2>0, <2>4 DEF TrainerRestarts, wireVars, TrainerFits, Linked, MessagesFit
  <2>5. ASSUME NEW r \in TrainerRounds, NEW v \in TrainerPolicies, Arm(r, v) PROVE MessagesFit'
    <3> DEFINE a == [request |-> 1, round |-> r, policy |-> v]
               g == ArmFrame(tSession, a)
    <3>1. /\ armedRound' = a /\ trainer' = "arming" /\ TrainerWrites(g) /\ UNCHANGED <<openConn, answered>>
          /\ r > armedRound.round /\ r \in Nat /\ armedRound.round \in Nat /\ trainer = "idle"
      BY <2>5, TrainerAssumption DEF Arm, TrainerTypeOK
    <3>2. g \in TrainerFrames
      BY <3>1, RequestTypes
    <3>3. g.type = "arm_episode" /\ g.arm.round = r /\ a.round = r
      BY DEF ArmFrame
    <3> HIDE DEF g, a
    <3>4. ASSUME Linked', NEW f \in TrainerFrames, OnTheWay(f)' PROVE Sent(f)'
      <4>1. Linked
        BY <2>0, <3>1, <3>4 DEF Linked
      <4>2. CASE OnTheWay(f)
        <5>1. Sent(f)
          BY <4>1, <4>2 DEF MessagesFit
        <5>2. /\ f.type = "arm_episode" => f.arm.round <= r
              /\ f.type = "action_request" => f.action.round < r
          BY <3>1, <5>1, FrameNumbers DEF Sent
        <5> QED BY <3>1, <3>3, <5>1, <5>2 DEF Sent
      <4>3. CASE f = g
        BY <3>1, <3>3, <4>3 DEF Sent
      <4> QED BY <2>0, <3>1, <3>2, <3>4, <4>2, <4>3, OnTheWayGrows
    <3> QED BY <3>4 DEF MessagesFit
  <2>6. CASE Answer
    <3> DEFINE x == [round |-> armedRound.round, policy |-> armedRound.policy,
                     obs |-> answered.act, act |-> answered.act + 1]
               g == ActionFrame(tSession, x)
    <3>1. /\ answered' = x /\ trainer' = "stepping" /\ TrainerWrites(g) /\ UNCHANGED <<openConn, armedRound>>
          /\ trainer = "deciding" /\ answered.act \in Nat
      BY <2>6 DEF Answer, TrainerTypeOK
    <3>2. g \in TrainerFrames
      <4>1. x \in Actions
        BY <2>6, <3>1, RequestTypes DEF Answer, TrainerTypeOK
      <4>2. tSession \in Sessions
        BY <3>1 DEF TrainerTypeOK
      <4> QED BY <4>1, <4>2 DEF ActionFrame, TrainerFrames
    <3>3. g.type = "action_request" /\ g.action.round = armedRound.round
          /\ g.action.act = answered.act + 1 /\ x.act = answered.act + 1
      BY DEF ActionFrame
    <3> HIDE DEF g, x
    <3>4. ASSUME Linked', NEW f \in TrainerFrames, OnTheWay(f)' PROVE Sent(f)'
      <4>1. Linked
        BY <2>0, <3>1, <3>4 DEF Linked
      <4>2. CASE OnTheWay(f)
        <5>1. Sent(f)
          BY <4>1, <4>2 DEF MessagesFit
        <5> QED BY <3>1, <3>3, <5>1, FrameNumbers DEF Sent
      <4>3. CASE f = g
        BY <3>1, <3>3, <4>3 DEF Sent
      <4> QED BY <2>0, <3>1, <3>2, <3>4, <4>2, <4>3, OnTheWayGrows
    <3> QED BY <3>4 DEF MessagesFit
  <2> QED BY <1>2, <2>1, <2>2, <2>3, <2>4, <2>5, <2>6, TrainerCases
<1>3. CASE UNCHANGED bridgeVars
  <2>1. UNCHANGED <<tasks, peer, toClient, openConn, trainer, armedRound, answered>>
    BY <1>3 DEF bridgeVars, wireVars, clientVars, trainerVars
  <2> QED BY <2>1, OnTheWaySame DEF MessagesFit, Linked, Sent
<1> QED BY <1>1, <1>2, <1>3 DEF BridgeNext, ClientNext, TrainerNext

-----------------------------------------------------------------------------
(* What the client adds, behind what it has said *)

\* Up to position k everything is on the wire, and no error.
Spoken(k) == \A j \in 1..(k - 1) : j \in DOMAIN toTrainer /\ toTrainer[j].type # "error"

\* If the client then stops, an error is what follows, or nothing does.
LEMMA SpokenStops ==
    ASSUME WireTypeOK, NEW k \in Nat \ {0}, Spoken(k), Stop(k)
    PROVE  /\ ~Clean => k \in DOMAIN toTrainer
           /\ Clean => Len(toTrainer) = k - 1
<1>1. DOMAIN toTrainer = 1..Len(toTrainer) /\ Len(toTrainer) \in Nat
  BY DEF WireTypeOK
<1>2. ASSUME ~Clean PROVE k \in DOMAIN toTrainer
  <2>1. PICK i \in DOMAIN toTrainer : toTrainer[i].type = "error"
    BY <1>2 DEF Clean
  <2>2. ~(i \in 1..(k - 1))
    BY <2>1 DEF Spoken
  <2>3. i \in Nat /\ i >= k
    BY <1>1, <2>1, <2>2
  <2> QED BY <1>1, <2>3
<1>3. ASSUME Clean PROVE Len(toTrainer) = k - 1
  <2>1. k \notin DOMAIN toTrainer
    BY <1>3 DEF Clean, Stop
  <2>2. k = 1 \/ k - 1 \in 1..(k - 1)
    OBVIOUS
  <2>3. k = 1 \/ k - 1 \in DOMAIN toTrainer
    BY <2>2 DEF Spoken
  <2> QED BY <1>1, <2>1, <2>3
<1> QED BY <1>2, <1>3

\* An error where it stops.
LEMMA SaysError ==
    ASSUME WireTypeOK, SequencerTypeOK, Linked, ClientWrites(<<ErrorFrame(session)>>)
    PROVE  ~Clean' /\ \A k \in Nat : Stop(k) => Stop(k)'
<1> DEFINE e == ErrorFrame(session)
<1>1. e \in ClientFrames
  BY FrameTypes DEF SequencerTypeOK, AnySession, ClientFrames
<1>2. e.type = "error"
  BY DEF ErrorFrame
<1>3. toTrainer' = toTrainer \o <<e>>
  BY DEF ClientWrites
<1> HIDE DEF e
<1>4. toTrainer' = Append(toTrainer, e)
  BY <1>1, <1>3 DEF WireTypeOK
<1>5. /\ DOMAIN toTrainer' = 1..(Len(toTrainer) + 1) /\ DOMAIN toTrainer = 1..Len(toTrainer)
      /\ \A i \in DOMAIN toTrainer : toTrainer'[i] = toTrainer[i]
      /\ toTrainer'[Len(toTrainer) + 1] = e /\ Len(toTrainer) \in Nat
  BY <1>1, <1>4, AppendTail DEF WireTypeOK
<1>6. ~Clean'
  BY <1>2, <1>5 DEF Clean
<1>7. ASSUME NEW k \in Nat, Stop(k) PROVE Stop(k)'
  <2>1. k \in DOMAIN toTrainer' => k \in DOMAIN toTrainer \/ k = Len(toTrainer) + 1
    BY <1>5
  <2> QED BY <1>2, <1>5, <1>7, <2>1 DEF Stop
<1> QED BY <1>6, <1>7

\* Two frames where it stopped, unless that was at an error.
LEMMA SaysTwo ==
    ASSUME WireTypeOK, Linked, NEW e \in ClientFrames, NEW f \in ClientFrames,
           ClientWrites(<<e, f>>), NEW k \in Nat \ {0}, Spoken(k), Stop(k)
    PROVE  /\ ~Clean => Stop(k)' /\ ~Clean'
           /\ Clean => /\ k \in DOMAIN toTrainer' /\ toTrainer'[k] = e
                       /\ k + 1 \in DOMAIN toTrainer' /\ toTrainer'[k + 1] = f
                       /\ \A j \in Nat : j > k + 1 => Stop(j)'
<1>1. PICK fs \in Seq(ClientFrames) : fs = <<e, f>>
  BY PairsAreSequences
<1>2. toTrainer' = toTrainer \o fs /\ DOMAIN fs = {1, 2} /\ fs[1] = e /\ fs[2] = f /\ Len(fs) = 2
  BY <1>1 DEF ClientWrites
<1>3. /\ DOMAIN toTrainer = 1..Len(toTrainer) /\ Len(toTrainer) \in Nat
      /\ DOMAIN toTrainer' = 1..(Len(toTrainer) + 2)
      /\ \A i \in DOMAIN toTrainer : toTrainer'[i] = toTrainer[i]
      /\ \A i \in DOMAIN toTrainer' :
            i \in DOMAIN toTrainer \/ toTrainer'[i] = fs[i - Len(toTrainer)]
  <2>1. toTrainer \in Seq(ClientFrames)
    BY DEF WireTypeOK
  <2>2. toTrainer' = toTrainer \o fs /\ Len(fs) = 2
    BY <1>2
  <2>3. /\ DOMAIN toTrainer = 1..Len(toTrainer) /\ Len(toTrainer) \in Nat
        /\ DOMAIN (toTrainer \o fs) = 1..(Len(toTrainer) + Len(fs))
        /\ \A i \in DOMAIN toTrainer : (toTrainer \o fs)[i] = toTrainer[i]
        /\ \A i \in DOMAIN (toTrainer \o fs) :
              i \in DOMAIN toTrainer \/ (toTrainer \o fs)[i] = fs[i - Len(toTrainer)]
    BY <2>1, Concatenated
  <2> QED BY <2>2, <2>3
<1>4. ASSUME ~Clean PROVE Stop(k)' /\ ~Clean'
  <2>1. k \in DOMAIN toTrainer /\ toTrainer[k].type = "error"
    BY <1>4, SpokenStops DEF Stop
  <2>2. k \in DOMAIN toTrainer' /\ toTrainer'[k].type = "error"
    BY <1>3, <2>1
  <2> QED BY <2>2 DEF Stop, Clean
<1>5. ASSUME Clean
      PROVE  /\ k \in DOMAIN toTrainer' /\ toTrainer'[k] = e
             /\ k + 1 \in DOMAIN toTrainer' /\ toTrainer'[k + 1] = f
             /\ \A j \in Nat : j > k + 1 => Stop(j)'
  <2>1. Len(toTrainer) = k - 1
    BY <1>5, SpokenStops
  <2>2. k \in DOMAIN toTrainer' /\ k \notin DOMAIN toTrainer /\ k - Len(toTrainer) = 1
    BY <1>3, <2>1
  <2>3. k + 1 \in DOMAIN toTrainer' /\ k + 1 \notin DOMAIN toTrainer /\ (k + 1) - Len(toTrainer) = 2
    BY <1>3, <2>1
  <2>4. toTrainer'[k] = fs[1] /\ toTrainer'[k + 1] = fs[2]
    BY <1>3, <2>2, <2>3
  <2>5. \A j \in Nat : j > k + 1 => j \notin DOMAIN toTrainer'
    BY <1>3, <2>1
  <2> QED BY <1>2, <2>2, <2>3, <2>4, <2>5 DEF Stop
<1> QED BY <1>4, <1>5

-----------------------------------------------------------------------------
(* A step of the client in a session *)

Conversing ==
    /\ BridgeInv
    /\ ConversationInv
    /\ InSession
    /\ Linked'
    /\ Turns
    /\ UNCHANGED trainerVars

\* The message it handles is one that the trainer can have sent.
LEMMA CurrentIsSent ==
    ASSUME WireTypeOK, MessagesFit, Linked, TakeTask("message"), CurrentTask
    PROVE  /\ Head(tasks).frame \in TrainerFrames
           /\ OnTheWay(Head(tasks).frame)
           /\ Sent(Head(tasks).frame)
<1>1. Head(tasks) = tasks[1] /\ 1 \in DOMAIN tasks
  BY AppendTail DEF TakeTask, WireTypeOK
<1>2. Head(tasks).frame \in TrainerFrames
  BY HeadFrames DEF TakeTask
<1>3. OnTheWay(Head(tasks).frame)
  BY <1>1 DEF TakeTask, CurrentTask, OnTheWay, IsMessage
<1> QED BY <1>2, <1>3 DEF MessagesFit

\* While a disconnection is to be handled, none is.
LEMMA CurrentMeetsNoDisconnection ==
    ASSUME WireTypeOK, PeerOfAcceptor, ConnectionsInOrder, DisconnectionsFirst,
           TakeTask("message"), CurrentTask, NEW d \in DOMAIN tasks
    PROVE  tasks[d].kind # "disconnected"
<1>1. 1 \in DOMAIN tasks /\ Head(tasks) = tasks[1] /\ DOMAIN tasks = 1..Len(tasks) /\ Len(tasks) \in Nat
  BY AppendTail DEF WireTypeOK, TakeTask
<1>2. IsMessage(tasks[1]) /\ About(tasks[1])
  BY <1>1 DEF CurrentTask, TakeTask, IsMessage, About
<1>3. tasks[1].conn > 0 /\ tasks[1].conn = peer
  BY <1>1, <1>2 DEF ConnectionsInOrder, IsMessage
<1>4. acceptor = "reading"
  BY <1>1, <1>2, <1>3 DEF ConnectionsInOrder, PeerOfAcceptor
<1>5. \A j \in DOMAIN tasks : 1 \in 1..j
  BY <1>1
<1>6. ~AnnouncedAfter(d)
  BY <1>2, <1>5 DEF AnnouncedAfter
<1> QED BY <1>4, <1>6 DEF DisconnectionsFirst

\* Nothing is ended in silence but what has not begun.
LEMMA SilenceEndsNothing ==
    ASSUME Conversing, Silences
    PROVE  pendingArm = NoArm /\ activeArm = NoArm /\ completedArm = NoArm
<1>1. WireTypeOK /\ MessagesFit /\ Linked /\ DisconnectionMeetsNothing /\ InSession
  BY DEF Conversing, BridgeInv, BridgeTypeOK, ConversationInv, InSession
<1>2. ~HandleShutdown
  BY <1>1, CurrentIsSent DEF HandleShutdown, Sent
<1>3. HandleDisconnected
  BY <1>1, <1>2 DEF Conversing, Silences
<1>4. 1 \in DOMAIN tasks /\ tasks[1].kind = "disconnected"
  BY <1>1, <1>3, AppendTail DEF HandleDisconnected, TakeTask, WireTypeOK
<1> QED BY <1>1, <1>4 DEF DisconnectionMeetsNothing

\* An arm that it takes is the one in force.
LEMMA TakenArmIsInForce ==
    ASSUME Conversing, Clean, TakesArm
    PROVE  /\ pendingArm' = armedRound /\ PreviousRound < armedRound.round /\ ~EpisodeLive
           /\ UNCHANGED <<session, activeArm, completedArm, terminalReported, toTrainer>>
<1> DEFINE f == Head(tasks).frame
<1>1. WireTypeOK /\ MessagesFit /\ Linked /\ ArmsFit /\ InSession
  BY DEF Conversing, BridgeInv, BridgeTypeOK, ConversationInv, InSession
<1>2. f \in TrainerFrames /\ OnTheWay(f) /\ f.type = "arm_episode"
  BY <1>1, CurrentIsSent DEF TakesArm, HandleArm
<1>3. /\ pendingArm' = f.arm /\ f.arm.round > PreviousRound /\ (activeArm = NoArm \/ terminalReported)
      /\ UNCHANGED <<session, activeArm, completedArm, terminalReported, toTrainer>>
  BY DEF TakesArm, ArmAccepted, Armable
<1>4. f.arm = armedRound \/ f.arm.round <= PreviousRound
  BY <1>1, <1>2 DEF ArmsFit
<1>5. PreviousRound \in Nat /\ f.arm.round \in Nat
  BY <1>2, FrameNumbers, ArmNumbers DEF PreviousRound, Conversing, BridgeInv, SequencerInv, SequencerTypeOK
<1>6. f.arm = armedRound
  BY <1>3, <1>4, <1>5
<1> QED BY <1>3, <1>5, <1>6 DEF EpisodeLive

\* An action that it takes is the last one of the round that the trainer is in.
LEMMA TakenActionIsAwaited ==
    ASSUME Conversing, TakesAction
    PROVE  /\ EpisodeLive /\ EpisodeLive' /\ phase = "WAITING_ACTION"
           /\ UNCHANGED <<session, pendingArm, activeArm, completedArm, actSeq, toTrainer>>
           /\ activeArm = armedRound => trainer # "arming" /\ actSeq + 1 <= answered.act
<1> DEFINE f == Head(tasks).frame
<1>1. WireTypeOK /\ MessagesFit /\ Linked /\ SequencerInv
  BY DEF Conversing, BridgeInv, BridgeTypeOK, ConversationInv, InSession
<1>2. Sent(f) /\ f.type = "action_request" /\ f \in TrainerFrames
  BY <1>1, CurrentIsSent DEF TakesAction, HandleAction
<1>3. /\ phase = "WAITING_ACTION" /\ f.action.round = activeArm.round /\ f.action.act = actSeq + 1
      /\ UNCHANGED <<session, pendingArm, activeArm, completedArm, actSeq, terminalReported, toTrainer>>
  BY DEF TakesAction, ActionQueued, ExpectedAction, ForActiveRound, armVars, counterVars
<1>4. EpisodeLive
  BY <1>1, <1>3 DEF SequencerInv, PhaseFollowsEpisode
<1>5. EpisodeLive'
  BY <1>3, <1>4 DEF EpisodeLive
<1>6. f.action.round \in Nat
  BY <1>2, FrameNumbers
<1> QED BY <1>2, <1>3, <1>4, <1>5, <1>6 DEF Sent

\* What it cannot do once an error has been reported, or without an episode.
LEMMA ConversingFacts ==
    ASSUME Conversing
    PROVE  /\ SequencerInv /\ WireTypeOK /\ TrainerTypeOK /\ Linked /\ LiveExcludesPending
           /\ UNCHANGED <<trainer, tSession, armedRound, readySeen, answered, applied, terminalSeen, tResult>>
           /\ session \in AnySession /\ PreviousRound \in Nat /\ armedRound.round \in Nat
  BY ArmNumbers DEF Conversing, BridgeInv, BridgeTypeOK, TrainerTypeOK, InSession, trainerVars, SequencerInv,
         SequencerTypeOK, AnySession, PreviousRound

\* What is on the wire stays on it.
LEMMA TurnKeepsFrames ==
    ASSUME Conversing
    PROVE  \A i \in DOMAIN toTrainer : i \in DOMAIN toTrainer' /\ toTrainer'[i] = toTrainer[i]
<1>1. CASE UNCHANGED toTrainer
  BY <1>1
<1>2. ASSUME NEW fs \in Seq(ClientFrames), ClientWrites(fs), NEW i \in DOMAIN toTrainer
      PROVE  i \in DOMAIN toTrainer' /\ toTrainer'[i] = toTrainer[i]
  <2>1. toTrainer' = toTrainer \o fs /\ toTrainer \in Seq(ClientFrames)
    BY <1>2, ConversingFacts DEF ClientWrites, WireTypeOK
  <2>2. /\ DOMAIN toTrainer = 1..Len(toTrainer) /\ Len(toTrainer) \in Nat /\ Len(fs) \in Nat
        /\ DOMAIN (toTrainer \o fs) = 1..(Len(toTrainer) + Len(fs))
        /\ \A j \in DOMAIN toTrainer : (toTrainer \o fs)[j] = toTrainer[j]
    BY <2>1, Concatenated
  <2> QED BY <1>2, <2>1, <2>2
<1>3. UNCHANGED toTrainer \/ \E fs \in Seq(ClientFrames) : ClientWrites(fs)
  BY ConversingFacts, TurnFrames DEF Conversing
<1> QED BY <1>1, <1>2, <1>3

\* After an error nothing changes that matters.
LEMMA AfterError ==
    ASSUME Conversing, ~Clean, NEW k \in Nat \ {0}, Spoken(k), Stop(k)
    PROVE  Stop(k)' /\ ~Clean'
<1>1. k \in DOMAIN toTrainer /\ toTrainer[k].type = "error"
  BY ConversingFacts, SpokenStops DEF Stop
<1>2. k \in DOMAIN toTrainer' /\ toTrainer'[k].type = "error"
  BY <1>1, TurnKeepsFrames
<1> QED BY <1>2 DEF Stop, Clean

\* Between two rounds it has nothing to say.
LEMMA BetweenStays ==
    ASSUME Conversing, NEW k \in Nat \ {0}, Spoken(k), Between(k)
    PROVE  Between(k)'
<1>0. Stop(k) /\ UNCHANGED armedRound /\ SequencerInv /\ WireTypeOK /\ Linked /\ SequencerTypeOK
  BY ConversingFacts DEF Between, SequencerInv
<1>1. CASE ~Clean
  BY <1>0, <1>1, AfterError DEF Between
<1>2. CASE Clean
  <2>1. pendingArm = NoArm /\ ~EpisodeLive /\ PreviousRound = armedRound.round
    BY <1>2 DEF Between
  <2>2. UNCHANGED toTrainer => Stop(k)'
    BY <1>0 DEF Stop
  <2>3. CASE KeepsRound
    BY <1>0, <2>1, <2>2, <2>3 DEF KeepsRound, Between
  <2>4. CASE Reports
    BY <1>0, <2>4, SaysError DEF Reports, Between
  <2>5. CASE Silences
    <3>1. pendingArm' = NoArm /\ activeArm' = NoArm /\ completedArm' = NoArm /\ UNCHANGED toTrainer
      BY <2>5 DEF Silences, NothingKept
    <3>2. activeArm = NoArm /\ completedArm = NoArm
      BY <2>5, SilenceEndsNothing
    <3> QED BY <1>0, <2>1, <2>2, <3>1, <3>2 DEF Between, EpisodeLive, PreviousRound
  <2>6. ~TakesArm
    BY <1>2, <2>1, TakenArmIsInForce, ConversingFacts
  <2>7. ~TakesAction
    BY <2>1, TakenActionIsAwaited
  <2>8. ~Starts
    BY <2>1 DEF Starts, EpisodeStarted, CountdownFollowed
  <2>9. ~Completes
    BY <1>0, <2>1 DEF Completes, CompleteAction, SequencerInv, PhaseFollowsEpisode
  <2>10. ~Finishes
    BY <2>1 DEF Finishes, PlayerEliminated, RoundCompleted
  <2> QED BY <2>3, <2>4, <2>5, <2>6, <2>7, <2>8, <2>9, <2>10 DEF Conversing, Turns
<1> QED BY <1>1, <1>2

\* An armed round is still awaited, or it starts with two frames.
LEMMA AwaitingStays ==
    ASSUME Conversing, Awaiting
    PROVE  Awaiting' \/ (At(1, EpisodeReady(session, armedRound))' /\ Observed(2, 0)')
<1>0. Stop(1) /\ UNCHANGED armedRound /\ SequencerInv /\ WireTypeOK /\ Linked /\ SequencerTypeOK
      /\ session \in AnySession /\ Spoken(1)
  BY ConversingFacts DEF Awaiting, SequencerInv, Spoken
<1>1. CASE ~Clean
  BY <1>0, <1>1, AfterError DEF Awaiting
<1>2. CASE Clean
  <2>1. pendingArm \in {NoArm, armedRound} /\ ~EpisodeLive /\ PreviousRound < armedRound.round
    BY <1>2 DEF Awaiting
  <2>2. UNCHANGED toTrainer => Stop(1)'
    BY <1>0 DEF Stop
  <2>3. CASE KeepsRound
    BY <1>0, <2>1, <2>2, <2>3 DEF KeepsRound, Awaiting
  <2>4. CASE Reports
    BY <1>0, <2>4, SaysError DEF Reports, Awaiting
  <2>5. CASE Silences
    <3>1. pendingArm' = NoArm /\ activeArm' = NoArm /\ completedArm' = NoArm /\ UNCHANGED toTrainer
      BY <2>5 DEF Silences, NothingKept
    <3>2. activeArm = NoArm /\ completedArm = NoArm
      BY <2>5, SilenceEndsNothing
    <3> QED BY <1>0, <2>1, <2>2, <3>1, <3>2 DEF Awaiting, EpisodeLive, PreviousRound
  <2>6. CASE TakesArm
    BY <1>0, <1>2, <2>1, <2>2, <2>6, TakenArmIsInForce DEF Awaiting, EpisodeLive, PreviousRound
  <2>7. ~TakesAction
    BY <2>1, TakenActionIsAwaited
  <2>8. CASE Starts
    <3> DEFINE e == EpisodeReady(session, pendingArm)
               f == Observation(session, pendingArm, 0, 0, FALSE)
    <3>1. /\ pendingArm # NoArm /\ activeArm' = pendingArm /\ actSeq' = 0 /\ terminalReported' = FALSE
          /\ phase' = "WAITING_ACTION" /\ UNCHANGED session /\ ClientWrites(<<e, f>>)
      BY <2>8 DEF Starts, EpisodeStarted, CountdownFollowed
    <3>2. pendingArm = armedRound
      BY <2>1, <3>1
    <3>3. e \in ClientFrames /\ f \in ClientFrames
      BY <1>0, FrameTypes DEF SequencerTypeOK, ClientFrames
    <3>4. PICK k \in Nat \ {0} : k = 1
      OBVIOUS
    <3>5. /\ 1 \in DOMAIN toTrainer' /\ toTrainer'[1] = e
          /\ 2 \in DOMAIN toTrainer' /\ toTrainer'[2] = f
          /\ Stop(2 + 1)'
      <4>1. Spoken(k) /\ Stop(k)
        BY <1>0, <3>4
      <4>2. /\ k \in DOMAIN toTrainer' /\ toTrainer'[k] = e
            /\ k + 1 \in DOMAIN toTrainer' /\ toTrainer'[k + 1] = f
            /\ \A j \in Nat : j > k + 1 => Stop(j)'
        <5> HIDE DEF e, f
        <5> QED BY <1>0, <1>2, <3>1, <3>3, <4>1, SaysTwo
      <4> HIDE DEF e, f
      <4> QED BY <3>4, <4>2
    <3>6. At(1, EpisodeReady(session, armedRound))'
      BY <1>0, <3>1, <3>2, <3>5 DEF At, EpisodeReady
    <3>7. At(2, Observation(session, armedRound, 0, 0, FALSE))'
      BY <1>0, <3>1, <3>2, <3>5 DEF At, Observation
    <3>8. Playing(2 + 1, 0, FALSE)'
      BY <1>0, <3>1, <3>2, <3>5 DEF Playing, EpisodeLive
    <3> QED BY <3>6, <3>7, <3>8 DEF Observed, RoundGoesOn
  <2>9. ~Completes
    BY <1>0, <2>1 DEF Completes, CompleteAction, SequencerInv, PhaseFollowsEpisode
  <2>10. ~Finishes
    BY <2>1 DEF Finishes, PlayerEliminated, RoundCompleted
  <2> QED BY <2>3, <2>4, <2>5, <2>6, <2>7, <2>8, <2>9, <2>10 DEF Conversing, Turns
<1> QED BY <1>1, <1>2

\* A round that goes on goes on, takes the action that was sent, or ends; one whose
\* action was sent may also complete it, with two frames.
LEMMA PlayingStays ==
    ASSUME Conversing, NEW k \in Nat \ {0}, NEW n \in Nat, NEW sent \in BOOLEAN, Spoken(k),
           Playing(k, n, sent), TrainerFits,
           IF sent THEN trainer = "stepping" /\ n = answered.obs
                   ELSE trainer = "arming" \/ n = answered.act
    PROVE  \/ RoundGoesOn(k, n, sent)'
           \/ sent /\ At(k, Applied(session, answered))' /\ Observed(k + 1, n + 1)'
<1>0. Stop(k) /\ UNCHANGED <<armedRound, answered>> /\ SequencerInv /\ WireTypeOK /\ Linked
      /\ SequencerTypeOK /\ session \in AnySession /\ LiveExcludesPending
  BY ConversingFacts DEF Playing, SequencerInv
<1>1. CASE ~Clean
  BY <1>0, <1>1, AfterError DEF Playing, RoundGoesOn
<1>2. CASE Clean
  <2>1. EpisodeLive /\ activeArm = armedRound /\ actSeq = n /\ (phase = "WAITING_ACTION" \/ sent)
    BY <1>2 DEF Playing
  <2>2. UNCHANGED toTrainer => Stop(k)'
    BY <1>0 DEF Stop
  <2>3. CASE KeepsRound
    <3>1. Playing(k, n, sent)'
      BY <1>0, <2>1, <2>2, <2>3 DEF KeepsRound, Playing
    <3> QED BY <3>1 DEF RoundGoesOn
  <2>4. CASE Reports
    <3>1. Playing(k, n, sent)'
      BY <1>0, <2>4, SaysError DEF Reports, Playing
    <3> QED BY <3>1 DEF RoundGoesOn
  <2>5. ~Silences
    BY <2>1, SilenceEndsNothing DEF EpisodeLive
  <2>6. ~TakesArm
    BY <1>2, <2>1, TakenArmIsInForce
  <2>7. CASE TakesAction
    <3>1. sent
      <4>1. trainer # "arming" /\ n + 1 <= answered.act
        BY <2>1, <2>7, TakenActionIsAwaited
      <4> QED BY <4>1
    <3>2. EpisodeLive' /\ UNCHANGED <<activeArm, actSeq, toTrainer>>
      BY <2>7, TakenActionIsAwaited
    <3>3. Playing(k, n, sent)'
      BY <1>0, <2>1, <2>2, <3>1, <3>2 DEF Playing
    <3> QED BY <3>3 DEF RoundGoesOn
  <2>8. ~Starts
    BY <2>1 DEF Starts, EpisodeStarted, EpisodeLive
  <2>9. CASE Completes
    <3>1. PICK e : e = Applied(session, runningAction)
      OBVIOUS
    <3>2. PICK f : f = Observation(session, activeArm, actSeq + 1, actSeq + 1, FALSE)
      OBVIOUS
    <3>3. /\ phase = "ACTION_RUNNING" /\ runningAction # NoAction /\ actSeq' = n + 1
          /\ phase' = "WAITING_ACTION" /\ ClientWrites(<<e, f>>)
          /\ UNCHANGED <<session, activeArm, terminalReported>>
      BY <2>1, <2>9, <3>1, <3>2 DEF Completes, CompleteAction, HeldFrames, armVars
    <3>4. sent
      BY <2>1, <3>3
    <3>5. runningAction = answered
      <4>1. /\ runningAction \in Actions /\ runningAction.round = armedRound.round
            /\ runningAction.policy = armedRound.policy
            /\ runningAction.obs = n /\ runningAction.act = n + 1
        BY <1>0, <2>1, <3>3 DEF SequencerInv, SequencerTypeOK, KeptActionIsCurrent, Answers, ForActiveRound,
                         ObservationsCountActions
      <4>2. answered = [round |-> armedRound.round, policy |-> armedRound.policy,
                        obs |-> n, act |-> n + 1]
        BY <3>4 DEF TrainerFits
      <4> QED BY <4>1, <4>2 DEF Actions
    <3>6. e \in ClientFrames /\ f \in ClientFrames
      <4>1. /\ activeArm \in Arms \cup {NoArm} /\ actSeq + 1 \in Nat
            /\ runningAction \in Actions \cup {NoAction}
        BY <1>0 DEF SequencerTypeOK
      <4> QED BY <1>0, <3>1, <3>2, <4>1, FrameTypes DEF ClientFrames
    <3>7. /\ k \in DOMAIN toTrainer' /\ toTrainer'[k] = e
          /\ k + 1 \in DOMAIN toTrainer' /\ toTrainer'[k + 1] = f
          /\ Stop((k + 1) + 1)'
      <4>1. /\ k \in DOMAIN toTrainer' /\ toTrainer'[k] = e
            /\ k + 1 \in DOMAIN toTrainer' /\ toTrainer'[k + 1] = f
            /\ \A j \in Nat : j > k + 1 => Stop(j)'
        BY <1>0, <1>2, <3>3, <3>6, SaysTwo
      <4> QED BY <4>1
    <3>8. At(k, Applied(session, answered))'
      BY <1>0, <3>1, <3>3, <3>5, <3>7 DEF At, Applied
    <3>9. At(k + 1, Observation(session, armedRound, n + 1, n + 1, FALSE))'
      BY <1>0, <2>1, <3>2, <3>3, <3>7 DEF At, Observation
    <3>10. Playing((k + 1) + 1, n + 1, FALSE)'
      BY <1>0, <2>1, <3>3, <3>7 DEF Playing, EpisodeLive
    <3> QED BY <3>4, <3>8, <3>9, <3>10 DEF Observed, RoundGoesOn
  <2>10. CASE Finishes
    <3>0. PICK p \in Packets : (PlayerEliminated(p) \/ RoundCompleted(p)) /\ Ending(p) \in Outcomes
                                /\ ClientWrites(EndFrames(p))
      BY <2>10 DEF Finishes
    <3>1. PICK e : e = Observation(session, activeArm, obsSeq, actSeq, TRUE)
      OBVIOUS
    <3>2. PICK f : f = Result(session, activeArm, obsSeq, Ending(p))
      OBVIOUS
    <3>3. /\ ClientWrites(<<e, f>>) /\ terminalReported' = TRUE
          /\ UNCHANGED <<session, pendingArm, activeArm>>
      BY <3>0, <3>1, <3>2 DEF EndFrames, PlayerEliminated, RoundCompleted, MarkTerminal
    <3>4. obsSeq = n /\ actSeq = n /\ pendingArm = NoArm /\ activeArm # NoArm
      BY <1>0, <2>1 DEF SequencerInv, ObservationsCountActions, LiveExcludesPending, EpisodeLive
    <3>5. e \in ClientFrames /\ f \in ClientFrames
      BY <1>0, <3>0, <3>1, <3>2, FrameTypes DEF SequencerTypeOK, ClientFrames
    <3>6. /\ k \in DOMAIN toTrainer' /\ toTrainer'[k] = e
          /\ k + 1 \in DOMAIN toTrainer' /\ toTrainer'[k + 1] = f
          /\ Stop(k + 2)'
      <4>1. /\ k \in DOMAIN toTrainer' /\ toTrainer'[k] = e
            /\ k + 1 \in DOMAIN toTrainer' /\ toTrainer'[k + 1] = f
            /\ \A j \in Nat : j > k + 1 => Stop(j)'
        BY <1>0, <1>2, <3>3, <3>5, SaysTwo
      <4> QED BY <4>1
    <3>7. At(k, Observation(session, armedRound, n, n, TRUE))'
      BY <1>0, <2>1, <3>1, <3>3, <3>4, <3>6 DEF At, Observation
    <3>8. (\E o \in Outcomes : At(k + 1, Result(session, armedRound, n, o)))'
      <4>1. PICK o \in Outcomes : o = Ending(p)
        BY <3>0
      <4>2. At(k + 1, Result(session, armedRound, n, o))'
        BY <1>0, <2>1, <3>2, <3>3, <3>4, <3>6, <4>1 DEF At, Result
      <4> QED BY <4>2
    <3>9. Between(k + 2)'
      BY <1>0, <2>1, <3>3, <3>4, <3>6 DEF Between, EpisodeLive, PreviousRound
    <3> QED BY <3>7, <3>8, <3>9 DEF Ends, RoundGoesOn
  <2> QED BY <2>3, <2>4, <2>5, <2>6, <2>7, <2>8, <2>9, <2>10 DEF Conversing, Turns
<1> QED BY <1>1, <1>2

\* An end is followed by the silence between two rounds.
LEMMA EndsStay ==
    ASSUME Conversing, NEW k \in Nat \ {0}, NEW n \in Nat, Spoken(k), Ends(k, n)
    PROVE  Ends(k, n)'
<1>0. UNCHANGED <<armedRound, session>>
  BY ConversingFacts, TurnFrames DEF Conversing
<1>1. PICK o \in Outcomes : At(k + 1, Result(session, armedRound, n, o))
  BY DEF Ends
<1>2. At(k, Observation(session, armedRound, n, n, TRUE))
  BY DEF Ends
<1>3. Spoken(k + 2)
  <2>1. \A j \in 1..((k + 2) - 1) : j \in 1..(k - 1) \/ j = k \/ j = k + 1
    OBVIOUS
  <2>2. toTrainer[k].type # "error" /\ toTrainer[k + 1].type # "error"
    BY <1>1, <1>2 DEF At, Observation, Result
  <2> QED BY <1>1, <1>2, <2>1, <2>2 DEF Spoken, At
<1>4. Between(k + 2)'
  BY <1>3, BetweenStays DEF Ends
<1>5. At(k, Observation(session, armedRound, n, n, TRUE))'
  BY <1>0, <1>2, TurnKeepsFrames DEF At, Observation
<1>6. At(k + 1, Result(session, armedRound, n, o))'
  BY <1>0, <1>1, TurnKeepsFrames DEF At, Result
<1>7. (\E u \in Outcomes : At(k + 1, Result(session, armedRound, n, u)))'
  BY <1>6
<1> QED BY <1>4, <1>5, <1>7 DEF Ends

\* An observation is followed by the round that it is of.
LEMMA ObservedStays ==
    ASSUME Conversing, TrainerFits, NEW k \in Nat \ {0}, NEW n \in Nat, Spoken(k), Observed(k, n),
           trainer = "arming" \/ n = answered.act
    PROVE  Observed(k, n)'
<1>0. UNCHANGED <<armedRound, session>>
  BY ConversingFacts, TurnFrames DEF Conversing
<1>1. At(k, Observation(session, armedRound, n, n, FALSE)) /\ RoundGoesOn(k + 1, n, FALSE)
  BY DEF Observed
<1>2. Spoken(k + 1)
  <2>1. \A j \in 1..((k + 1) - 1) : j \in 1..(k - 1) \/ j = k
    OBVIOUS
  <2>2. toTrainer[k].type # "error"
    BY <1>1 DEF At, Observation
  <2> QED BY <1>1, <2>1, <2>2 DEF Spoken, At
<1>3. At(k, Observation(session, armedRound, n, n, FALSE))'
  BY <1>0, <1>1, TurnKeepsFrames DEF At, Observation
<1>4. CASE Playing(k + 1, n, FALSE)
  <2>0. PICK b \in BOOLEAN : b = FALSE
    OBVIOUS
  <2>1. RoundGoesOn(k + 1, n, FALSE)'
    <3>1. Playing(k + 1, n, b) /\ k + 1 \in Nat \ {0}
      BY <1>4, <2>0 DEF Playing
    <3>2. RoundGoesOn(k + 1, n, b)'
      BY <1>2, <2>0, <3>1, PlayingStays
    <3> QED BY <2>0, <3>2
  <2> QED BY <1>3, <2>1 DEF Observed
<1>5. CASE Ends(k + 1, n)
  <2>1. Ends(k + 1, n)'
    BY <1>2, <1>5, EndsStay
  <2> QED BY <1>3, <2>1 DEF Observed, RoundGoesOn
<1> QED BY <1>1, <1>4, <1>5 DEF RoundGoesOn

\* Whatever the client does, the state of the trainer says what it is sent.
LEMMA ScriptStays ==
    ASSUME Conversing
    PROVE  Script'
<1>0. /\ UNCHANGED <<trainer, tSession, armedRound, readySeen, answered, applied, terminalSeen, tResult>>
      /\ UNCHANGED session /\ TrainerFits /\ Script
  BY ConversingFacts, TurnFrames DEF Conversing, ConversationInv, ScriptKept
<1>1. PICK n \in Nat : n = answered.obs
  BY ConversingFacts DEF TrainerTypeOK
<1>2. PICK m \in Nat : m = answered.act
  BY ConversingFacts DEF TrainerTypeOK
<1>3. Spoken(1)
  BY DEF Spoken
<1>4. ASSUME NEW f, At(1, f), f.type # "error" PROVE Spoken(2)
  <2>1. \A j \in 1..(2 - 1) : j = 1
    OBVIOUS
  <2> QED BY <1>4, <2>1 DEF Spoken, At
<1>5. \A i \in DOMAIN toTrainer : i \in DOMAIN toTrainer' /\ toTrainer'[i] = toTrainer[i]
  BY TurnKeepsFrames
<1>6. CASE trainer = "hello"
  <2>1. At(1, Hello(session)) /\ At(2, Ready(session)) /\ Between(3)
    BY <1>0, <1>6 DEF Script
  <2>2. Spoken(3)
    <3>1. \A j \in 1..(3 - 1) : j = 1 \/ j = 2
      OBVIOUS
    <3> QED BY <2>1, <3>1 DEF Spoken, At, Hello, Ready
  <2>3. Between(3)'
    BY <2>1, <2>2, BetweenStays
  <2>4. At(1, Hello(session))' /\ At(2, Ready(session))'
    BY <1>0, <1>5, <2>1 DEF At, Hello, Ready
  <2> QED BY <1>0, <1>6, <2>3, <2>4 DEF Script
<1>7. CASE trainer = "ready"
  <2>1. At(1, Ready(session)) /\ Between(2)
    BY <1>0, <1>7 DEF Script
  <2>2. Spoken(2)
    BY <1>4, <2>1 DEF Ready
  <2>3. Between(2)'
    BY <2>1, <2>2, BetweenStays
  <2>4. At(1, Ready(session))'
    BY <1>0, <1>5, <2>1 DEF At, Ready
  <2> QED BY <1>0, <1>7, <2>3, <2>4 DEF Script
<1>8. CASE trainer = "idle"
  <2>1. Between(1)'
    BY <1>0, <1>3, <1>8, BetweenStays DEF Script
  <2> QED BY <1>0, <1>8, <2>1 DEF Script
<1>9. CASE trainer = "arming"
  <2>1. CASE ~readySeen /\ Awaiting
    BY <1>0, <1>9, <2>1, AwaitingStays DEF Script
  <2>2. CASE ~readySeen /\ At(1, EpisodeReady(session, armedRound)) /\ Observed(2, 0)
    <3>1. Spoken(2)
      BY <1>4, <2>2 DEF EpisodeReady
    <3>2. Observed(2, 0)'
      BY <1>0, <1>9, <2>2, <3>1, ObservedStays
    <3>3. At(1, EpisodeReady(session, armedRound))'
      BY <1>0, <1>5, <2>2 DEF At, EpisodeReady
    <3> QED BY <1>0, <1>9, <2>2, <3>2, <3>3 DEF Script
  <2>3. CASE readySeen /\ Observed(1, 0)
    <3>1. Observed(1, 0)'
      BY <1>0, <1>3, <1>9, <2>3, ObservedStays
    <3> QED BY <1>0, <1>9, <2>3, <3>1 DEF Script
  <2> QED BY <1>0, <1>9, <2>1, <2>2, <2>3 DEF Script
<1>10. CASE trainer = "deciding"
  <2>1. RoundGoesOn(1, m, FALSE)
    BY <1>0, <1>2, <1>10 DEF Script
  <2>2. CASE Playing(1, m, FALSE)
    <3>0. PICK b \in BOOLEAN : b = FALSE
      OBVIOUS
    <3>1. RoundGoesOn(1, m, FALSE)'
      <4>1. Playing(1, m, b) /\ 1 \in Nat \ {0}
        BY <2>2, <3>0 DEF Playing
      <4>2. RoundGoesOn(1, m, b)'
        BY <1>0, <1>2, <1>3, <3>0, <4>1, PlayingStays
      <4> QED BY <3>0, <4>2
    <3> QED BY <1>0, <1>2, <1>10, <3>1 DEF Script
  <2>3. CASE Ends(1, m)
    <3>1. RoundGoesOn(1, m, FALSE)'
      <4>1. Ends(1, m)'
        BY <1>3, <2>3, EndsStay
      <4> QED BY <4>1 DEF RoundGoesOn
    <3> QED BY <1>0, <1>2, <1>10, <3>1 DEF Script
  <2> QED BY <2>1, <2>2, <2>3 DEF RoundGoesOn
<1>11. CASE trainer = "stepping"
  <2>0. tResult = "NONE" /\ m = n + 1
    BY <1>0, <1>1, <1>2, <1>11 DEF Script, TrainerFits
  <2>1. CASE ~applied /\ ~terminalSeen /\ RoundGoesOn(1, answered.obs, TRUE)
    <3>1. CASE Playing(1, n, TRUE)
      <4>1. \/ RoundGoesOn(1, n, TRUE)'
            \/ At(1, Applied(session, answered))' /\ Observed(1 + 1, n + 1)'
        <5>0. PICK b \in BOOLEAN : b = TRUE
          OBVIOUS
        <5>1. Playing(1, n, b) /\ 1 \in Nat \ {0}
          BY <3>1, <5>0 DEF Playing
        <5>2. \/ RoundGoesOn(1, n, b)'
              \/ At(1, Applied(session, answered))' /\ Observed(1 + 1, n + 1)'
          BY <1>0, <1>1, <1>3, <1>11, <5>0, <5>1, PlayingStays
        <5> QED BY <5>0, <5>2
      <4>2. 1 + 1 = 2
        OBVIOUS
      <4>3. \/ RoundGoesOn(1, n, TRUE)'
            \/ At(1, Applied(session, answered))' /\ Observed(2, m)'
        BY <2>0, <4>1, <4>2
      <4> QED BY <1>0, <1>1, <1>2, <1>11, <2>0, <2>1, <4>3 DEF Script
    <3>2. CASE Ends(1, n)
      <4>1. RoundGoesOn(1, n, TRUE)'
        <5>1. Ends(1, n)'
          BY <1>3, <3>2, EndsStay
        <5> QED BY <5>1 DEF RoundGoesOn
      <4> QED BY <1>0, <1>1, <1>11, <2>0, <2>1, <4>1 DEF Script
    <3> QED BY <1>1, <2>1, <3>1, <3>2 DEF RoundGoesOn
  <2>2. CASE ~applied /\ ~terminalSeen /\ At(1, Applied(session, answered)) /\ Observed(2, answered.act)
    <3>1. Spoken(2)
      BY <1>4, <2>2 DEF Applied
    <3>2. Observed(2, m)'
      BY <1>0, <1>2, <2>2, <3>1, ObservedStays
    <3>3. At(1, Applied(session, answered))'
      BY <1>0, <1>5, <2>2 DEF At, Applied
    <3> QED BY <1>0, <1>2, <1>11, <2>0, <2>2, <3>2, <3>3 DEF Script
  <2>3. CASE applied /\ ~terminalSeen /\ Observed(1, answered.act)
    <3>1. Observed(1, m)'
      BY <1>0, <1>2, <1>3, <2>3, ObservedStays
    <3> QED BY <1>0, <1>2, <1>11, <2>0, <2>3, <3>1 DEF Script
  <2>4. ASSUME ~applied, terminalSeen, NEW o \in Outcomes, At(1, Result(session, armedRound, answered.obs, o)),
               Between(2)
        PROVE  Script'
    <3>1. Spoken(2)
      BY <1>4, <2>4 DEF Result
    <3>2. Between(2)'
      BY <2>4, <3>1, BetweenStays
    <3>3. At(1, Result(session, armedRound, answered.obs, o))'
      BY <1>0, <1>5, <2>4 DEF At, Result
    <3>4. (\E u \in Outcomes : At(1, Result(session, armedRound, answered.obs, u)))'
      BY <3>3
    <3> QED BY <1>0, <1>11, <2>0, <2>4, <3>2, <3>4 DEF Script
  <2> QED BY <1>0, <1>11, <2>1, <2>2, <2>3, <2>4 DEF Script
<1>12. trainer \in {"hello", "ready", "idle", "arming", "deciding", "stepping"}
  BY <1>0 DEF Script
<1> QED BY <1>6, <1>7, <1>8, <1>9, <1>10, <1>11, <1>12

-----------------------------------------------------------------------------
(* A step of the client, in a session afterwards *)

\* A session that begins on the link is the one the trainer hears of first, or it is
\* not one that both ends are in.
LEMMA BeginsAnew ==
    ASSUME BridgeInv, ConversationInv, ClientNext, Begins, InSession'
    PROVE  /\ trainer = "hello"
           /\ At(1, Hello(session))' /\ At(2, Ready(session))' /\ Stop(3)'
           /\ pendingArm' = NoArm /\ activeArm' = NoArm /\ completedArm' = NoArm
<1>0. /\ SequencerTypeOK /\ BridgeTypeOK /\ WireTypeOK /\ PeerOfAcceptor /\ ConnectionsInOrder
      /\ WaitingIsSilent /\ NobodySends /\ SessionsAreDrawn /\ TrainerFits
  BY DEF BridgeInv, SequencerInv, BridgeTypeOK, ConversationInv
<1>1. UNCHANGED <<openConn, trainer, tSession>>
  BY <1>0, ClientKeepsOpen DEF BridgeTypeOK, trainerVars
<1>2. PICK s \in Sessions : s = FreshSession
  BY FreshSessions DEF Begins, SessionBegins, SessionBeginsUnsent
<1>3. s \notin drawn
  BY <1>2 DEF Begins, SessionBegins, SessionBeginsUnsent, SessionsLeft, FreshSession
<1>4. /\ session' = s /\ pendingArm' = NoArm /\ activeArm' = NoArm /\ completedArm' = NoArm
  BY <1>2 DEF Begins, SessionBegins, SessionBeginsUnsent, StartSession, NothingKept
<1>5. trainer = "hello"
  <2>1. ASSUME trainer # "hello" PROVE FALSE
    <3>1. tSession = s
      BY <1>1, <1>4, <2>1 DEF InSession
    <3>2. openConn # 0
      BY <1>1 DEF InSession, Linked
    <3>3. trainer \in {"ready", "idle", "arming", "deciding", "stepping"}
      BY <1>0, <2>1, <3>2 DEF TrainerFits, BridgeTypeOK, TrainerTypeOK
    <3> QED BY <1>0, <1>3, <3>1, <3>3 DEF SessionsAreDrawn
  <2> QED BY <2>1
<1>6. At(1, Hello(s))' /\ Linked'
  BY <1>1, <1>4, <1>5 DEF InSession, At, Hello
<1>7. Linked
  BY <1>0, <1>6, LinkMoves DEF At
<1>8. PICK fs \in Seq(ClientFrames) : fs = <<Hello(s), Ready(s)>>
  <2>1. Hello(s) \in ClientFrames /\ Ready(s) \in ClientFrames
    BY FrameTypes DEF ClientFrames, AnySession
  <2> QED BY <2>1, PairsAreSequences
<1>9. toTrainer' = toTrainer \o fs /\ Len(fs) = 2 /\ fs[2] = Ready(s)
  BY <1>2, <1>7, <1>8 DEF Begins, SessionBegins, ClientWrites
<1>10. /\ DOMAIN toTrainer = 1..Len(toTrainer) /\ Len(toTrainer) \in Nat
       /\ DOMAIN toTrainer' = 1..(Len(toTrainer) + 2)
       /\ \A i \in DOMAIN toTrainer : toTrainer'[i] = toTrainer[i]
       /\ \A i \in DOMAIN toTrainer' : i \in DOMAIN toTrainer \/ toTrainer'[i] = fs[i - Len(toTrainer)]
  <2>1. toTrainer \in Seq(ClientFrames)
    BY <1>0 DEF WireTypeOK
  <2>2. /\ DOMAIN toTrainer = 1..Len(toTrainer) /\ Len(toTrainer) \in Nat
        /\ DOMAIN (toTrainer \o fs) = 1..(Len(toTrainer) + Len(fs))
        /\ \A i \in DOMAIN toTrainer : (toTrainer \o fs)[i] = toTrainer[i]
        /\ \A i \in DOMAIN (toTrainer \o fs) :
              i \in DOMAIN toTrainer \/ (toTrainer \o fs)[i] = fs[i - Len(toTrainer)]
    BY <2>1, Concatenated
  <2> QED BY <1>9, <2>2
<1>11. Len(toTrainer) = 0
  <2>1. ASSUME 1 \in DOMAIN toTrainer PROVE FALSE
    <3>1. toTrainer[1] = Hello(s)
      BY <1>6, <1>10, <2>1 DEF At
    <3>2. toTrainer[1].type = "connection_hello" /\ toTrainer[1].session = s
      BY <3>1 DEF Hello
    <3> QED BY <1>0, <1>3, <2>1, <3>2 DEF SessionsAreDrawn
  <2> QED BY <1>10, <2>1
<1>12. 2 \in DOMAIN toTrainer' /\ toTrainer'[2] = fs[2] /\ 3 \notin DOMAIN toTrainer'
  BY <1>10, <1>11
<1>13. At(1, Hello(session))' /\ At(2, Ready(session))' /\ Stop(3)'
  BY <1>4, <1>6, <1>9, <1>12 DEF At, Stop, Hello, Ready
<1> QED BY <1>4, <1>5, <1>13

\* A step that does not begin one is taken in the session that they are in.
LEMMA TurnsInSession ==
    ASSUME BridgeInv, ConversationInv, ClientNext, Turns, InSession'
    PROVE  Conversing /\ UNCHANGED peer /\ \A f : OnTheWay(f)' => OnTheWay(f)
<1>0. /\ SequencerInv /\ SequencerTypeOK /\ BridgeTypeOK /\ WireTypeOK /\ PeerOfAcceptor
      /\ ConnectionsInOrder /\ WaitingIsSilent /\ NobodySends
  BY DEF BridgeInv, SequencerInv, BridgeTypeOK, ConversationInv
<1>1. UNCHANGED trainerVars /\ UNCHANGED <<trainer, tSession>>
  BY <1>0, ClientKeepsOpen DEF BridgeTypeOK, trainerVars
<1>2. UNCHANGED session
  BY <1>0, TurnFrames
<1>3. Linked'
  BY DEF InSession
<1>4. trainer = "hello" => At(1, Hello(session))'
  BY <1>1 DEF InSession
<1>5. Linked /\ UNCHANGED peer /\ \A f : OnTheWay(f)' => OnTheWay(f)
  BY <1>0, <1>3, <1>4, LinkMoves DEF At
<1>6. InSession
  <2>1. CASE trainer # "hello"
    BY <1>1, <1>2, <1>5, <2>1 DEF InSession
  <2>2. CASE trainer = "hello"
    <3>1. 1 \in DOMAIN toTrainer' /\ toTrainer'[1].type = "connection_hello"
      BY <1>4, <2>2 DEF At, Hello
    <3>2. 1 \in DOMAIN toTrainer
      <4>1. CASE UNCHANGED toTrainer
        BY <3>1, <4>1
      <4>2. ASSUME NEW fs \in Seq(ClientFrames), ClientWrites(fs),
                   \A k \in DOMAIN fs : fs[k].type # "connection_hello"
            PROVE  1 \in DOMAIN toTrainer
        <5>1. toTrainer' = toTrainer \o fs /\ toTrainer \in Seq(ClientFrames)
          BY <1>0, <1>5, <4>2 DEF ClientWrites, WireTypeOK
        <5>2. \A i \in DOMAIN (toTrainer \o fs) :
                i \in DOMAIN toTrainer
                \/ (i - Len(toTrainer) \in DOMAIN fs /\ (toTrainer \o fs)[i] = fs[i - Len(toTrainer)])
          BY <4>2, <5>1, Concatenated
        <5>3. 1 \in DOMAIN toTrainer
              \/ (1 - Len(toTrainer) \in DOMAIN fs /\ toTrainer'[1] = fs[1 - Len(toTrainer)])
          BY <3>1, <5>1, <5>2
        <5> QED BY <3>1, <4>2, <5>3
      <4> QED BY <1>0, <4>1, <4>2, TurnFrames
    <3>3. toTrainer'[1] = toTrainer[1]
      BY <1>0, <3>2, ClientKeepsFrames
    <3> QED BY <1>2, <1>4, <1>5, <2>2, <3>2, <3>3 DEF InSession, At, Hello
  <2> QED BY <2>1, <2>2
<1> QED BY <1>1, <1>3, <1>5, <1>6 DEF Conversing

\* In a session the rounds of a client that has reported no error never go back.
LEMMA TurnsAdvance ==
    ASSUME Conversing, Clean'
    PROVE  PreviousRound <= PreviousRound' /\ PreviousRound' \in Nat /\ Clean
<1>0. SequencerInv /\ SequencerTypeOK /\ WireTypeOK /\ Linked
  BY ConversingFacts DEF SequencerInv
<1>1. Clean
  BY TurnKeepsFrames DEF Clean
<1>2. /\ PreviousRound \in Nat /\ activeArm.round \in Nat /\ pendingArm.round \in Nat
      /\ completedArm.round \in Nat
  BY <1>0, ArmNumbers DEF SequencerTypeOK, PreviousRound
<1>3. PreviousRound' = PreviousRound
        => PreviousRound <= PreviousRound' /\ PreviousRound' \in Nat /\ Clean
  BY <1>1, <1>2
<1>4. CASE KeepsRound
  BY <1>3, <1>4 DEF KeepsRound
<1>5. ~Reports
  BY <1>0, SaysError DEF Reports
<1>6. CASE Silences
  <2>1. activeArm' = NoArm /\ completedArm' = NoArm
    BY <1>6 DEF Silences, NothingKept
  <2>2. PreviousRound' = PreviousRound
    BY <1>6, <2>1, SilenceEndsNothing DEF PreviousRound
  <2> QED BY <1>3, <2>2
<1>7. CASE TakesArm
  BY <1>1, <1>3, <1>7, TakenArmIsInForce DEF PreviousRound
<1>8. CASE TakesAction
  BY <1>3, <1>8, TakenActionIsAwaited DEF PreviousRound
<1>9. CASE Starts
  <2>1. activeArm' = pendingArm /\ pendingArm # NoArm
    BY <1>9 DEF Starts, EpisodeStarted, CountdownFollowed
  <2>2. PreviousRound' = pendingArm.round
    BY <2>1 DEF PreviousRound
  <2>3. pendingArm.round > PreviousRound
    BY <1>0, <2>1 DEF SequencerInv, RoundsAdvance
  <2> QED BY <1>1, <1>2, <2>2, <2>3
<1>10. CASE Completes
  <2>1. UNCHANGED <<activeArm, completedArm>>
    BY <1>10 DEF Completes, CompleteAction, armVars
  <2> QED BY <1>3, <2>1 DEF PreviousRound
<1>11. CASE Finishes
  <2>1. UNCHANGED activeArm /\ activeArm # NoArm
    BY <1>11 DEF Finishes, PlayerEliminated, RoundCompleted, MarkTerminal, EpisodeLive
  <2> QED BY <1>3, <2>1 DEF PreviousRound
<1> QED BY <1>1, <1>4, <1>5, <1>6, <1>7, <1>8, <1>9, <1>10, <1>11 DEF Conversing, Turns

\* A disconnection in the queue was in it before, unless it is the peer's.
LEMMA DisconnectionsStay ==
    ASSUME WireTypeOK, ServerTypeOK, PeerOfAcceptor, ClientNext, UNCHANGED peer, peer # 0,
           NEW d \in DOMAIN tasks', tasks'[d].kind = "disconnected"
    PROVE  \E c \in DOMAIN tasks : tasks[c].kind = "disconnected"
<1> USE DEF WireTypeOK
<1>2. ASSUME NEW t \in Tasks, QueueTask(t), t.kind # "disconnected"
      PROVE  \E j \in DOMAIN tasks : tasks'[d] = tasks[j]
  <2>1. /\ DOMAIN tasks' = 1..(Len(tasks) + 1) /\ DOMAIN tasks = 1..Len(tasks) /\ Len(tasks) \in Nat
        /\ \A j \in DOMAIN tasks : tasks'[j] = tasks[j]
        /\ tasks'[Len(tasks) + 1] = t
    BY <1>2, AppendTail DEF QueueTask
  <2>2. PICK n \in Nat : n = Len(tasks)
    BY <2>1
  <2>3. d \in 1..(n + 1) /\ DOMAIN tasks = 1..n
    BY <2>1, <2>2
  <2>4. d \in 1..n \/ d = n + 1
    BY <2>3
  <2> QED BY <1>2, <2>1, <2>2, <2>3, <2>4
<1>3. CASE AnnounceConnected
  <2> DEFINE t == [kind |-> "connected", conn |-> peer]
  <2>1. t \in Tasks /\ QueueTask(t) /\ t.kind # "disconnected"
    BY <1>3 DEF Tasks, Connecteds, AnnounceConnected
  <2> HIDE DEF t
  <2> QED BY <1>2, <2>1
<1>4. CASE ReadFrame
  <2> DEFINE t == [kind |-> "message", conn |-> peer, frame |-> Head(toClient)]
  <2>1. Head(toClient) \in TrainerFrames
    BY <1>4, AppendTail DEF ReadFrame
  <2>2. t \in Tasks /\ QueueTask(t) /\ t.kind # "disconnected"
    BY <1>4, <2>1 DEF Tasks, Messages, ReadFrame
  <2> HIDE DEF t
  <2> QED BY <1>2, <2>2
<1>5. ~AnnounceDisconnected
  BY DEF AnnounceDisconnected, PeerOfAcceptor
<1>6. CASE TaskTaken
  <2>1. d + 1 \in DOMAIN tasks /\ tasks'[d] = tasks[d + 1]
    BY <1>6, AppendTail DEF TaskTaken
  <2> QED BY <2>1
<1>7. CASE UNCHANGED tasks
  BY <1>7
<1>8. QueueMoves
  BY StepQueues DEF BridgeNext, ClientNext
<1> QED BY <1>3, <1>4, <1>5, <1>6, <1>7, <1>8
        DEF QueueMoves, Listener, Accept, PeerLost, ConnectionDialled, ServerClosed, queueVars

\* While one is to be handled, the client keeps no arm and takes none.
LEMMA NothingTaken ==
    ASSUME Conversing, NEW d \in DOMAIN tasks, tasks[d].kind = "disconnected"
    PROVE  pendingArm' = NoArm /\ activeArm' = NoArm /\ completedArm' = NoArm
<1>1. pendingArm = NoArm /\ activeArm = NoArm /\ completedArm = NoArm
  BY DEF Conversing, ConversationInv, DisconnectionMeetsNothing
<1>2. ~TakesArm
  BY CurrentMeetsNoDisconnection DEF TakesArm, HandleArm, Conversing, BridgeInv, BridgeTypeOK
<1>3. ~Starts
  BY <1>1 DEF Starts, EpisodeStarted, CountdownFollowed
<1>4. ~Finishes
  BY <1>1 DEF Finishes, PlayerEliminated, RoundCompleted, EpisodeLive
<1>5. CASE KeepsRound
  BY <1>1, <1>5 DEF KeepsRound
<1>6. CASE Reports \/ Silences
  BY <1>6 DEF Reports, Silences, NothingKept
<1>7. CASE TakesAction
  BY <1>1, <1>7, TakenActionIsAwaited
<1>8. CASE Completes
  BY <1>1, <1>8 DEF Completes, CompleteAction, armVars
<1> QED BY <1>2, <1>3, <1>4, <1>5, <1>6, <1>7, <1>8 DEF Conversing, Turns

\* What the client does keeps the conversation.
LEMMA ClientConverses ==
    ASSUME BridgeInv, ConversationInv, ClientNext, MessagesFit', TrainerFits'
    PROVE  ArmsFit' /\ DisconnectionMeetsNothing' /\ ScriptKept'
<1> SUFFICES ASSUME InSession'
             PROVE  ArmsFit' /\ DisconnectionMeetsNothing' /\ ScriptKept'
  BY DEF ArmsFit, DisconnectionMeetsNothing, ScriptKept
<1>0. /\ SequencerInv /\ SequencerTypeOK /\ BridgeTypeOK /\ WireTypeOK /\ ServerTypeOK
      /\ PeerOfAcceptor /\ TrainerFits
  BY DEF BridgeInv, SequencerInv, BridgeTypeOK, ConversationInv
<1>1. UNCHANGED trainerVars /\ UNCHANGED <<trainer, armedRound>>
  BY <1>0, ClientKeepsOpen DEF trainerVars
<1>2. CASE Begins
  <2>1. /\ trainer = "hello"
        /\ At(1, Hello(session))' /\ At(2, Ready(session))' /\ Stop(3)'
        /\ pendingArm' = NoArm /\ activeArm' = NoArm /\ completedArm' = NoArm
    BY <1>2, BeginsAnew
  <2>2. armedRound' = NoRequest /\ armedRound'.round = 0 /\ trainer' = "hello"
    BY <1>0, <1>1, <2>1 DEF TrainerFits, NoRequest
  <2>3. PreviousRound' = 0 /\ ~EpisodeLive'
    BY <2>1 DEF PreviousRound, EpisodeLive, NoArm
  <2>4. Between(3)'
    BY <2>1, <2>2, <2>3 DEF Between
  <2>5. Script'
    BY <2>1, <2>2, <2>4 DEF Script
  <2>6. ASSUME NEW f \in TrainerFrames, OnTheWay(f)', f.type = "arm_episode" PROVE FALSE
    <3>1. Sent(f)'
      BY <2>6 DEF MessagesFit, InSession
    <3>2. f.arm.round <= 0
      BY <2>2, <2>6, <3>1 DEF Sent
    <3> QED BY <2>6, <3>2, FrameNumbers
  <2> QED BY <2>1, <2>5, <2>6 DEF ArmsFit, DisconnectionMeetsNothing, ScriptKept
<1>3. CASE Turns
  <2>1. Conversing /\ UNCHANGED peer /\ (\A f : OnTheWay(f)' => OnTheWay(f))
    BY <1>3, TurnsInSession
  <2>2. Script'
    BY <2>1, ScriptStays
  <2>3. ASSUME Clean', NEW f \in TrainerFrames, OnTheWay(f)', f.type = "arm_episode"
        PROVE  f.arm = armedRound' \/ f.arm.round <= PreviousRound'
    <3>1. PreviousRound <= PreviousRound' /\ PreviousRound' \in Nat /\ Clean
      BY <2>1, <2>3, TurnsAdvance
    <3>2. f.arm = armedRound \/ f.arm.round <= PreviousRound
      BY <2>1, <2>3, <3>1 DEF Conversing, ConversationInv, ArmsFit
    <3>3. PreviousRound \in Nat /\ f.arm.round \in Nat
      BY <2>1, <2>3, ConversingFacts, FrameNumbers
    <3> QED BY <1>1, <3>1, <3>2, <3>3
  <2>4. ASSUME NEW d \in DOMAIN tasks', tasks'[d].kind = "disconnected"
        PROVE  pendingArm' = NoArm /\ activeArm' = NoArm /\ completedArm' = NoArm
    <3>1. peer # 0
      BY <2>1 DEF Conversing, InSession, Linked
    <3>2. \E c \in DOMAIN tasks : tasks[c].kind = "disconnected"
      BY <1>0, <2>1, <2>4, <3>1, DisconnectionsStay
    <3> QED BY <2>1, <3>2, NothingTaken
  <2> QED BY <2>2, <2>3, <2>4 DEF ArmsFit, DisconnectionMeetsNothing, ScriptKept
<1> QED BY <1>0, <1>2, <1>3, ClientTurns

-----------------------------------------------------------------------------
(* A step of the trainer *)

Hearing ==
    /\ BridgeInv
    /\ ConversationInv
    /\ InSession
    /\ Reads
    /\ UNCHANGED <<peer, tasks, seqVars>>

\* What it leaves alone, and what it reads.
LEMMA HearingFacts ==
    ASSUME Hearing
    PROVE  /\ BridgeTypeOK /\ TrainerFits /\ Script /\ Linked
           /\ UNCHANGED <<armedRound, session, pendingArm, activeArm, completedArm, terminalReported,
                          phase, actSeq, tasks, peer, openConn, toClient>>
           /\ PreviousRound' = PreviousRound /\ (EpisodeLive' <=> EpisodeLive)
           /\ Clean' => Clean
           /\ 1 \in DOMAIN toTrainer /\ Message = toTrainer[1] /\ Message.type # "error"
           /\ ~Stop(1)
<1>1. BridgeTypeOK /\ TrainerFits /\ Script /\ Linked
  BY DEF Hearing, BridgeInv, ConversationInv, ScriptKept, InSession
<1>2. UNCHANGED armedRound
  BY DEF Hearing, Reads, ReceiveHello, ReceiveReady, ReceiveEpisodeReady, ReceiveInitialObservation,
         ReceiveApplied, ReceiveNextObservation, ReceiveTerminalObservation, ReceiveResult, StepReturns
<1>3. /\ 1 \in DOMAIN toTrainer /\ Message = toTrainer[1] /\ Message.type # "error"
      /\ DOMAIN toTrainer = 1..Len(toTrainer) /\ Len(toTrainer) \in Nat
      /\ \A i \in Nat \ {0} : i + 1 \in DOMAIN toTrainer => i \in DOMAIN toTrainer'
      /\ \A i \in DOMAIN toTrainer' : i + 1 \in DOMAIN toTrainer /\ toTrainer'[i] = toTrainer[i + 1]
      /\ UNCHANGED <<openConn, toClient>>
  BY <1>1, ReadsFirst DEF Hearing
<1>4. UNCHANGED <<session, pendingArm, activeArm, completedArm, terminalReported, phase, actSeq,
                  tasks, peer>>
  BY DEF Hearing, seqVars, armVars, counterVars
<1>5. Clean' => Clean
  <2>1. ASSUME Clean', NEW i \in DOMAIN toTrainer, toTrainer[i].type = "error" PROVE FALSE
    <3>1. i # 1
      BY <1>3, <2>1
    <3>2. PICK j \in Nat \ {0} : i = j + 1
      <4>1. i \in Nat /\ i > 1
        BY <1>3, <2>1, <3>1
      <4>2. i - 1 \in Nat \ {0} /\ i = (i - 1) + 1
        BY <4>1
      <4> QED BY <4>2
    <3>3. j \in DOMAIN toTrainer' /\ toTrainer'[j] = toTrainer[i]
      BY <1>3, <3>2
    <3> QED BY <2>1, <3>3 DEF Clean
  <2> QED BY <2>1 DEF Clean
<1>6. ~Stop(1)
  BY <1>3 DEF Stop
<1> QED BY <1>1, <1>2, <1>3, <1>4, <1>5, <1>6 DEF PreviousRound, EpisodeLive

\* The rest moves up by one position.
LEMMA FramesMoveUp ==
    ASSUME Hearing, NEW k \in Nat \ {0}
    PROVE  /\ \A f : At(k + 1, f) => k \in DOMAIN toTrainer' /\ toTrainer'[k] = f
           /\ Stop(k + 1) => Stop(k)'
           /\ Between(k + 1) => Between(k)'
<1>1. /\ \A i \in DOMAIN toTrainer' : i + 1 \in DOMAIN toTrainer /\ toTrainer'[i] = toTrainer[i + 1]
      /\ \A i \in Nat \ {0} : i + 1 \in DOMAIN toTrainer => i \in DOMAIN toTrainer'
  BY ReadsFirst DEF Hearing, BridgeInv
<1>2. \A f : At(k + 1, f) => k \in DOMAIN toTrainer' /\ toTrainer'[k] = f
  BY <1>1 DEF At
<1>3. Stop(k + 1) => Stop(k)'
  BY <1>1 DEF Stop
<1>4. Between(k + 1) => Between(k)'
  BY <1>3, HearingFacts DEF Between
<1> QED BY <1>2, <1>3, <1>4

\* With it the end of a round,
LEMMA EndsMoveUp ==
    ASSUME Hearing, NEW k \in Nat \ {0}, NEW n \in Nat, Ends(k + 1, n)
    PROVE  Ends(k, n)'
<1>0. UNCHANGED <<armedRound, session>>
  BY HearingFacts
<1>1. PICK o \in Outcomes : At((k + 1) + 1, Result(session, armedRound, n, o))
  BY DEF Ends
<1>2. At(k + 1, Observation(session, armedRound, n, n, TRUE)) /\ Between((k + 1) + 2)
  BY DEF Ends
<1>3. At(k, Observation(session, armedRound, n, n, TRUE))'
  BY <1>0, <1>2, FramesMoveUp DEF At, Observation
<1>4. At(k + 1, Result(session, armedRound, n, o))'
  <2>1. k + 1 \in Nat \ {0}
    OBVIOUS
  <2> QED BY <1>0, <1>1, <2>1, FramesMoveUp DEF At, Result
<1>5. (\E u \in Outcomes : At(k + 1, Result(session, armedRound, n, u)))'
  BY <1>4
<1>6. Between(k + 2)'
  <2>1. (k + 1) + 2 = (k + 2) + 1 /\ k + 2 \in Nat \ {0}
    OBVIOUS
  <2>2. Between((k + 2) + 1)
    BY <1>2, <2>1
  <2> QED BY <2>1, <2>2, FramesMoveUp
<1> QED BY <1>3, <1>5, <1>6 DEF Ends

\* and an observation.
LEMMA ObservedMovesUp ==
    ASSUME Hearing, NEW k \in Nat \ {0}, NEW n \in Nat, Observed(k + 1, n)
    PROVE  Observed(k, n)'
<1>0. UNCHANGED <<armedRound, session>>
  BY HearingFacts
<1>1. k + 1 \in Nat \ {0}
  OBVIOUS
<1>2. At(k, Observation(session, armedRound, n, n, FALSE))'
  BY <1>0, FramesMoveUp DEF Observed, At, Observation
<1>3. CASE Playing((k + 1) + 1, n, FALSE)
  <2>1. Stop(k + 1)'
    BY <1>1, <1>3, FramesMoveUp DEF Playing
  <2>2. Playing(k + 1, n, FALSE)'
    BY <1>3, <2>1, HearingFacts DEF Playing
  <2> QED BY <1>2, <2>2 DEF Observed, RoundGoesOn
<1>4. CASE Ends((k + 1) + 1, n)
  <2>1. Ends(k + 1, n)'
    BY <1>1, <1>4, EndsMoveUp
  <2> QED BY <1>2, <2>1 DEF Observed, RoundGoesOn
<1> QED BY <1>3, <1>4 DEF Observed, RoundGoesOn

\* During a step it is told one of four things.
LEMMA StepScript ==
    ASSUME Script, trainer = "stepping"
    PROVE  /\ tResult = "NONE"
           /\ \/ ~applied /\ ~terminalSeen /\ RoundGoesOn(1, answered.obs, TRUE)
              \/ ~applied /\ ~terminalSeen /\ At(1, Applied(session, answered)) /\ Observed(2, answered.act)
              \/ applied /\ ~terminalSeen /\ Observed(1, answered.act)
              \/ /\ ~applied /\ terminalSeen
                 /\ \E o \in Outcomes : At(1, Result(session, armedRound, answered.obs, o))
                 /\ Between(2)
  BY DEF Script

\* What the first message is, then.
LEMMA StepHeads ==
    ASSUME Hearing, trainer = "stepping"
    PROVE  /\ RoundGoesOn(1, answered.obs, TRUE) =>
                /\ Ends(1, answered.obs)
                /\ Message.type = "observation"
           /\ At(1, Applied(session, answered)) => Message.type = "action_applied"
           /\ Observed(1, answered.act) => Message.type = "observation" /\ ~Message.complete
           /\ \A o \in Outcomes :
                At(1, Result(session, armedRound, answered.obs, o)) => Message.type = "episode_result"
<1>1. Message = toTrainer[1] /\ ~Stop(1)
  BY HearingFacts
<1>2. ASSUME RoundGoesOn(1, answered.obs, TRUE)
      PROVE  Ends(1, answered.obs) /\ Message.type = "observation"
  <2>1. Ends(1, answered.obs)
    BY <1>1, <1>2 DEF RoundGoesOn, Playing
  <2> QED BY <1>1, <2>1 DEF Ends, At, Observation
<1>3. At(1, Applied(session, answered)) => Message.type = "action_applied"
  BY <1>1 DEF At, Applied
<1>4. Observed(1, answered.act) => Message.type = "observation" /\ ~Message.complete
  BY <1>1 DEF Observed, At, Observation
<1>5. \A o \in Outcomes :
        At(1, Result(session, armedRound, answered.obs, o)) => Message.type = "episode_result"
  BY <1>1 DEF At, Result
<1> QED BY <1>2, <1>3, <1>4, <1>5

\* What it has read is no longer on the wire, and the rest is what it expects next.
LEMMA ScriptHeard ==
    ASSUME Hearing
    PROVE  Script'
<1>0. /\ UNCHANGED <<armedRound, session>> /\ Script
      /\ Message = toTrainer[1] /\ ~Stop(1)
  BY HearingFacts
<1>1. answered.obs \in Nat /\ answered.act \in Nat
  BY DEF Hearing, BridgeInv, BridgeTypeOK, TrainerTypeOK
<1>2. 2 = 1 + 1 /\ 3 = 2 + 1 /\ 1 \in Nat \ {0} /\ 2 \in Nat \ {0} /\ 0 \in Nat
  OBVIOUS
<1>3. CASE ReceiveHello
  <2>1. trainer = "hello" /\ trainer' = "ready"
    BY <1>3 DEF ReceiveHello
  <2>2. At(1 + 1, Ready(session)) /\ Between(2 + 1)
    BY <1>0, <1>2, <2>1 DEF Script
  <2>3. Between(2)'
    BY <1>2, <2>2, FramesMoveUp
  <2>4. At(1, Ready(session))'
    BY <1>0, <1>2, <2>2, FramesMoveUp DEF At, Ready
  <2> QED BY <2>1, <2>3, <2>4 DEF Script
<1>4. CASE ReceiveReady
  <2>1. trainer = "ready" /\ trainer' = "idle"
    BY <1>4 DEF ReceiveReady
  <2>2. Between(1 + 1)
    BY <1>0, <1>2, <2>1 DEF Script
  <2>3. Between(1)'
    BY <1>2, <2>2, FramesMoveUp
  <2> QED BY <2>1, <2>3 DEF Script
<1>5. CASE ReceiveEpisodeReady
  <2>1. trainer = "arming" /\ trainer' = "arming" /\ ~readySeen /\ readySeen'
    BY <1>5 DEF ReceiveEpisodeReady, ReadyForArm
  <2>2. Observed(1 + 1, 0)
    BY <1>0, <1>2, <2>1 DEF Script, Awaiting
  <2>3. Observed(1, 0)'
    BY <1>2, <2>2, ObservedMovesUp
  <2> QED BY <2>1, <2>3 DEF Script
<1>6. CASE ReceiveInitialObservation
  <2>1. trainer = "arming" /\ trainer' = "deciding" /\ readySeen /\ answered'.act = 0
    BY <1>6 DEF ReceiveInitialObservation, NoAnswer
  <2>2. Observed(1, 0)
    BY <1>0, <2>1 DEF Script
  <2>3. CASE Playing(1 + 1, 0, FALSE)
    <3>1. Stop(1)'
      BY <1>2, <2>3, FramesMoveUp DEF Playing
    <3>2. Playing(1, 0, FALSE)'
      BY <2>3, <3>1, HearingFacts DEF Playing
    <3> QED BY <2>1, <3>2 DEF Script, RoundGoesOn
  <2>4. CASE Ends(1 + 1, 0)
    <3>1. Ends(1, 0)'
      BY <1>2, <2>4, EndsMoveUp
    <3> QED BY <2>1, <3>1 DEF Script, RoundGoesOn
  <2> QED BY <2>2, <2>3, <2>4 DEF Observed, RoundGoesOn
<1>7. CASE ReceiveApplied
  <2>1. /\ trainer = "stepping" /\ trainer' = "stepping" /\ ~applied /\ applied'
        /\ Message.type = "action_applied" /\ UNCHANGED <<answered, terminalSeen, tResult>>
    BY <1>7 DEF ReceiveApplied, AppliedMatches, Receive
  <2>2. tResult = "NONE" /\ ~terminalSeen /\ Observed(1 + 1, answered.act)
    BY <1>0, <1>2, <2>1, StepScript, StepHeads
  <2>3. PICK m \in Nat : m = answered.act
    BY <1>1
  <2>4. Observed(1, m)'
    BY <1>2, <2>2, <2>3, ObservedMovesUp
  <2>5. Observed(1, answered.act)'
    BY <2>1, <2>3, <2>4
  <2> QED BY <2>1, <2>2, <2>5 DEF Script
<1>8. CASE ReceiveNextObservation
  <2>1. trainer = "stepping" /\ trainer' = "deciding" /\ applied /\ UNCHANGED answered
    BY <1>8 DEF ReceiveNextObservation, ActiveObservation, StepReturns
  <2>2. Observed(1, answered.act)
    BY <1>0, <2>1, StepScript
  <2>3. PICK m \in Nat : m = answered.act
    BY <1>1
  <2>4. CASE Playing(1 + 1, answered.act, FALSE)
    <3>1. Stop(1)'
      BY <1>2, <2>4, FramesMoveUp DEF Playing
    <3>2. Playing(1, answered.act, FALSE)'
      BY <2>1, <2>4, <3>1, HearingFacts DEF Playing
    <3> QED BY <2>1, <3>2 DEF Script, RoundGoesOn
  <2>5. CASE Ends(1 + 1, answered.act)
    <3>1. Ends(1, m)'
      BY <1>2, <2>3, <2>5, EndsMoveUp
    <3>2. Ends(1, answered.act)'
      BY <2>1, <2>3, <3>1
    <3> QED BY <2>1, <3>2 DEF Script, RoundGoesOn
  <2> QED BY <2>2, <2>4, <2>5 DEF Observed, RoundGoesOn
<1>9. CASE ReceiveTerminalObservation
  <2>1. trainer = "stepping" /\ Message.type = "observation" /\ Message.complete
    BY <1>9 DEF ReceiveTerminalObservation, TerminalObservation, Receive
  <2>2. tResult = "NONE" /\ ~applied /\ ~terminalSeen /\ Ends(1, answered.obs)
    BY <1>0, <2>1, StepScript, StepHeads
  <2>3. terminalSeen' = TRUE /\ UNCHANGED <<trainer, answered, applied, tResult>>
    BY <1>9, <2>2 DEF ReceiveTerminalObservation
  <2>4. PICK o \in Outcomes : At(1 + 1, Result(session, armedRound, answered.obs, o))
    BY <2>2 DEF Ends
  <2>5. At(1, Result(session, armedRound, answered.obs, o))'
    BY <1>0, <1>2, <2>3, <2>4, FramesMoveUp DEF At, Result
  <2>6. (\E u \in Outcomes : At(1, Result(session, armedRound, answered.obs, u)))'
    BY <2>5
  <2>7. Between(2)'
    <3>1. Between(1 + 2)
      BY <2>2 DEF Ends
    <3>2. Between(2 + 1)
      BY <3>1
    <3> QED BY <1>2, <3>2, FramesMoveUp
  <2> QED BY <2>1, <2>2, <2>3, <2>6, <2>7 DEF Script
<1>10. CASE ReceiveResult
  <2>1. trainer = "stepping" /\ Message.type = "episode_result"
    BY <1>10 DEF ReceiveResult, Receive
  <2>2. terminalSeen /\ Between(1 + 1)
    BY <1>0, <1>2, <2>1, StepScript, StepHeads
  <2>3. trainer' = "idle"
    BY <1>10, <2>2 DEF ReceiveResult, StepReturns
  <2>4. Between(1)'
    BY <1>2, <2>2, FramesMoveUp
  <2> QED BY <2>3, <2>4 DEF Script
<1> QED BY <1>3, <1>4, <1>5, <1>6, <1>7, <1>8, <1>9, <1>10 DEF Hearing, Reads

\* What it hears in a session it heard in it.
LEMMA HearsInSession ==
    ASSUME BridgeInv, ConversationInv, Reads, TrainerNext, InSession'
    PROVE  Hearing
<1>1. BridgeTypeOK
  BY DEF BridgeInv
<1>2. UNCHANGED <<peer, tasks, seqVars>> /\ UNCHANGED session
  BY TrainerKeepsClient DEF seqVars
<1>3. /\ 1 \in DOMAIN toTrainer /\ Message = toTrainer[1] /\ Message \in ClientFrames
      /\ UNCHANGED openConn
  BY <1>1, ReadsFirst
<1>4. Linked
  BY <1>2, <1>3 DEF InSession, Linked
<1>5. CASE ReceiveHello
  <2>1. /\ trainer = "hello" /\ trainer' = "ready" /\ tSession' = Message.session
        /\ Message.type = "connection_hello"
    BY <1>5 DEF ReceiveHello, Receive
  <2>2. Message.session = session
    BY <1>2, <2>1 DEF InSession
  <2>3. \A f \in ClientFrames : f.type = "connection_hello" => f = Hello(f.session)
    BY DEF ClientFrames, OtherFrames, Acknowledgements, Hello
  <2>4. toTrainer[1] = Hello(session)
    BY <1>3, <2>1, <2>2, <2>3
  <2> QED BY <1>2, <1>3, <1>4, <2>1, <2>4 DEF InSession, At, Hearing
<1>6. CASE ~ReceiveHello
  <2>1. trainer # "hello" /\ trainer' # "hello" /\ UNCHANGED tSession
    BY <1>6 DEF Reads, ReceiveReady, ReceiveEpisodeReady, ReceiveInitialObservation, ReceiveApplied,
           ReceiveNextObservation, ReceiveTerminalObservation, ReceiveResult, StepReturns
  <2> QED BY <1>2, <1>4, <2>1 DEF InSession, Hearing
<1> QED BY <1>5, <1>6

\* A step of the trainer that writes, in a session.
Speaking ==
    /\ BridgeInv
    /\ ConversationInv
    /\ InSession
    /\ UNCHANGED <<peer, tasks, seqVars, toTrainer, openConn>>

\* An arm is sent when the client has nothing to say, and awaits it.
LEMMA ArmConverses ==
    ASSUME Speaking, NEW r \in TrainerRounds, NEW v \in TrainerPolicies, Arm(r, v)
    PROVE  Script' /\ ArmsFit'
<1> DEFINE a == [request |-> 1, round |-> r, policy |-> v]
           g == ArmFrame(tSession, a)
<1>0. /\ BridgeTypeOK /\ WireTypeOK /\ TrainerTypeOK /\ SequencerTypeOK /\ MessagesFit /\ ArmsFit /\ Script
      /\ Linked
  BY DEF Speaking, BridgeInv, BridgeTypeOK, SequencerInv, ConversationInv, ScriptKept, InSession
<1>1. UNCHANGED <<pendingArm, activeArm, completedArm, terminalReported, toTrainer, tasks, peer>>
  BY DEF Speaking, seqVars, armVars, counterVars
<1>2. /\ trainer = "idle" /\ trainer' = "arming" /\ armedRound' = a /\ a.round = r
      /\ ~readySeen' /\ TrainerWrites(g) /\ armedRound.round < r
      /\ r \in Nat /\ armedRound.round \in Nat
  BY <1>0, TrainerAssumption DEF Arm, TrainerTypeOK
<1>3. g \in TrainerFrames /\ g.type = "arm_episode" /\ g.arm = a
  <2>1. g \in TrainerFrames
    BY <1>0, <1>2, RequestTypes
  <2> QED BY <2>1 DEF ArmFrame
<1> HIDE DEF g, a
<1>4. Stop(1) /\ (Clean => pendingArm = NoArm /\ ~EpisodeLive /\ PreviousRound = armedRound.round)
  BY <1>0, <1>2 DEF Script, Between
<1>5. Stop(1)' /\ (Clean' <=> Clean) /\ (EpisodeLive' <=> EpisodeLive) /\ PreviousRound' = PreviousRound
  BY <1>1, <1>4 DEF Stop, Clean, EpisodeLive, PreviousRound
<1>6. Awaiting'
  BY <1>1, <1>2, <1>4, <1>5 DEF Awaiting
<1>7. ASSUME Clean', NEW f \in TrainerFrames, OnTheWay(f)', f.type = "arm_episode"
      PROVE  f.arm = armedRound' \/ f.arm.round <= PreviousRound'
  <2>1. OnTheWay(f) \/ f = g
    BY <1>0, <1>1, <1>2, <1>3, <1>7, OnTheWayGrows
  <2>2. CASE OnTheWay(f)
    <3>1. f.arm.round <= armedRound.round
      BY <1>0, <1>7, <2>2 DEF MessagesFit, Sent
    <3> QED BY <1>4, <1>5, <1>7, <3>1
  <2>3. CASE f = g
    BY <1>2, <1>3, <2>3
  <2> QED BY <2>1, <2>2, <2>3
<1> QED BY <1>2, <1>6, <1>7 DEF Script, ArmsFit

\* An action is sent for the observation that the round goes on from, or ends at.
LEMMA AnswerConverses ==
    ASSUME Speaking, Answer
    PROVE  Script' /\ ArmsFit'
<1> DEFINE g == ActionFrame(tSession, answered')
<1>0. /\ BridgeTypeOK /\ WireTypeOK /\ TrainerTypeOK /\ SequencerTypeOK /\ ArmsFit /\ Script
      /\ TrainerFits /\ AppliedIsFollowed /\ InSession
  BY DEF Speaking, BridgeInv, BridgeTypeOK, SequencerInv, ConversationInv, ScriptKept
<1>1. UNCHANGED <<session, pendingArm, activeArm, completedArm, terminalReported, phase, actSeq,
                  toTrainer, tasks, peer>>
  BY DEF Speaking, seqVars, armVars, counterVars
<1>2. /\ trainer = "deciding" /\ trainer' = "stepping" /\ answered'.obs = answered.act
      /\ TrainerWrites(g) /\ UNCHANGED <<armedRound, applied, terminalSeen, tResult>>
      /\ answered.act \in Nat
  BY <1>0 DEF Answer, TrainerTypeOK
<1>3. g \in TrainerFrames /\ g.type = "action_request"
  BY <1>0, RequestTypes DEF ActionFrame
<1> HIDE DEF g
<1>4. ~applied /\ ~terminalSeen /\ tResult = "NONE"
  BY <1>0, <1>2 DEF TrainerFits, AppliedIsFollowed
<1>5. (Clean' <=> Clean) /\ (EpisodeLive' <=> EpisodeLive) /\ PreviousRound' = PreviousRound
  BY <1>1 DEF Clean, EpisodeLive, PreviousRound
<1>6. PICK m \in Nat : m = answered.act
  BY <1>2
<1>7. RoundGoesOn(1, answered.act, FALSE)
  BY <1>0, <1>2 DEF Script
<1>8. RoundGoesOn(1, answered.obs, TRUE)'
  <2>1. CASE Playing(1, answered.act, FALSE)
    <3>1. Stop(1)'
      BY <1>1, <2>1 DEF Stop, Playing
    <3>2. Playing(1, answered.obs, TRUE)'
      BY <1>1, <1>2, <1>5, <2>1, <3>1 DEF Playing
    <3> QED BY <3>2 DEF RoundGoesOn
  <2>2. CASE Ends(1, answered.act)
    <3>1. Ends(1, m)
      BY <1>6, <2>2
    <3>2. Between(1 + 2)'
      BY <1>1, <1>2, <1>5, <3>1 DEF Ends, Between, Stop
    <3>3. At(1, Observation(session, armedRound, m, m, TRUE))'
      BY <1>1, <1>2, <3>1 DEF Ends, At, Observation
    <3>4. PICK o \in Outcomes : At(1 + 1, Result(session, armedRound, m, o))
      BY <3>1 DEF Ends
    <3>5. At(1 + 1, Result(session, armedRound, m, o))'
      BY <1>1, <1>2, <3>4 DEF At, Result
    <3>6. (\E u \in Outcomes : At(1 + 1, Result(session, armedRound, m, u)))'
      BY <3>5
    <3>7. Ends(1, m)'
      BY <3>2, <3>3, <3>6 DEF Ends
    <3>8. Ends(1, answered.obs)'
      BY <1>2, <1>6, <3>7
    <3> QED BY <3>8 DEF RoundGoesOn
  <2> QED BY <1>7, <2>1, <2>2 DEF RoundGoesOn
<1>9. ASSUME Clean', NEW f \in TrainerFrames, OnTheWay(f)', f.type = "arm_episode"
      PROVE  f.arm = armedRound' \/ f.arm.round <= PreviousRound'
  <2>1. OnTheWay(f) \/ f = g
    BY <1>0, <1>1, <1>2, <1>3, <1>9, OnTheWayGrows
  <2>2. OnTheWay(f)
    BY <1>3, <1>9, <2>1
  <2> QED BY <1>0, <1>2, <1>5, <1>9, <2>2 DEF ArmsFit
<1> QED BY <1>2, <1>4, <1>8, <1>9 DEF Script, ArmsFit

\* What the trainer does keeps the conversation.
LEMMA TrainerConverses ==
    ASSUME BridgeInv, ConversationInv, TrainerNext
    PROVE  ArmsFit' /\ DisconnectionMeetsNothing' /\ ScriptKept'
<1> SUFFICES ASSUME InSession'
             PROVE  ArmsFit' /\ DisconnectionMeetsNothing' /\ ScriptKept'
  BY DEF ArmsFit, DisconnectionMeetsNothing, ScriptKept
<1>0. /\ BridgeTypeOK /\ WireTypeOK /\ TrainerTypeOK /\ ConnectionsInOrder /\ TrainerFits
      /\ DisconnectionMeetsNothing /\ ArmsFit
  BY DEF BridgeInv, BridgeTypeOK, ConversationInv
<1>1. /\ UNCHANGED <<peer, tasks, seqVars>>
      /\ UNCHANGED <<session, pendingArm, activeArm, completedArm>>
  BY TrainerKeepsClient DEF seqVars, armVars
<1>2. InSession => DisconnectionMeetsNothing'
  BY <1>0, <1>1 DEF DisconnectionMeetsNothing
<1>3. Linked'
  BY DEF InSession
<1>4. ~Dial
  BY <1>0, <1>1, <1>3 DEF Dial, Linked, ConnectionsInOrder, WireTypeOK
<1>5. ~Closes
  BY <1>3 DEF Closes, Linked
<1>6. ~TrainerRestarts
  BY <1>0, <1>3 DEF TrainerRestarts, wireVars, TrainerFits, Linked
<1>7. CASE Reads
  <2>1. Hearing
    BY <1>7, HearsInSession
  <2>2. Script'
    BY <2>1, ScriptHeard
  <2>3. /\ UNCHANGED <<armedRound, tasks, peer, toClient>> /\ PreviousRound' = PreviousRound
        /\ (Clean' => Clean)
    BY <2>1, HearingFacts
  <2>4. ArmsFit'
    <3>1. ASSUME Clean', NEW f \in TrainerFrames, OnTheWay(f)', f.type = "arm_episode"
          PROVE  f.arm = armedRound' \/ f.arm.round <= PreviousRound'
      <4>1. OnTheWay(f)
        BY <2>3, <3>1, OnTheWaySame
      <4> QED BY <1>0, <2>1, <2>3, <3>1, <4>1 DEF ArmsFit, Hearing
    <3> QED BY <3>1 DEF ArmsFit
  <2> QED BY <1>2, <2>1, <2>2, <2>4 DEF Hearing, ScriptKept
<1>8. ASSUME NEW r \in TrainerRounds, NEW v \in TrainerPolicies, Arm(r, v)
      PROVE  ArmsFit' /\ DisconnectionMeetsNothing' /\ ScriptKept'
  <2>1. /\ UNCHANGED <<toTrainer, openConn, tSession>>
        /\ trainer # "hello" /\ trainer' # "hello"
    BY <1>8 DEF Arm
  <2>2. Speaking
    BY <1>1, <1>3, <2>1 DEF Speaking, InSession, Linked
  <2> QED BY <1>2, <1>8, <2>2, ArmConverses DEF Speaking, ScriptKept
<1>9. CASE Answer
  <2>1. /\ UNCHANGED <<toTrainer, openConn, tSession>>
        /\ trainer # "hello" /\ trainer' # "hello"
    BY <1>9 DEF Answer
  <2>2. Speaking
    BY <1>1, <1>3, <2>1 DEF Speaking, InSession, Linked
  <2> QED BY <1>2, <1>9, <2>2, AnswerConverses DEF Speaking, ScriptKept
<1> QED BY <1>4, <1>5, <1>6, <1>7, <1>8, <1>9, TrainerCases

-----------------------------------------------------------------------------
(* The theorem *)

\* Nothing has been said at first.
LEMMA ConversationInit == ASSUME BridgeInit PROVE ConversationInv
<1> USE DEF BridgeInit, WireInit, TrainerInit, ClientInit
<1>1. ~Linked /\ ~InSession
  BY DEF Linked, InSession
<1>2. MessagesFit /\ ArmsFit /\ DisconnectionMeetsNothing /\ ScriptKept
  BY <1>1 DEF MessagesFit, ArmsFit, DisconnectionMeetsNothing, ScriptKept
<1>3. TrainerFits /\ WaitingIsSilent /\ NobodySends
  BY DEF TrainerFits, WaitingIsSilent, NobodySends
<1>4. SessionsAreDrawn
  BY DEF SessionsAreDrawn, SequencerInit
<1> QED BY <1>2, <1>3, <1>4 DEF ConversationInv

\* Every step of the bridge keeps the conversation.
LEMMA ConversationStep ==
    ASSUME BridgeInv, ConversationInv, [BridgeNext]_bridgeVars
    PROVE  ConversationInv'
<1>1. /\ SequencerInv /\ SequencerTypeOK /\ BridgeTypeOK /\ PeerOfAcceptor /\ ConnectionsInOrder
      /\ AppliedIsFollowed /\ TrainerFits /\ WaitingIsSilent /\ SessionsAreDrawn /\ NobodySends
      /\ MessagesFit
  BY DEF BridgeInv, SequencerInv, ConversationInv
<1>2. TrainerFits' /\ WaitingIsSilent' /\ SessionsAreDrawn' /\ NobodySends' /\ MessagesFit'
  BY <1>1, StepTrainerFits, StepWaiting, StepSessionsDrawn, StepNobodySends, StepMessagesFit
<1>3. CASE ClientNext
  BY <1>2, <1>3, ClientConverses DEF ConversationInv
<1>4. CASE TrainerNext
  BY <1>2, <1>4, TrainerConverses DEF ConversationInv
<1>5. CASE UNCHANGED bridgeVars
  <2>1. /\ UNCHANGED <<openConn, peer, toTrainer, toClient, tasks, session, pendingArm, activeArm,
                       completedArm, terminalReported, phase, actSeq, trainer, tSession, armedRound,
                       readySeen, answered, applied, terminalSeen, tResult>>
    BY <1>5 DEF bridgeVars, wireVars, clientVars, trainerVars, seqVars, armVars, counterVars
  <2>2. (InSession' <=> InSession) /\ (Clean' <=> Clean) /\ PreviousRound' = PreviousRound
    BY <2>1 DEF InSession, Linked, At, Hello, Clean, PreviousRound
  <2>3. ArmsFit'
    BY <1>1, <2>1, <2>2, OnTheWaySame DEF ConversationInv, ArmsFit
  <2>4. DisconnectionMeetsNothing'
    BY <2>1, <2>2 DEF ConversationInv, DisconnectionMeetsNothing
  <2>5. Script => Script'
    BY <2>1 DEF Script, Between, Awaiting, Observed, RoundGoesOn, Playing, Ends, At, Stop, Clean,
                EpisodeLive, PreviousRound, Hello, Ready, EpisodeReady, Observation, Result, Applied
  <2> QED BY <1>2, <2>2, <2>3, <2>4, <2>5 DEF ConversationInv, ScriptKept
<1> QED BY <1>3, <1>4, <1>5 DEF BridgeNext, ClientNext, TrainerNext

\* What the script lets the client say is what the trainer expects.
LEMMA ScriptIsExpected ==
    ASSUME BridgeInv, ConversationInv
    PROVE  TalkFollowsSession
<1> SUFFICES ASSUME trainer \in {"arming", "stepping"}, Linked, session = tSession,
                    toTrainer # <<>>, Message.type # "error"
             PROVE  Expected
  BY DEF TalkFollowsSession
<1>1. InSession /\ Script /\ TrainerFits
  BY DEF InSession, ConversationInv, ScriptKept
<1>2. Message = toTrainer[1] /\ 1 \in DOMAIN toTrainer
  BY MessageTypes, AppendTail DEF BridgeInv, BridgeTypeOK, WireTypeOK
<1>3. ~Stop(1)
  BY <1>2 DEF Stop
<1>4. CASE trainer = "arming"
  <2>1. \/ ~readySeen /\ At(1, EpisodeReady(session, armedRound))
        \/ readySeen /\ At(1, Observation(session, armedRound, 0, 0, FALSE))
    BY <1>1, <1>3, <1>4 DEF Script, Awaiting, Observed
  <2> QED BY <1>2, <1>4, <2>1
          DEF Expected, ReadyForArm, InitialObservation, At, EpisodeReady, Observation
<1>5. CASE trainer = "stepping"
  <2>0. /\ answered.round = armedRound.round /\ answered.policy = armedRound.policy
        /\ answered.act = answered.obs + 1
    BY <1>1, <1>5 DEF TrainerFits
  <2>1. CASE ~applied /\ RoundGoesOn(1, answered.obs, TRUE)
    <3>1. At(1, Observation(session, armedRound, answered.obs, answered.obs, TRUE))
      BY <1>3, <2>1 DEF RoundGoesOn, Playing, Ends
    <3>2. TerminalObservation /\ Message.type = "observation"
      BY <1>2, <2>0, <2>1, <3>1 DEF TerminalObservation, OfThisRound, ExpectedSequence, At, Observation
    <3> QED BY <1>5, <3>2 DEF Expected
  <2>2. CASE ~applied /\ At(1, Applied(session, answered))
    BY <1>2, <1>5, <2>2 DEF Expected, AppliedMatches, At, Applied
  <2>3. CASE applied /\ Observed(1, answered.act)
    <3>1. At(1, Observation(session, armedRound, answered.act, answered.act, FALSE))
      BY <2>3 DEF Observed
    <3>2. ActiveObservation /\ Message.type = "observation"
      BY <1>2, <2>0, <2>3, <3>1 DEF ActiveObservation, OfThisRound, ExpectedSequence, At, Observation
    <3> QED BY <1>5, <3>2 DEF Expected
  <2>4. ASSUME ~applied, NEW o \in Outcomes, At(1, Result(session, armedRound, answered.obs, o))
        PROVE  Expected
    <3>1. OfThisRound /\ Message.type = "episode_result"
      BY <1>2, <2>0, <2>4 DEF OfThisRound, ExpectedSequence, At, Result
    <3> QED BY <1>5, <3>1 DEF Expected
  <2> QED BY <1>1, <1>5, <2>1, <2>2, <2>3, <2>4, StepScript
<1> QED BY <1>4, <1>5

\* The conversation is kept, for any number of connections, rounds and actions, with
\* lost connections, restarts and failed writes at any time.
THEOREM ConversationIsKept == BridgeSpec => []ConversationInv
<1>1. BridgeInit => BridgeInv /\ ConversationInv
  BY BridgeInitInv, ConversationInit
<1>2. BridgeInv /\ ConversationInv /\ [BridgeNext]_bridgeVars => (BridgeInv /\ ConversationInv)'
  BY BridgeStepInv, ConversationStep
<1> QED BY <1>1, <1>2, PTL DEF BridgeSpec

\* Whatever was lost on earlier connections: while YRushConnection and the client are
\* in the same session, every message but an error that reaches reset or step is the one
\* that it checks for, so that no run is lost to an "unexpected" or "stale" message.
THEOREM TalkFollowsTheSession == BridgeSpec => []TalkFollowsSession
<1>1. BridgeInv /\ ConversationInv => TalkFollowsSession
  BY ScriptIsExpected
<1> QED BY BridgeInvariant, ConversationIsKept, <1>1, PTL

-----------------------------------------------------------------------------
(* A link on which nothing fails *)

\* Until the player joins Paper nothing has been said, and a single connection at most
\* has been dialled.
OffPaper ==
    /\ trainer \in {"closed", "hello"}
    /\ trainer = "closed" => backlog = <<>> /\ peer = 0
    /\ peer \in {0, openConn} /\ \A i \in DOMAIN backlog : backlog[i] = openConn
    /\ acceptor # "lost" /\ ~announced
    /\ toTrainer = <<>> /\ toClient = <<>>
    /\ \A k \in DOMAIN tasks : tasks[k].kind = "connected"
    /\ latest = NoPacket /\ pendingArm = NoArm /\ activeArm = NoArm

\* On Paper, the last packet is the server's state, and who is out of a round that goes
\* on was eliminated from it.
OnPaper ==
    /\ latest \in {NoPacket, Snapshot}
    /\ activeArm # NoArm /\ terminalReported /\ server = "ACTIVE" => player = "eliminated"

PaperHolds ==
    \/ online = "down" /\ OffPaper
    \/ online = "up" /\ OnPaper

\* An open connection is accepted or waits to be, and hears from its peer alone.
ConnectionHolds ==
    /\ openConn # 0 => Linked \/ \E i \in DOMAIN backlog : backlog[i] = openConn
    /\ toTrainer # <<>> => Linked

\* A connection is announced once.
AnnouncedOnce ==
    \A j, k \in DOMAIN tasks : IsConnected(tasks[j]) /\ IsConnected(tasks[k]) => j = k

\* From the hello that a trainer is about to read, it is in the client's session, which
\* nothing ends.
SessionHolds ==
    /\ trainer \in {"ready", "idle", "arming", "deciding", "stepping"} => InSession
    /\ trainer = "hello" /\ toTrainer # <<>> /\ Message.type = "connection_hello" => InSession
    /\ InSession => announced /\ \A d \in DOMAIN tasks : tasks[d].kind # "disconnected"

\* An action that the client drops: it met the end of its round.
Dropped(f) == f.type = "action_request" /\ LateAction(f.action)

\* The arm in force has not been taken.
Untaken == ~readySeen /\ toTrainer = <<>> /\ pendingArm = NoArm /\ ~EpisodeLive

\* The client waits for the action that was sent.
Awaited == EpisodeLive /\ activeArm = armedRound /\ phase = "WAITING_ACTION" /\ actSeq = answered.obs

\* What is on the way to the client is what it can handle.
Fits(f) ==
    \/ trainer = "idle" /\ Dropped(f)
    \/ trainer = "arming" /\ Untaken /\ (Dropped(f) \/ f = ArmFrame(session, armedRound))
    \/ trainer = "stepping" /\ f = ActionFrame(session, answered) /\ (Dropped(f) \/ Awaited)

RequestsFit == Linked => \A f \in TrainerFrames : OnTheWay(f) => f.session = session /\ Fits(f)

\* An arm may follow an action on the way; nothing else follows anything.
Before(f, g) == f.type = "action_request" /\ g.type = "arm_episode"

RequestsInOrder ==
    Linked =>
        /\ \A i, j \in DOMAIN toClient : i < j => Before(toClient[i], toClient[j])
        /\ \A k \in DOMAIN tasks : IsMessage(tasks[k]) =>
            /\ \A l \in DOMAIN tasks : k < l /\ IsMessage(tasks[l]) =>
                Before(tasks[k].frame, tasks[l].frame)
            /\ \A i \in DOMAIN toClient : Before(tasks[k].frame, toClient[i])

TerminalObs(f) == f.type = "observation" /\ f.complete

\* An end that the trainer is yet to hear of is the one that the client remembers, and
\* the action that it drops for it is one sent for that observation.
EndsRemembered ==
    InSession =>
        \A i \in DOMAIN toTrainer : TerminalObs(toTrainer[i]) =>
            /\ completedArm = armedRound
            /\ completedObs = toTrainer[i].obs /\ completedAct = toTrainer[i].obs
            /\ raceConsumed => trainer = "stepping" /\ answered.obs = toTrainer[i].obs

HealthyInv ==
    /\ ~stopped /\ HealthyLinkNeverFails
    /\ PaperHolds
    /\ ConnectionHolds
    /\ AnnouncedOnce
    /\ SessionHolds
    /\ RequestsFit
    /\ RequestsInOrder
    /\ EndsRemembered

-----------------------------------------------------------------------------
(* The client without faults *)

NothingFails == Faults = {} /\ TrainerFaults = {}

Healthy == BridgeInv /\ ConversationInv /\ HealthyInv

\* What its threads do to the queue of tasks and the messages behind it.
LEMMA HealthyQueues ==
    ASSUME NothingFails, ServerTypeOK, ClientNext
    PROVE  \/ ListenerNext
           \/ TaskTaken /\ UNCHANGED toClient
           \/ UNCHANGED <<tasks, toClient, peer, backlog, acceptor>>
<1>1. CASE TaskNext
  <2>1. TaskTaken /\ UNCHANGED toClient
    BY <1>1 DEF TaskNext, KeepOutsideClient, trainerVars, HandleTask, HandleConnected,
                HandleStaleMessage, HandleArm, HandleAction, HandleShutdown, HandleDisconnected,
                TakeTask, TaskTaken
  <2> QED BY <2>1
<1>2. CASE TickNext
  <2>1. KeepOutsideTick
    BY <1>2 DEF TickNext, ClientTick, TickMissesDeadline, TickWaits, TickBegins,
                TickBeginsOffline, TickHolds, TickCompletes, TickCompletesUnsent
  <2> QED BY <2>1 DEF KeepOutsideTick
<1>3. CASE JoinNext \/ LossNext \/ DisconnectNext
  BY <1>3 DEF JoinNext, JoinedPaper, LossNext, PaperLost, wireVars, DisconnectNext, DisconnectedPaper
<1>4. ~StopNext
  BY DEF StopNext, ShutdownClient, NothingFails
<1>5. CASE ServerNext
  BY <1>5, ServerSteps DEF ReceiveYRush, KeepOutsidePacket, wireVars, clientVars
<1> QED BY <1>1, <1>2, <1>3, <1>4, <1>5 DEF ClientNext

\* A link lasts for as long as the trainer wants it.
LEMMA LinkStays ==
    ASSUME NothingFails, SequencerTypeOK, ServerTypeOK, PeerOfAcceptor, ClientNext, Linked
    PROVE  Linked' /\ UNCHANGED peer
<1>1. UNCHANGED openConn /\ peer # 0 /\ peer = openConn
  BY ClientKeepsOpen DEF Linked
<1>2. ~Accept /\ ~PeerLost
  BY <1>1 DEF Accept, PeerLost, PeerOfAcceptor
<1>3. UNCHANGED peer
  BY <1>2, HealthyQueues DEF ListenerNext, Listener, AnnounceConnected, ReadFrame,
     AnnounceDisconnected, wireVars, TaskTaken
<1> QED BY <1>1, <1>3 DEF Linked

\* On Paper the client stays, and it is told of a round by the server alone.
LEMMA PaperAside ==
    ASSUME NothingFails, SequencerTypeOK, ListenerNext \/ TaskNext \/ TickNext
    PROVE  /\ UNCHANGED <<online, stopped, latest, serverVars>>
           /\ UNCHANGED <<activeArm, terminalReported>> \/ activeArm' = NoArm
<1>0. ~WriteMayFail
  BY DEF WriteMayFail, NothingFails
<1> USE DEF KeepOutsideClient, paperVars
<1>1. CASE ListenerNext
  BY <1>1 DEF ListenerNext, Listener, Accept, AnnounceConnected, ReadFrame, PeerLost,
              AnnounceDisconnected, seqVars, armVars
<1>2. CASE TaskNext
  <2>1. TaskNext => UNCHANGED <<online, stopped, serverVars>>
    BY DEF TaskNext, HandleTask, HandleConnected, HandleStaleMessage, HandleArm, HandleAction,
           HandleShutdown, HandleDisconnected, TakeTask
  <2>2. CASE HandleConnected
    <3>1. SessionBegins \/ UNCHANGED seqVars
      BY <1>0, <2>2 DEF HandleConnected, SessionNotBegun, SessionBeginsUnsent
    <3> QED BY <1>2, <2>1, <3>1 DEF SessionBegins, StartSession, seqVars, armVars
  <2>3. CASE HandleStaleMessage
    BY <1>2, <2>1, <2>3 DEF HandleStaleMessage, seqVars, armVars
  <2>4. CASE HandleArm
    BY <1>2, <2>1, <2>4 DEF HandleArm, ArmAccepted, ArmRepeated, ArmRefused, Abort, DropEpisode,
                            NothingKept, seqVars, armVars
  <2>5. CASE HandleAction
    BY <1>2, <2>1, <2>5 DEF HandleAction, ActionQueued, LateActionDropped, ActionRefused, Abort,
                            DropEpisode, NothingKept, armVars
  <2>6. CASE HandleShutdown \/ HandleDisconnected
    BY <1>2, <2>1, <2>6 DEF HandleShutdown, HandleDisconnected, Abort, DropEpisode, NothingKept
  <2> QED BY <1>2, <2>2, <2>3, <2>4, <2>5, <2>6 DEF TaskNext, HandleTask
<1>3. CASE TickNext
  <2>1. UNCHANGED <<online, stopped, serverVars>>
    BY <1>3 DEF TickNext, ClientTick, TickMissesDeadline, TickWaits, TickBegins, TickBeginsOffline,
                TickHolds, TickCompletes, TickCompletesUnsent, KeepOutsideTick
  <2>2. \/ TickMissesDeadline \/ TickWaits \/ TickBegins \/ TickBeginsOffline \/ TickHolds
        \/ TickCompletes
    BY <1>0, <1>3 DEF TickNext, ClientTick, TickCompletesUnsent
  <2>3. CASE TickMissesDeadline \/ TickBeginsOffline
    BY <2>1, <2>3 DEF TickMissesDeadline, TickBeginsOffline, DeadlineMissed, Abort, DropEpisode, NothingKept
  <2>4. CASE TickWaits \/ TickBegins \/ TickHolds \/ TickCompletes
    BY <2>1, <2>4 DEF TickWaits, TickPasses, TickBegins, BeginAction, TickHolds, TickCompletes,
                      CompleteAction, seqVars, armVars
  <2> QED BY <2>2, <2>3, <2>4
<1> QED BY <1>1, <1>2, <1>3

\* The server tells a client on Paper of its state, never out of order, and on Paper the
\* client takes each packet as it comes.
LEMMA ServerTells ==
    ASSUME NothingFails, Healthy, ServerNext, online = "up"
    PROVE  /\ Snapshot' \in Packets /\ ReceiveYRush(Snapshot') /\ ~RefusePacket(Snapshot')
           /\ OnPaper'
<1> DEFINE p == Snapshot'
<1>0. /\ SequencerInv /\ ServerTypeOK /\ OnPaper
  BY DEF Healthy, BridgeInv, BridgeTypeOK, HealthyInv, PaperHolds
<1>1. p \in Packets
  BY <1>0, ServerSteps, Snapshots
<1>2. ReceiveYRush(p)
  <2>1. CASE RepeatState
    BY <2>1 DEF RepeatState, serverVars, Snapshot
  <2>2. ASSUME ServerAnnounces PROVE ReceiveYRush(p)
    BY <2>2 DEF ServerAnnounces, Deliver
  <2> QED BY <2>1, <2>2 DEF ServerNext, OpenCountdown, StartRound, CancelCountdown, Eliminate,
                            CompleteRound, CleanUpRound
<1>3. /\ p.phase = server' /\ p.outcome = verdict'
      /\ p.playerActive = (server' = "LOCKED_COUNTDOWN" \/ (server' = "ACTIVE" /\ player' = "in"))
  BY DEF Snapshot
<1>4. /\ latest.phase \in {"NONE", server}
      /\ latest.phase = server => latest.playerActive =
            (server = "LOCKED_COUNTDOWN" \/ (server = "ACTIVE" /\ player = "in"))
  BY <1>0 DEF OnPaper, NoPacket, Snapshot, ServerTypeOK
<1>5. /\ EpisodeLive => latest.phase = "ACTIVE" /\ latest.playerActive
      /\ activeArm # NoArm /\ terminalReported => ServerMidRound
  BY <1>0 DEF SequencerInv, LiveOnlyInActiveRound, EndedEpisodeRemembered
<1> HIDE DEF p
<1>6. ASSUME p.phase = "LOCKED_COUNTDOWN", ~ServerMidRound
      PROVE  ~OutOfOrder(p)
  BY <1>6 DEF OutOfOrder
<1>7. ~OutOfOrder(p)
  <2>1. CASE OpenCountdown
    BY <1>3, <1>4, <1>6, <2>1 DEF OpenCountdown, ServerMidRound
  <2>2. CASE StartRound
    BY <1>3, <2>2 DEF StartRound, OutOfOrder
  <2>3. CASE CancelCountdown
    <3>1. ~ServerMidRound
      BY <1>4, <2>3 DEF CancelCountdown, ServerMidRound
    <3>2. activeArm = NoArm
      BY <1>5, <3>1 DEF EpisodeLive, ServerMidRound
    <3> QED BY <1>3, <2>3, <3>2 DEF CancelCountdown, OutOfOrder
  <2>4. CASE Eliminate
    BY <1>3, <1>4, <2>4 DEF Eliminate, OutOfOrder, CountdownFollowed
  <2>5. ASSUME NEW o \in Outcomes, CompleteRound(o) PROVE ~OutOfOrder(p)
    <3>1. activeArm # NoArm => ServerMidRound
      BY <1>5 DEF EpisodeLive, ServerMidRound
    <3>2. p.phase = "ROUND_COMPLETE" /\ p.outcome = o /\ server = "ACTIVE"
      BY <1>3, <2>5 DEF CompleteRound
    <3>3. activeArm # NoArm /\ terminalReported => o = "ELIMINATED"
      BY <1>0, <2>5, <3>2 DEF CompleteRound, OnPaper
    <3> QED BY <3>1, <3>2, <3>3 DEF OutOfOrder
  <2>6. CASE CleanUpRound
    BY <1>3, <1>4, <2>6 DEF CleanUpRound, OutOfOrder, InactiveTooEarly
  <2>7. CASE RepeatState
    <3>1. UNCHANGED <<server, player>> /\ server # "ROUND_COMPLETE"
      BY <2>7 DEF RepeatState, serverVars
    <3> QED BY <1>3, <1>4, <3>1 DEF OutOfOrder, InactiveTooEarly, ServerMidRound, CountdownFollowed
  <2> QED BY <2>1, <2>2, <2>3, <2>4, <2>5, <2>6, <2>7 DEF ServerNext
<1>8. ~RefusePacket(p)
  BY <1>7 DEF RefusePacket, PacketRefused
<1>9. ~WriteMayFail
  BY DEF WriteMayFail, NothingFails
<1>10. \/ StartEpisode(p) \/ FinishEpisode(p) \/ CleanUp(p) \/ FollowRound(p)
  BY <1>2, <1>8, <1>9 DEF ReceiveYRush, StartEpisodeUnsent, FinishEpisodeUnsent
<1>11. latest' = p
  BY <1>10 DEF StartEpisode, EpisodeStarted, FinishEpisode, PlayerEliminated, RoundCompleted, CleanUp,
               ReceiveInactive, FollowRound, ReceiveCountdown, RoundContinues, ActiveRoundSkipped,
               CompleteRoundSkipped, CompletionRepeated
<1>12. ASSUME activeArm' # NoArm, terminalReported', server' = "ACTIVE"
       PROVE  player' = "eliminated"
  <2>1. p.phase = "ACTIVE"
    BY <1>3, <1>12
  <2>2. FinishEpisode(p) \/ RoundContinues(p)
    BY <1>10, <1>12, <2>1 DEF StartEpisode, EpisodeStarted, CleanUp, ReceiveInactive, FollowRound,
        ReceiveCountdown, ActiveRoundSkipped, SkipRound, armVars, CompleteRoundSkipped, CompletionRepeated
  <2>3. CASE StartRound
    <3>1. p.playerActive /\ ~ServerMidRound
      BY <1>3, <1>4, <2>3 DEF StartRound, ServerMidRound
    <3>2. RoundContinues(p)
      BY <2>1, <2>2, <3>1 DEF FinishEpisode, PlayerEliminated, RoundCompleted
    <3>3. activeArm # NoArm /\ terminalReported
      BY <1>12, <3>2 DEF RoundContinues, KeepSequencing, armVars
    <3> QED BY <1>5, <3>1, <3>3
  <2>4. CASE RepeatState
    <3>1. UNCHANGED <<server, player>>
      BY <2>4 DEF RepeatState, serverVars
    <3>2. RoundContinues(p)
      BY <1>3, <1>4, <1>5, <1>12, <2>1, <2>2, <3>1 DEF FinishEpisode, PlayerEliminated, RoundCompleted
    <3> QED BY <1>0, <1>12, <3>1, <3>2 DEF RoundContinues, KeepSequencing, armVars, OnPaper
  <2> QED BY <1>12, <2>3, <2>4 DEF ServerNext, OpenCountdown, CancelCountdown, Eliminate, CompleteRound,
                                  CleanUpRound
<1>13. OnPaper'
  BY <1>11, <1>12 DEF OnPaper, p
<1> QED BY <1>1, <1>2, <1>8, <1>13 DEF p

-----------------------------------------------------------------------------
(* The trainer without faults *)

\* The trainer closes a connection of its own accord, or in a handshake.
ClosesUnharmed ==
    /\ Closes /\ trainer' = "closed"
    /\ UNCHANGED peer
    /\ CloseLawfully \/ (trainer \in {"hello", "ready"} /\ toTrainer # <<>> /\ UNCHANGED toClient)

\* Nothing else takes it off a connection: it fails at nothing it reads.
LEMMA HealthyTrainer ==
    ASSUME NothingFails, Healthy, TrainerNext
    PROVE  \/ Dial
           \/ ClosesUnharmed
           \/ Reads
           \/ \E r \in TrainerRounds, v \in TrainerPolicies : Arm(r, v)
           \/ Answer
<1>0. /\ HealthyLinkNeverFails /\ ConnectionHolds /\ SessionHolds /\ TrainerFits /\ TrainerTypeOK
      /\ WireTypeOK
  BY DEF Healthy, HealthyInv, ConversationInv, BridgeInv, BridgeTypeOK
<1>1. UNCHANGED peer
  BY TrainerKeepsClient
<1>2. ~Timeout /\ ~TrainerGone /\ ~TrainerRestarts
  BY <1>0 DEF NothingFails, Timeout, TrainerGone, TrainerRestarts, HealthyLinkNeverFails
<1>3. ~ReceiveEnd
  BY <1>0 DEF ReceiveEnd, Receiving, TrainerFits, ConnectionHolds, Linked
<1>4. CASE ReceiveUnexpected
  <2>1. Message \in ClientFrames /\ toTrainer[1] = Message /\ 1 \in DOMAIN toTrainer
    BY <1>0, <1>4, MessageTypes DEF WireTypeOK, ReceiveUnexpected
  <2>2. Message.type # "error"
    BY <1>0, <2>1 DEF HealthyLinkNeverFails
  <2>3. ASSUME trainer \in {"arming", "stepping"} PROVE FALSE
    <3>1. Linked /\ session = tSession
      BY <1>0, <2>3 DEF SessionHolds, InSession
    <3>2. Expected
      BY <1>4, <2>2, <2>3, <3>1, ScriptIsExpected DEF Healthy, ReceiveUnexpected, TalkFollowsSession
    <3> QED BY <1>4, <3>2 DEF ReceiveUnexpected
  <2>4. trainer \in {"hello", "ready"}
    BY <1>4, <2>3 DEF ReceiveUnexpected, Receiving
  <2>5. Closes /\ trainer' = "closed" /\ UNCHANGED toClient
    BY <1>4, <2>4 DEF ReceiveUnexpected, CloseAfterFailure, Closes
  <2> QED BY <1>1, <1>4, <2>4, <2>5 DEF ClosesUnharmed, ReceiveUnexpected
<1>5. CASE CloseLawfully
  <2>1. Closes /\ trainer' = "closed"
    BY <1>5 DEF CloseLawfully, Closes
  <2> QED BY <1>1, <1>5, <2>1 DEF ClosesUnharmed
<1> QED BY <1>2, <1>3, <1>4, <1>5 DEF TrainerNext, ReceiveNext, TrainerReceives, DialNext, ActNext,
                                      TrainerActs, Reads

-----------------------------------------------------------------------------
(* What the client is about to handle *)

\* What the client is about to handle was sent in its session, and fits.
LEMMA HeadFits ==
    ASSUME Healthy, Linked, TakeTask("message"), CurrentTask
    PROVE  /\ Head(tasks).frame \in TrainerFrames /\ OnTheWay(Head(tasks).frame)
           /\ Head(tasks).frame.type \in {"arm_episode", "action_request"}
           /\ Head(tasks).frame.session = session /\ Fits(Head(tasks).frame)
           /\ InSession /\ Script /\ Clean
<1> DEFINE f == Head(tasks).frame
<1>0. /\ WireTypeOK /\ MessagesFit /\ RequestsFit /\ SessionHolds /\ ScriptKept /\ HealthyLinkNeverFails
  BY DEF Healthy, HealthyInv, ConversationInv, BridgeInv, BridgeTypeOK
<1>1. f \in TrainerFrames /\ OnTheWay(f) /\ Sent(f)
  BY <1>0, CurrentIsSent
<1>2. f.session = session /\ Fits(f)
  BY <1>0, <1>1 DEF RequestsFit
<1>3. InSession
  BY <1>0, <1>2 DEF Fits, SessionHolds
<1> QED BY <1>0, <1>1, <1>2, <1>3 DEF Sent, ScriptKept, Clean, HealthyLinkNeverFails

\* The arm that the client is about to handle is one that it takes.
LEMMA ArmFits ==
    ASSUME Healthy, Linked, TakeTask("message"), CurrentTask, Head(tasks).frame.type = "arm_episode"
    PROVE  /\ Armable(Head(tasks).frame.session, Head(tasks).frame.arm)
           /\ trainer = "arming" /\ Untaken
<1>1. /\ Head(tasks).frame.session = session /\ Fits(Head(tasks).frame) /\ Script /\ Clean
  BY HeadFits
<1>2. trainer = "arming" /\ Untaken /\ Head(tasks).frame = ArmFrame(session, armedRound)
  BY <1>1 DEF Fits, Dropped, ActionFrame
<1>3. Awaiting
  BY <1>1, <1>2 DEF Script, Untaken, At
<1>4. PreviousRound < armedRound.round
  BY <1>1, <1>3 DEF Awaiting
<1>5. PreviousRound \in Nat /\ armedRound.round \in Nat
  BY ArmNumbers DEF PreviousRound, Healthy, BridgeInv, SequencerInv, SequencerTypeOK, BridgeTypeOK,
                    TrainerTypeOK
<1>6. Head(tasks).frame.arm = armedRound
  BY <1>2 DEF ArmFrame
<1> QED BY <1>1, <1>2, <1>4, <1>5, <1>6 DEF Armable, Untaken, EpisodeLive

\* So is the action, or one that it drops.
LEMMA ActionFits ==
    ASSUME Healthy, Linked, TakeTask("message"), CurrentTask,
           Head(tasks).frame.type = "action_request"
    PROVE  /\ Head(tasks).frame.session = session
           /\ \/ LateAction(Head(tasks).frame.action)
              \/ /\ ExpectedAction(Head(tasks).frame.action)
                 /\ trainer = "stepping" /\ Head(tasks).frame.action = answered /\ Awaited
<1>0. /\ SequencerInv /\ TrainerFits
  BY DEF Healthy, BridgeInv, ConversationInv
<1>1. /\ Head(tasks).frame.session = session /\ Fits(Head(tasks).frame)
  BY HeadFits
<1>2. CASE Dropped(Head(tasks).frame)
  BY <1>1, <1>2 DEF Dropped
<1>3. CASE ~Dropped(Head(tasks).frame)
  <2>1. trainer = "stepping" /\ Head(tasks).frame = ActionFrame(session, answered) /\ Awaited
    BY <1>1, <1>3 DEF Fits, ArmFrame
  <2>2. Head(tasks).frame.action = answered
    BY <2>1 DEF ActionFrame
  <2>3. /\ answered.round = activeArm.round /\ answered.policy = activeArm.policy
        /\ answered.act = answered.obs + 1 /\ actSeq = answered.obs /\ phase = "WAITING_ACTION"
        /\ EpisodeLive
    BY <1>0, <2>1 DEF Awaited, TrainerFits
  <2>4. activeArm.round > completedArm.round
    BY <1>0, <2>3 DEF SequencerInv, RoundsAdvance
  <2>5. activeArm.round \in Nat /\ completedArm.round \in Nat
    BY <1>0, ArmNumbers DEF SequencerInv, SequencerTypeOK
  <2>6. ~ForCompletedRound(answered)
    BY <2>3, <2>4, <2>5 DEF ForCompletedRound
  <2>7. ExpectedAction(answered)
    BY <1>0, <2>3, <2>6 DEF ExpectedAction, ForActiveRound, EpisodeLive, SequencerInv,
                            ObservationsCountActions
  <2> QED BY <1>1, <2>1, <2>2, <2>7
<1> QED BY <1>2, <1>3

-----------------------------------------------------------------------------
(* The client's turns without faults *)

\* A step that the trainer need not hear of, and one that drops an action.
Quiet == KeepsRound /\ UNCHANGED <<completedObs, completedAct, raceConsumed>>

DropsLate ==
    /\ HandleAction
    /\ LateActionDropped(Head(tasks).frame.session, Head(tasks).frame.action)
    /\ UNCHANGED toTrainer

\* What the client does while it is linked, when nothing fails.
HealthyTurns ==
    \/ Quiet
    \/ DropsLate
    \/ TakesArm
    \/ TakesAction
    \/ Starts
    \/ Completes
    \/ Finishes

\* A handler that leaves the sequencer and the wire alone.
LEMMA SameIsQuiet == ASSUME UNCHANGED <<seqVars, toTrainer>> PROVE Quiet
  BY SameKeepsRound DEF Quiet, seqVars, completedVars

\* A task.
LEMMA HealthyTask ==
    ASSUME NothingFails, Healthy, Linked, HandleTask
    PROVE  SessionBegins \/ HandleDisconnected \/ HealthyTurns
<1>0. ~WriteMayFail
  BY DEF WriteMayFail, NothingFails
<1>1. CASE HandleConnected
  BY <1>0, <1>1, SameIsQuiet DEF HandleConnected, SessionNotBegun, SessionBeginsUnsent, HealthyTurns
<1>2. CASE HandleStaleMessage
  BY <1>2, SameIsQuiet DEF HandleStaleMessage, HealthyTurns
<1>3. CASE HandleArm
  <2> DEFINE m == Head(tasks).frame
  <2>1. Armable(m.session, m.arm)
    BY <1>3, ArmFits DEF HandleArm
  <2>2. CASE ArmAccepted(m.session, m.arm) /\ UNCHANGED toTrainer
    BY <1>3, <2>2 DEF TakesArm, HealthyTurns
  <2>3. CASE ArmRepeated(m.session, m.arm) /\ UNCHANGED toTrainer
    BY <2>3, SameIsQuiet DEF ArmRepeated, HealthyTurns
  <2> QED BY <1>3, <2>1, <2>2, <2>3 DEF HandleArm, ArmRefused
<1>4. CASE HandleAction
  <2> DEFINE m == Head(tasks).frame
  <2>1. m.session = session /\ (LateAction(m.action) \/ ExpectedAction(m.action))
    BY <1>4, ActionFits DEF HandleAction
  <2>2. CASE ActionQueued(m.session, m.action) /\ UNCHANGED toTrainer
    BY <1>4, <2>2 DEF TakesAction, HealthyTurns
  <2>3. CASE LateActionDropped(m.session, m.action) /\ UNCHANGED toTrainer
    BY <1>4, <2>3 DEF DropsLate, HealthyTurns
  <2> QED BY <1>4, <2>1, <2>2, <2>3 DEF HandleAction, ActionRefused
<1>5. ~HandleShutdown
  BY HeadFits DEF HandleShutdown
<1> QED BY <1>1, <1>2, <1>3, <1>4, <1>5 DEF HandleTask

\* A tick.
LEMMA HealthyTick ==
    ASSUME NothingFails, Healthy, ClientTick
    PROVE  HealthyTurns
<1>1. ~WriteMayFail /\ ~TickMissesDeadline
  BY DEF WriteMayFail, NothingFails, TickMissesDeadline
<1>2. ~TickBeginsOffline
  BY DEF TickBeginsOffline, Healthy, HealthyInv, PaperHolds, BridgeInv, DownIsIdle, SequencerInv,
         PhaseFollowsEpisode
<1>3. CASE TickWaits
  <2>1. KeepsRound
    BY <1>3 DEF TickWaits, TickPasses, KeepsRound, armVars, EpisodeLive, PreviousRound
  <2> QED BY <1>3, <2>1 DEF TickWaits, TickPasses, completedVars, Quiet, HealthyTurns
<1>4. CASE TickBegins
  <2>1. KeepsRound
    BY <1>4 DEF TickBegins, BeginAction, KeepsRound, armVars, counterVars, EpisodeLive, PreviousRound
  <2> QED BY <1>4, <2>1 DEF TickBegins, BeginAction, completedVars, Quiet, HealthyTurns
<1>5. CASE TickHolds
  BY <1>5, SameIsQuiet DEF TickHolds, HealthyTurns
<1>6. CASE TickCompletes
  BY <1>6 DEF TickCompletes, Completes, HealthyTurns
<1> QED BY <1>1, <1>2, <1>3, <1>4, <1>5, <1>6 DEF ClientTick, TickCompletesUnsent

\* A packet.
LEMMA HealthyPacket ==
    ASSUME NothingFails, Healthy, ServerNext
    PROVE  /\ HealthyTurns
           /\ UNCHANGED <<online, announced, tasks, peer, toClient, backlog, acceptor, stopped, drawn>>
           /\ online = "up" => OnPaper'
           /\ online # "up" => UNCHANGED <<seqVars, toTrainer>>
<1>0. SequencerInv /\ ServerTypeOK /\ ~WriteMayFail
  BY DEF Healthy, BridgeInv, BridgeTypeOK, WriteMayFail, NothingFails
<1>1. CASE online = "up"
  <2>1. PICK p \in Packets : ReceiveYRush(p) /\ ~RefusePacket(p)
    BY <1>1, ServerTells
  <2>2. ASSUME StartEpisode(p) PROVE HealthyTurns
    BY <2>2 DEF StartEpisode, Starts, HealthyTurns
  <2>3. ASSUME FinishEpisode(p) PROVE HealthyTurns
    <3>1. p.phase = "ACTIVE" \/ p.phase = "ROUND_COMPLETE"
      BY <2>3 DEF FinishEpisode, PlayerEliminated, RoundCompleted
    <3>2. Ending(p) \in Outcomes
      BY <3>1 DEF Ending, Packets, Outcomes
    <3> QED BY <2>3, <3>2 DEF FinishEpisode, Finishes, HealthyTurns
  <2>4. ASSUME CleanUp(p) \/ FollowRound(p) PROVE HealthyTurns
    BY <1>0, <2>4, PacketKeepsRound DEF Quiet, HealthyTurns
  <2>5. HealthyTurns
    BY <1>0, <2>1, <2>2, <2>3, <2>4 DEF ReceiveYRush, StartEpisodeUnsent, FinishEpisodeUnsent
  <2>6. KeepOutsidePacket
    BY <2>1 DEF ReceiveYRush
  <2>7. UNCHANGED <<online, announced, tasks, peer, toClient, backlog, acceptor, stopped, drawn>>
    BY <2>6 DEF KeepOutsidePacket, paperVars, sessionVars
  <2> QED BY <1>1, <2>5, <2>7, ServerTells
<1>2. CASE online # "up"
  <2>1. UNCHANGED <<seqVars, wireVars, clientVars>>
    BY <1>0, <1>2, ServerSteps
  <2> QED BY <1>2, <2>1, SameIsQuiet DEF HealthyTurns, wireVars, clientVars, paperVars, sessionVars
<1> QED BY <1>1, <1>2

\* Every step of a linked client.
LEMMA HealthyClient ==
    ASSUME NothingFails, Healthy, Linked, ClientNext
    PROVE  \/ SessionBegins /\ (JoinNext \/ (TaskNext /\ HandleConnected))
           \/ TaskNext /\ HandleDisconnected
           \/ HealthyTurns
<1>0. ~WriteMayFail /\ ~LossNext /\ ~StopNext /\ ~DisconnectNext
  BY DEF WriteMayFail, NothingFails, LossNext, PaperLost, StopNext, ShutdownClient, DisconnectNext,
         DisconnectedPaper, Healthy, HealthyInv, PaperHolds
<1>1. CASE ListenerNext
  BY <1>1, SameIsQuiet DEF ListenerNext, Listener, Accept, AnnounceConnected, ReadFrame, PeerLost,
                           AnnounceDisconnected, wireVars, HealthyTurns
<1>2. CASE TaskNext
  <2>1. SessionBegins \/ HandleDisconnected \/ HealthyTurns
    BY <1>2, HealthyTask DEF TaskNext
  <2>2. CASE SessionBegins /\ ~HandleConnected /\ ~HandleDisconnected
    <3>1. ~announced /\ announced'
      BY <2>2 DEF SessionBegins
    <3> QED BY <1>2, <2>2, <3>1 DEF TaskNext, HandleTask, HandleStaleMessage, HandleArm, HandleAction,
                                   HandleShutdown, sessionVars
  <2> QED BY <1>2, <2>1, <2>2
<1>3. CASE TickNext
  BY <1>3, HealthyTick DEF TickNext
<1>4. CASE JoinNext
  BY <1>0, <1>4, SameIsQuiet DEF JoinNext, JoinedPaper, BeginTrainerSession, SessionBeginsUnsent,
                                 SessionNotBegun, HealthyTurns
<1>5. CASE ServerNext
  BY <1>5, HealthyPacket
<1> QED BY <1>0, <1>1, <1>2, <1>3, <1>4, <1>5 DEF ClientNext

-----------------------------------------------------------------------------
(* Paper, connections and announcements *)

\* Before Paper the trainer dials, and its connection is accepted and announced; nothing
\* else happens.
LEMMA StepOffPaper ==
    ASSUME NothingFails, Healthy, [BridgeNext]_bridgeVars, online = "down"
    PROVE  PaperHolds'
<1>0. /\ OffPaper /\ ~EpisodeLive /\ SequencerInv /\ SequencerTypeOK /\ ServerTypeOK /\ WireTypeOK
      /\ PeerOfAcceptor /\ TrainerFits
  BY DEF Healthy, HealthyInv, PaperHolds, BridgeInv, BridgeTypeOK, DownIsIdle, SequencerInv,
         ConversationInv
<1> USE <1>0
<1>1. ASSUME UNCHANGED <<wireVars, trainer, acceptor, announced, tasks, seqVars, online>>
      PROVE  PaperHolds'
  <2>1. OffPaper'
    BY <1>1 DEF OffPaper, wireVars, seqVars, armVars
  <2> QED BY <1>1, <2>1 DEF PaperHolds
<1>2. CASE TrainerNext
  <2>1. UNCHANGED <<peer, tasks, acceptor, online, announced, latest, pendingArm, activeArm>>
    BY <1>2, TrainerKeepsClient DEF seqVars, armVars
  <2>2. ~Reads
    BY ReadsFirst DEF OffPaper, Healthy, BridgeInv
  <2>3. Dial
    BY <1>2, <2>2, HealthyTrainer DEF OffPaper, ClosesUnharmed, CloseLawfully, Arm, Answer
  <2>4. /\ trainer' = "hello" /\ openConn' = dials + 1 /\ backlog' = Append(<<>>, openConn')
        /\ peer = 0 /\ toTrainer' = <<>> /\ UNCHANGED toClient
    BY <2>3 DEF Dial, OffPaper
  <2>5. \A i \in DOMAIN backlog' : backlog'[i] = openConn'
    BY <2>4
  <2>6. OffPaper'
    BY <2>1, <2>4, <2>5 DEF OffPaper
  <2> QED BY <2>1, <2>6 DEF PaperHolds
<1>3. CASE ListenerNext
  <2>1. /\ UNCHANGED <<openConn, trainer, online, announced, toTrainer, latest, pendingArm, activeArm>>
    BY <1>3 DEF ListenerNext, Listener, Accept, AnnounceConnected, ReadFrame, PeerLost,
                AnnounceDisconnected, KeepOutsideClient, trainerVars, wireVars, seqVars, armVars,
                paperVars, sessionVars
  <2>2. ~ReadFrame /\ ~PeerLost /\ ~AnnounceDisconnected
    BY DEF ReadFrame, PeerLost, AnnounceDisconnected, OffPaper, PeerOfAcceptor
  <2>3. CASE Accept
    <3>1. /\ backlog # <<>> /\ backlog' = Tail(backlog) /\ peer' = Head(backlog)
          /\ UNCHANGED <<tasks, toClient>> /\ acceptor' = "accepted"
      BY <2>3 DEF Accept
    <3>2. backlog \in Seq(Nat) /\ 0 \in Nat
      BY DEF WireTypeOK
    <3>3. /\ Head(backlog) = backlog[1] /\ 1 \in DOMAIN backlog
          /\ DOMAIN backlog' = 1..(Len(backlog) - 1)
          /\ \A i \in DOMAIN backlog' : i + 1 \in DOMAIN backlog /\ backlog'[i] = backlog[i + 1]
      BY <3>1, <3>2, AppendTail
    <3>4. peer' = openConn /\ \A i \in DOMAIN backlog' : backlog'[i] = openConn
      BY <3>1, <3>3 DEF OffPaper
    <3>5. OffPaper'
      BY <2>1, <3>1, <3>4 DEF OffPaper
    <3> QED BY <2>1, <3>5 DEF PaperHolds
  <2>4. CASE AnnounceConnected
    <3> DEFINE t == [kind |-> "connected", conn |-> peer]
    <3>1. tasks' = Append(tasks, t) /\ UNCHANGED <<backlog, peer, toClient>> /\ acceptor' = "reading"
      BY <2>4 DEF AnnounceConnected, QueueTask, wireVars
    <3>2. t.kind = "connected" /\ t \in Tasks /\ tasks \in Seq(Tasks)
      BY DEF WireTypeOK, Tasks, Connecteds
    <3> HIDE DEF t
    <3>3. \A k \in DOMAIN tasks' : tasks'[k].kind = "connected"
      BY <3>1, <3>2, AppendTail DEF OffPaper
    <3>4. OffPaper'
      BY <2>1, <3>1, <3>3 DEF OffPaper
    <3> QED BY <2>1, <3>4 DEF PaperHolds
  <2> QED BY <1>3, <2>2, <2>3, <2>4 DEF ListenerNext, Listener
<1>4. CASE TaskNext
  <2>1. tasks # <<>> /\ tasks \in Seq(Tasks)
    BY <1>4 DEF TaskNext, HandleTask, HandleConnected, HandleStaleMessage, HandleArm, HandleAction,
                HandleShutdown, HandleDisconnected, TakeTask, WireTypeOK
  <2>2. \A e \in Tasks : /\ Head(tasks) = tasks[1] /\ 1 \in DOMAIN tasks
                         /\ DOMAIN Tail(tasks) = 1..(Len(tasks) - 1)
                         /\ \A i \in 1..(Len(tasks) - 1) :
                                i + 1 \in DOMAIN tasks /\ Tail(tasks)[i] = tasks[i + 1]
    BY <2>1, AppendTail
  <2>3. [kind |-> "disconnected"] \in Tasks
    BY DEF Tasks
  <2>4. Head(tasks).kind = "connected" /\ \A k \in DOMAIN Tail(tasks) : Tail(tasks)[k].kind = "connected"
    BY <2>2, <2>3 DEF OffPaper
  <2>5. HandleConnected
    BY <1>4, <2>4 DEF TaskNext, HandleTask, HandleStaleMessage, HandleArm, HandleAction, HandleShutdown,
                      HandleDisconnected, TakeTask
  <2>6. /\ tasks' = Tail(tasks)
        /\ UNCHANGED <<wireVars, trainer, acceptor, announced, seqVars, online>>
    BY <1>4, <2>5 DEF TaskNext, HandleConnected, TakeTask, wireVars, sessionVars, paperVars,
                      KeepOutsideClient, trainerVars
  <2>7. OffPaper'
    BY <2>4, <2>6 DEF OffPaper, wireVars, seqVars, armVars
  <2> QED BY <2>6, <2>7 DEF PaperHolds
<1>5. ~TickNext
  <2>1. phase \notin {"WAITING_ACTION", "ACTION_QUEUED", "ACTION_RUNNING"}
    BY DEF SequencerInv, PhaseFollowsEpisode
  <2> QED BY <2>1 DEF TickNext, ClientTick, TickMissesDeadline, DeadlineMissed, TickWaits, TickPasses,
                      TickBegins, BeginAction, TickBeginsOffline, TickHolds, TickCompletes,
                      TickCompletesUnsent, Holding
<1>6. CASE JoinNext
  <2>1. online' = "up" /\ UNCHANGED latest /\ activeArm' = NoArm
    BY <1>6 DEF JoinNext, JoinedPaper, BeginTrainerSession, SessionBegins, StartSession,
                SessionBeginsUnsent, NothingKept, SessionNotBegun, seqVars, armVars, OffPaper
  <2> QED BY <2>1 DEF PaperHolds, OnPaper, OffPaper
<1>7. CASE ServerNext
  BY <1>1, <1>7, ServerSteps DEF wireVars, clientVars, paperVars, sessionVars, trainerVars
<1>8. CASE UNCHANGED bridgeVars
  BY <1>1, <1>8 DEF bridgeVars, clientVars, paperVars, sessionVars, trainerVars
<1>9. ~LossNext /\ ~DisconnectNext /\ ~StopNext
  BY DEF LossNext, PaperLost, DisconnectNext, DisconnectedPaper, StopNext, ShutdownClient, NothingFails
<1> QED BY <1>2, <1>3, <1>4, <1>5, <1>6, <1>7, <1>8, <1>9 DEF BridgeNext, TrainerNext

\* On Paper the client and the server stay together.
LEMMA StepPaper ==
    ASSUME NothingFails, Healthy, [BridgeNext]_bridgeVars
    PROVE  PaperHolds' /\ ~stopped'
<1>0. /\ PaperHolds /\ ~stopped /\ SequencerInv /\ SequencerTypeOK
  BY DEF Healthy, HealthyInv, BridgeInv, SequencerInv
<1>1. CASE ListenerNext \/ TaskNext \/ TickNext
  <2>1. /\ UNCHANGED <<online, stopped, latest, server, player, verdict>>
        /\ UNCHANGED <<activeArm, terminalReported>> \/ activeArm' = NoArm
    BY <1>0, <1>1, PaperAside DEF serverVars
  <2>2. OnPaper => OnPaper'
    BY <2>1 DEF OnPaper, Snapshot
  <2> QED BY <1>0, <1>1, <2>1, <2>2, StepOffPaper DEF PaperHolds, BridgeNext
<1>2. CASE TrainerNext \/ UNCHANGED bridgeVars
  <2>1. UNCHANGED <<online, stopped, seqVars, serverVars>>
    BY <1>2, TrainerKeepsClient DEF bridgeVars, clientVars, paperVars
  <2>2. OnPaper => OnPaper'
    BY <2>1 DEF OnPaper, Snapshot, seqVars, armVars, serverVars
  <2> QED BY <1>0, <2>1, <2>2, StepOffPaper DEF PaperHolds
<1>3. CASE ServerNext
  BY <1>0, <1>3, HealthyPacket, StepOffPaper DEF PaperHolds
<1>4. CASE JoinNext
  <2>1. UNCHANGED stopped /\ online = "down"
    BY <1>4 DEF JoinNext, JoinedPaper
  <2> QED BY <1>0, <2>1, StepOffPaper
<1>5. ~LossNext /\ ~StopNext /\ ~DisconnectNext
  BY <1>0 DEF NothingFails, LossNext, PaperLost, StopNext, ShutdownClient, DisconnectNext,
         DisconnectedPaper, PaperHolds
<1> QED BY <1>1, <1>2, <1>3, <1>4, <1>5 DEF BridgeNext, TrainerNext

\* A connection waits, or is linked, for as long as the trainer holds it open.
LEMMA StepConnection ==
    ASSUME NothingFails, Healthy, [BridgeNext]_bridgeVars
    PROVE  ConnectionHolds'
<1>0. /\ ConnectionHolds /\ SequencerTypeOK /\ ServerTypeOK /\ WireTypeOK /\ BridgeTypeOK
      /\ PeerOfAcceptor
  BY DEF Healthy, HealthyInv, BridgeInv, BridgeTypeOK, SequencerInv
<1>1. CASE ClientNext
  <2>1. UNCHANGED openConn
    BY <1>0, <1>1, ClientKeepsOpen
  <2>2. CASE Linked
    BY <1>0, <1>1, <2>2, LinkStays DEF ConnectionHolds
  <2>3. CASE ~Linked
    <3>1. toTrainer' = <<>>
      BY <1>0, <1>1, <2>3, ClientAdds DEF ConnectionHolds
    <3>2. ASSUME NEW i \in DOMAIN backlog, backlog[i] = openConn
          PROVE  Linked' \/ \E j \in DOMAIN backlog' : backlog'[j] = openConn
      <4>1. CASE Accept
        <5>1. /\ backlog # <<>> /\ backlog' = Tail(backlog) /\ peer' = Head(backlog)
              /\ backlog \in Seq(Nat) /\ 0 \in Nat
          BY <1>0, <4>1 DEF Accept, WireTypeOK
        <5>2. /\ Head(backlog) = backlog[1] /\ DOMAIN backlog = 1..Len(backlog) /\ Len(backlog) \in Nat
              /\ DOMAIN backlog' = 1..(Len(backlog) - 1)
              /\ \A j \in DOMAIN backlog' : backlog'[j] = backlog[j + 1]
          BY <5>1, AppendTail
        <5>3. CASE i = 1
          <6>1. openConn # 0
            BY <1>0, <3>2, WaitingIsUnlinked DEF Healthy, BridgeInv
          <6> QED BY <2>1, <3>2, <5>1, <5>2, <5>3, <6>1 DEF Linked
        <5>4. CASE i # 1
          <6>1. i - 1 \in DOMAIN backlog' /\ backlog'[i - 1] = backlog[i]
            BY <3>2, <5>2, <5>4
          <6> QED BY <3>2, <6>1
        <5> QED BY <5>3, <5>4
      <4>2. CASE ~Accept
        <5>1. UNCHANGED backlog
          BY <1>0, <1>1, <4>2, HealthyQueues DEF ListenerNext, Listener, AnnounceConnected, ReadFrame,
             PeerLost, AnnounceDisconnected, wireVars, TaskTaken
        <5> QED BY <3>2, <5>1
      <4> QED BY <4>1, <4>2
    <3> QED BY <1>0, <2>1, <2>3, <3>1, <3>2 DEF ConnectionHolds
  <2> QED BY <2>2, <2>3
<1>2. CASE TrainerNext
  <2>1. UNCHANGED peer
    BY <1>2, TrainerKeepsClient
  <2>2. CASE Dial
    <3>1. openConn' = dials + 1 /\ backlog' = Append(backlog, dials + 1) /\ toTrainer' = <<>>
      BY <2>2 DEF Dial
    <3>2. backlog \in Seq(Nat) /\ dials + 1 \in Nat
      BY <1>0 DEF WireTypeOK
    <3>3. Len(backlog) + 1 \in DOMAIN backlog' /\ backlog'[Len(backlog) + 1] = dials + 1
      BY <3>1, <3>2, AppendTail
    <3> QED BY <3>1, <3>3 DEF ConnectionHolds
  <2>3. CASE ClosesUnharmed
    BY <2>3 DEF ClosesUnharmed, Closes, ConnectionHolds
  <2>4. CASE Reads
    BY <1>0, <2>1, <2>4, ReadsFirst DEF ConnectionHolds, Linked
  <2>5. CASE Answer \/ \E r \in TrainerRounds, v \in TrainerPolicies : Arm(r, v)
    BY <1>0, <2>1, <2>5 DEF Answer, Arm, ConnectionHolds, Linked
  <2> QED BY <1>2, <2>2, <2>3, <2>4, <2>5, HealthyTrainer
<1>3. CASE UNCHANGED bridgeVars
  BY <1>0, <1>3 DEF bridgeVars, wireVars, ConnectionHolds, Linked
<1> QED BY <1>1, <1>2, <1>3 DEF BridgeNext, ClientNext, TrainerNext

\* The listener announces what it has just accepted, once.
LEMMA StepAnnounced ==
    ASSUME NothingFails, Healthy, [BridgeNext]_bridgeVars
    PROVE  AnnouncedOnce'
<1>0. /\ AnnouncedOnce /\ ServerTypeOK /\ WireTypeOK /\ ConnectionsInOrder /\ tasks \in Seq(Tasks)
  BY DEF Healthy, HealthyInv, BridgeInv, BridgeTypeOK, WireTypeOK
<1>1. ASSUME UNCHANGED <<tasks, peer>> PROVE AnnouncedOnce'
  BY <1>0, <1>1 DEF AnnouncedOnce, IsConnected
<1>2. ASSUME NEW t \in Tasks, QueueTask(t), UNCHANGED peer,
             IsConnected(t) => \A k \in DOMAIN tasks : ~IsConnected(tasks[k])
      PROVE  AnnouncedOnce'
  <2>1. /\ DOMAIN tasks' = 1..(Len(tasks) + 1) /\ DOMAIN tasks = 1..Len(tasks) /\ Len(tasks) \in Nat
        /\ \A k \in DOMAIN tasks : tasks'[k] = tasks[k]
        /\ tasks'[Len(tasks) + 1] = t
    BY <1>0, <1>2, AppendTail DEF QueueTask
  <2>2. \A k \in DOMAIN tasks' : k \in DOMAIN tasks \/ k = Len(tasks) + 1
    BY <2>1
  <2>3. \A k \in DOMAIN tasks : IsConnected(tasks'[k]) => IsConnected(tasks[k])
    BY <2>1
  <2>5. ASSUME NEW j \in DOMAIN tasks', NEW k \in DOMAIN tasks',
               IsConnected(tasks'[j]), IsConnected(tasks'[k])
        PROVE  j = k
    <3>1. CASE j \in DOMAIN tasks /\ k \in DOMAIN tasks
      BY <1>0, <2>3, <2>5, <3>1 DEF AnnouncedOnce
    <3>2. CASE j = Len(tasks) + 1 /\ k = Len(tasks) + 1
      BY <3>2
    <3>3. CASE IsConnected(t)
      BY <1>2, <2>2, <2>3, <2>5, <3>2, <3>3
    <3>4. CASE ~IsConnected(t)
      BY <2>1, <2>2, <2>5, <3>1, <3>4
    <3> QED BY <3>3, <3>4
  <2> QED BY <1>2, <2>5 DEF AnnouncedOnce, IsConnected
<1>3. ASSUME TaskTaken PROVE AnnouncedOnce'
  <2>1. tasks # <<>> /\ tasks' = Tail(tasks) /\ UNCHANGED peer /\ [kind |-> "disconnected"] \in Tasks
    BY <1>3 DEF TaskTaken, Tasks
  <2>2. \A k \in DOMAIN tasks' : k \in Nat /\ k + 1 \in DOMAIN tasks /\ tasks'[k] = tasks[k + 1]
    BY <1>0, <2>1, AppendTail
  <2>3. ASSUME NEW j \in DOMAIN tasks', NEW k \in DOMAIN tasks',
               IsConnected(tasks'[j]), IsConnected(tasks'[k])
        PROVE  j = k
    <3>1. IsConnected(tasks[j + 1]) /\ IsConnected(tasks[k + 1])
      BY <2>2, <2>3
    <3>2. j + 1 = k + 1
      BY <1>0, <2>2, <3>1 DEF AnnouncedOnce
    <3> QED BY <2>2, <3>2
  <2> QED BY <2>1, <2>3 DEF AnnouncedOnce, IsConnected
<1>4. CASE ListenerNext
  <2>1. CASE Accept
    <3>1. backlog # <<>> /\ peer' = Head(backlog) /\ UNCHANGED tasks
      BY <2>1 DEF Accept
    <3>2. peer' = backlog[1] /\ 1 \in DOMAIN backlog
      BY <1>0, <3>1 DEF WireTypeOK
    <3>3. \A k \in DOMAIN tasks : About(tasks[k]) => tasks[k].conn # peer'
      BY <1>0, <3>2 DEF ConnectionsInOrder, WireTypeOK, Tasks, Connecteds, Messages, About
    <3> QED BY <3>1, <3>3 DEF AnnouncedOnce, IsConnected, About
  <2>2. CASE AnnounceConnected
    <3> DEFINE t == [kind |-> "connected", conn |-> peer]
    <3>1. QueueTask(t) /\ UNCHANGED peer /\ acceptor = "accepted"
      BY <2>2 DEF AnnounceConnected, wireVars
    <3>2. t \in Tasks
      BY <1>0 DEF WireTypeOK, Tasks, Connecteds
    <3>3. \A k \in DOMAIN tasks : ~IsConnected(tasks[k])
      BY <1>0, <3>1 DEF ConnectionsInOrder, IsConnected, About
    <3> HIDE DEF t
    <3> QED BY <1>2, <3>1, <3>2, <3>3
  <2>3. CASE ReadFrame
    <3> DEFINE t == [kind |-> "message", conn |-> peer, frame |-> Head(toClient)]
    <3>1. QueueTask(t) /\ UNCHANGED peer /\ toClient # <<>>
      BY <2>3 DEF ReadFrame
    <3>2. t \in Tasks /\ ~IsConnected(t)
      BY <1>0, <3>1 DEF WireTypeOK, Tasks, Messages, IsConnected
    <3> HIDE DEF t
    <3> QED BY <1>2, <3>1, <3>2
  <2>4. CASE PeerLost
    BY <1>0, <2>4 DEF PeerLost, AnnouncedOnce, IsConnected, ConnectionsInOrder, About
  <2>5. CASE AnnounceDisconnected
    <3> DEFINE t == [kind |-> "disconnected"]
    <3>1. QueueTask(t) /\ UNCHANGED peer /\ t \in Tasks /\ ~IsConnected(t)
      BY <2>5 DEF AnnounceDisconnected, wireVars, Tasks, IsConnected
    <3> HIDE DEF t
    <3> QED BY <1>2, <3>1
  <2> QED BY <1>4, <2>1, <2>2, <2>3, <2>4, <2>5 DEF ListenerNext, Listener
<1>5. CASE ClientNext
  BY <1>0, <1>1, <1>3, <1>4, <1>5, HealthyQueues
<1>6. CASE TrainerNext \/ UNCHANGED bridgeVars
  BY <1>1, <1>6, TrainerKeepsClient DEF bridgeVars, wireVars, clientVars
<1> QED BY <1>5, <1>6 DEF BridgeNext, ClientNext, TrainerNext

-----------------------------------------------------------------------------
(* The session *)

\* Who withdraws an announcement.
LEMMA AnnouncementLasts ==
    ASSUME NothingFails, Healthy, ClientNext, announced
    PROVE  announced' \/ (TaskNext /\ HandleDisconnected)
<1>1. CASE TaskNext
  BY <1>1 DEF TaskNext, HandleTask, HandleConnected, SessionBegins, SessionBeginsUnsent, SessionNotBegun,
              HandleStaleMessage, HandleArm, HandleAction, HandleShutdown, sessionVars
<1>2. CASE TickNext
  <2>1. KeepOutsideTick
    BY <1>2 DEF TickNext, ClientTick, TickMissesDeadline, TickWaits, TickBegins,
                TickBeginsOffline, TickHolds, TickCompletes, TickCompletesUnsent
  <2> QED BY <2>1 DEF KeepOutsideTick, sessionVars
<1>3. CASE ListenerNext
  BY <1>3 DEF ListenerNext, Listener, Accept, AnnounceConnected, ReadFrame, PeerLost,
              AnnounceDisconnected, sessionVars
<1>4. CASE JoinNext
  BY <1>4 DEF JoinNext, JoinedPaper, BeginTrainerSession, SessionBegins, SessionBeginsUnsent,
              SessionNotBegun, sessionVars
<1>5. CASE ServerNext
  BY <1>5, HealthyPacket
<1>6. ~LossNext /\ ~StopNext /\ ~DisconnectNext
  BY DEF NothingFails, LossNext, PaperLost, StopNext, ShutdownClient, DisconnectNext,
         DisconnectedPaper, Healthy, HealthyInv, PaperHolds
<1> QED BY <1>1, <1>2, <1>3, <1>4, <1>5, <1>6 DEF ClientNext

\* A session that both ends are in goes on.
LEMMA SessionStays ==
    ASSUME NothingFails, Healthy, ClientNext, InSession
    PROVE  /\ InSession' /\ announced' /\ HealthyTurns /\ Turns
           /\ \A d \in DOMAIN tasks' : tasks'[d].kind # "disconnected"
<1>0. /\ SequencerInv /\ SequencerTypeOK /\ ServerTypeOK /\ WireTypeOK /\ BridgeTypeOK /\ PeerOfAcceptor
      /\ Linked /\ announced /\ \A d \in DOMAIN tasks : tasks[d].kind # "disconnected"
  BY DEF Healthy, HealthyInv, SessionHolds, BridgeInv, BridgeTypeOK, SequencerInv, InSession
<1>1. UNCHANGED <<openConn, trainerVars>> /\ UNCHANGED <<trainer, tSession>>
  BY <1>0, ClientKeepsOpen DEF trainerVars
<1>2. Linked' /\ UNCHANGED peer /\ peer # 0
  BY <1>0, LinkStays DEF Linked
<1>3. ~HandleDisconnected
  <2>1. tasks # <<>> => Head(tasks) = tasks[1] /\ 1 \in DOMAIN tasks
    BY <1>0 DEF WireTypeOK
  <2> QED BY <1>0, <2>1 DEF HandleDisconnected, TakeTask
<1>4. HealthyTurns
  BY <1>0, <1>3, HealthyClient DEF SessionBegins
<1>5. Turns
  <2>1. DropsLate => KeepsRound
    BY DEF DropsLate, LateActionDropped, KeepsRound, armVars, counterVars, EpisodeLive, PreviousRound
  <2> QED BY <1>4, <2>1 DEF HealthyTurns, Turns, Quiet
<1>6. UNCHANGED session
  BY <1>0, <1>5, TurnFrames
<1>7. InSession'
  <2>1. At(1, Hello(session)) => At(1, Hello(session))'
    BY <1>0, <1>6, ClientKeepsFrames DEF At, Hello
  <2> QED BY <1>1, <1>2, <1>6, <2>1 DEF InSession
<1>8. announced'
  BY <1>0, <1>3, AnnouncementLasts
<1>9. \A d \in DOMAIN tasks' : tasks'[d].kind # "disconnected"
  BY <1>0, <1>2, DisconnectionsStay
<1> QED BY <1>4, <1>5, <1>7, <1>8, <1>9

\* A session that begins is announced, and no disconnection waits to end it.
LEMMA SessionBegun ==
    ASSUME NothingFails, Healthy, ClientNext, ~InSession, InSession'
    PROVE  /\ announced'
           /\ \A d \in DOMAIN tasks' : tasks'[d].kind # "disconnected"
           /\ trainer = "hello" /\ SessionBegins /\ Linked
<1>0. /\ SequencerInv /\ SequencerTypeOK /\ ServerTypeOK /\ WireTypeOK /\ BridgeTypeOK /\ PeerOfAcceptor
      /\ ConnectionsInOrder /\ DisconnectionsFirst /\ AnnouncedOnce /\ PaperHolds /\ WaitingIsSilent
      /\ NobodySends /\ BridgeInv /\ ConversationInv
  BY DEF Healthy, HealthyInv, BridgeInv, BridgeTypeOK, SequencerInv, ConversationInv
<1>1. Begins
  BY <1>0, ClientTurns, TurnsInSession DEF Conversing
<1>2. trainer = "hello" /\ At(1, Hello(session))'
  BY <1>0, <1>1, BeginsAnew
<1>3. Linked
  <2>1. toTrainer' # <<>> /\ Linked'
    BY <1>2 DEF At, InSession
  <2> QED BY <1>0, <2>1, LinkMoves
<1>4. SessionBegins /\ ~announced /\ announced'
  BY <1>1 DEF Begins, SessionBegins, SessionBeginsUnsent, WriteMayFail, NothingFails
<1>5. CASE JoinNext
  <2>1. OffPaper /\ UNCHANGED tasks
    BY <1>0, <1>5 DEF JoinNext, JoinedPaper, PaperHolds
  <2> QED BY <1>2, <1>3, <1>4, <2>1 DEF OffPaper
<1>6. CASE TaskNext /\ HandleConnected
  <2>1. tasks # <<>> /\ tasks' = Tail(tasks) /\ [kind |-> "disconnected"] \in Tasks
        /\ Head(tasks).kind = "connected" /\ tasks \in Seq(Tasks)
    BY <1>0, <1>6 DEF HandleConnected, TakeTask, WireTypeOK, Tasks
  <2>2. /\ Head(tasks) = tasks[1] /\ 1 \in DOMAIN tasks
        /\ DOMAIN tasks = 1..Len(tasks)
        /\ \A i \in DOMAIN tasks' : i + 1 \in DOMAIN tasks /\ tasks'[i] = tasks[i + 1]
    BY <2>1, AppendTail
  <2>3. CurrentTask
    BY <1>4, <1>6 DEF HandleConnected, sessionVars
  <2>4. IsConnected(tasks[1])
    BY <2>1, <2>2, <2>3 DEF CurrentTask, IsConnected
  <2>5. acceptor = "reading"
    BY <1>0, <1>3, <2>2, <2>4 DEF PeerOfAcceptor, ConnectionsInOrder, IsConnected, About, Linked
  <2>6. ASSUME NEW d \in DOMAIN tasks, tasks[d].kind = "disconnected" PROVE FALSE
    <3>1. PICK j \in DOMAIN tasks : j > d /\ IsConnected(tasks[j])
      BY <1>0, <2>5, <2>6 DEF DisconnectionsFirst, AnnouncedAfter
    <3>2. j = 1
      BY <1>0, <2>2, <2>4, <3>1 DEF AnnouncedOnce
    <3> QED BY <2>2, <2>6, <3>1, <3>2
  <2> QED BY <1>2, <1>3, <1>4, <2>2, <2>6
<1>7. announced => announced'
  BY <1>4
<1>8. ~(TaskNext /\ HandleDisconnected)
  BY <1>4 DEF HandleDisconnected
<1>9. ~HealthyTurns \/ JoinNext \/ (TaskNext /\ HandleConnected)
  <2>1. HealthyTurns => Turns
    <3>1. DropsLate => KeepsRound
      BY DEF DropsLate, LateActionDropped, KeepsRound, armVars, counterVars, EpisodeLive, PreviousRound
    <3> QED BY <3>1 DEF HealthyTurns, Turns, Quiet
  <2>2. ~Turns
    BY <1>0, TurnsInSession DEF Conversing
  <2> QED BY <2>1, <2>2
<1> QED BY <1>3, <1>5, <1>6, <1>8, <1>9, HealthyClient

\* A hello that is about to be read begins the session of both ends.
LEMMA HelloBegins ==
    ASSUME NothingFails, Healthy, ClientNext, ~InSession, trainer = "hello", toTrainer' # <<>>,
           Message'.type = "connection_hello"
    PROVE  InSession'
<1>0. /\ SequencerInv /\ SequencerTypeOK /\ ServerTypeOK /\ WireTypeOK /\ BridgeTypeOK /\ PeerOfAcceptor
      /\ SessionHolds /\ toTrainer \in Seq(ClientFrames)
  BY DEF Healthy, HealthyInv, BridgeInv, BridgeTypeOK, SequencerInv, WireTypeOK
<1>1. UNCHANGED trainer
  BY <1>0, ClientKeepsOpen DEF trainerVars
<1>2. toTrainer = <<>>
  <2>1. SUFFICES ASSUME toTrainer # <<>> PROVE FALSE
    OBVIOUS
  <2>2. 1 \in DOMAIN toTrainer /\ Message = toTrainer[1]
    BY <1>0, <2>1 DEF Message
  <2>3. 1 \in DOMAIN toTrainer' /\ toTrainer'[1] = toTrainer[1]
    BY <1>0, <2>2, ClientKeepsFrames
  <2>4. toTrainer' \in Seq(ClientFrames)
    BY <1>0, StepWireTypes DEF WireTypeOK, BridgeNext, ClientNext
  <2>5. Message' = toTrainer'[1]
    BY <2>4 DEF Message
  <2>6. Message.type = "connection_hello"
    BY <2>2, <2>3, <2>5
  <2> QED BY <1>0, <2>1, <2>6 DEF SessionHolds
<1>3. PICK fs \in Seq(ClientFrames) : Linked /\ toTrainer' = fs
  <2>1. PICK fs \in Seq(ClientFrames) : Linked /\ toTrainer' = toTrainer \o fs
    BY <1>0, <1>2, ClientAdds
  <2>2. toTrainer' = fs
    BY <1>2, <2>1
  <2> QED BY <2>1, <2>2
<1>4. 1 \in DOMAIN fs /\ Message' = fs[1] /\ fs[1].type = "connection_hello"
  BY <1>3 DEF Message
<1>5. Linked'
  BY <1>0, <1>3, LinkStays
<1>6. CASE Turns
  <2>1. PICK gs \in Seq(ClientFrames) : ClientWrites(gs) /\ \A k \in DOMAIN gs : gs[k].type # "connection_hello"
    BY <1>0, <1>2, <1>6, TurnFrames
  <2>2. gs = fs
    BY <1>2, <1>3, <2>1 DEF ClientWrites
  <2> QED BY <1>4, <2>1, <2>2
<1>7. CASE Begins
  <2>1. SessionBegins
    BY <1>7 DEF Begins, SessionBeginsUnsent, WriteMayFail, NothingFails
  <2>2. PICK s \in Sessions : s = FreshSession
    BY <2>1, FreshSessions DEF SessionBegins
  <2>3. session' = s /\ toTrainer' = toTrainer \o <<Hello(s), Ready(s)>>
    BY <1>3, <2>1, <2>2 DEF SessionBegins, StartSession, ClientWrites
  <2>4. Hello(s) \in ClientFrames /\ Ready(s) \in ClientFrames
    BY FrameTypes DEF ClientFrames, AnySession
  <2>5. toTrainer' = <<Hello(s), Ready(s)>>
    BY <1>2, <2>3, <2>4
  <2>6. 1 \in DOMAIN toTrainer' /\ toTrainer'[1] = Hello(s)
    BY <2>5
  <2>7. At(1, Hello(session))'
    BY <2>3, <2>6 DEF At, Hello
  <2> QED BY <1>1, <1>5, <2>7 DEF InSession
<1> QED BY <1>0, <1>6, <1>7, ClientTurns

\* A trainer that has read its hello is in the session of the client, which goes on.
LEMMA StepInSession ==
    ASSUME NothingFails, Healthy, [BridgeNext]_bridgeVars
    PROVE  SessionHolds'
<1>0. /\ SessionHolds /\ SequencerTypeOK /\ ServerTypeOK /\ WireTypeOK /\ BridgeTypeOK
      /\ ConnectionsInOrder /\ BridgeInv /\ ConversationInv
  BY DEF Healthy, HealthyInv, BridgeInv, BridgeTypeOK, SequencerInv
<1>1. CASE ClientNext
  <2>1. UNCHANGED trainer
    BY <1>0, <1>1, ClientKeepsOpen DEF trainerVars
  <2>2. CASE InSession
    BY <1>1, <2>2, SessionStays DEF SessionHolds
  <2>3. CASE ~InSession
    BY <1>0, <1>1, <2>1, <2>3, SessionBegun, HelloBegins DEF SessionHolds
  <2> QED BY <2>2, <2>3
<1>2. CASE TrainerNext
  <2>1. UNCHANGED <<peer, tasks, announced, session>>
    BY <1>2, TrainerKeepsClient DEF seqVars
  <2>2. InSession => announced /\ \A d \in DOMAIN tasks : tasks[d].kind # "disconnected"
    BY <1>0 DEF SessionHolds
  <2>3. CASE Dial
    <3>1. trainer' = "hello" /\ toTrainer' = <<>> /\ openConn' = dials + 1
      BY <2>3 DEF Dial
    <3>2. ~InSession'
      BY <1>0, <2>1, <3>1 DEF InSession, Linked, ConnectionsInOrder, WireTypeOK
    <3> QED BY <3>1, <3>2 DEF SessionHolds
  <2>4. CASE ClosesUnharmed
    BY <2>4 DEF ClosesUnharmed, Closes, SessionHolds, InSession, Linked
  <2>5. CASE Reads
    <3>1. UNCHANGED openConn /\ trainer \in {"hello", "ready", "arming", "stepping"} /\ toTrainer # <<>>
      BY <1>0, <2>5, ReadsFirst DEF Receiving
    <3>2. trainer' # "hello"
      BY <2>5 DEF Reads, ReceiveHello, ReceiveReady, ReceiveEpisodeReady, ReceiveInitialObservation,
                  ReceiveApplied, ReceiveNextObservation, ReceiveTerminalObservation, ReceiveResult,
                  StepReturns
    <3>3. InSession'
      <4>1. CASE ReceiveHello
        <5>1. trainer = "hello" /\ Message.type = "connection_hello" /\ tSession' = Message.session
          BY <4>1 DEF ReceiveHello, Receive
        <5>2. InSession /\ At(1, Hello(session)) /\ Message = toTrainer[1]
          BY <1>0, <2>5, <3>1, <5>1, ReadsFirst DEF SessionHolds, InSession
        <5>3. Message.session = session
          BY <5>2 DEF At, Hello
        <5> QED BY <2>1, <3>1, <3>2, <5>1, <5>2, <5>3 DEF InSession, Linked
      <4>2. CASE ~ReceiveHello
        <5>1. trainer # "hello" /\ UNCHANGED tSession
          BY <2>5, <4>2 DEF Reads, ReceiveReady, ReceiveEpisodeReady, ReceiveInitialObservation,
             ReceiveApplied, ReceiveNextObservation, ReceiveTerminalObservation, ReceiveResult, StepReturns
        <5>2. InSession
          BY <1>0, <3>1, <5>1 DEF SessionHolds
        <5> QED BY <2>1, <3>1, <3>2, <5>1, <5>2 DEF InSession, Linked
      <4> QED BY <4>1, <4>2
    <3>4. InSession
      BY <1>0, <1>2, <2>5, <3>3, HearsInSession DEF Hearing
    <3> QED BY <2>1, <2>2, <3>2, <3>3, <3>4 DEF SessionHolds
  <2>6. CASE Answer \/ \E r \in TrainerRounds, v \in TrainerPolicies : Arm(r, v)
    <3>1. /\ UNCHANGED <<openConn, tSession>> /\ trainer \in {"idle", "deciding"} /\ trainer' # "hello"
      BY <2>6 DEF Answer, Arm
    <3>2. InSession
      BY <1>0, <3>1 DEF SessionHolds
    <3> QED BY <2>1, <2>2, <3>1, <3>2 DEF SessionHolds, InSession, Linked
  <2> QED BY <1>2, <2>3, <2>4, <2>5, <2>6, HealthyTrainer
<1>3. CASE UNCHANGED bridgeVars
  BY <1>0, <1>3 DEF bridgeVars, wireVars, clientVars, sessionVars, seqVars, trainerVars, SessionHolds,
                    InSession, Linked, At, Hello, Message
<1> QED BY <1>1, <1>2, <1>3 DEF BridgeNext, ClientNext, TrainerNext

-----------------------------------------------------------------------------
(* What the script says when there is no error *)

\* In a session without errors the script is all that is on the wire.
LEMMA CleanEnds ==
    ASSUME WireTypeOK, Clean, NEW k \in Nat \ {0}, Stop(k)
    PROVE  \A j \in DOMAIN toTrainer : j < k
<1>1. DOMAIN toTrainer = 1..Len(toTrainer) /\ Len(toTrainer) \in Nat
  BY DEF WireTypeOK
<1>2. k \notin DOMAIN toTrainer
  BY DEF Clean, Stop
<1> QED BY <1>1, <1>2

\* The end of a round is where the script has it, and the round is over then.
LEMMA RoundEnds ==
    ASSUME WireTypeOK, Clean, NEW k \in Nat \ {0}, NEW n \in Nat, Stop(k) \/ Ends(k, n),
           NEW j \in DOMAIN toTrainer, TerminalObs(toTrainer[j]), j >= k
    PROVE  j = k /\ Ends(k, n) /\ toTrainer[j].obs = n /\ ~EpisodeLive /\ pendingArm = NoArm
<1>1. DOMAIN toTrainer = 1..Len(toTrainer) /\ Len(toTrainer) \in Nat
  BY DEF WireTypeOK
<1>2. ~Stop(k)
  BY <1>1, CleanEnds
<1>3. Ends(k, n)
  BY <1>2
<1>4. Between(k + 2) /\ ~EpisodeLive /\ pendingArm = NoArm
  BY <1>3 DEF Ends, Between
<1>5. j < k + 2
  BY <1>4, CleanEnds DEF Between
<1>6. j # k + 1
  BY <1>3 DEF Ends, At, Result, TerminalObs
<1>7. j = k
  BY <1>1, <1>5, <1>6
<1> QED BY <1>3, <1>4, <1>7 DEF Ends, At, Observation

\* The same behind an observation of a round that goes on.
LEMMA ObservedEnds ==
    ASSUME WireTypeOK, Clean, NEW k \in Nat \ {0}, NEW n \in Nat, Observed(k, n),
           NEW j \in DOMAIN toTrainer, TerminalObs(toTrainer[j]), j >= k
    PROVE  j = k + 1 /\ Ends(k + 1, n) /\ toTrainer[j].obs = n /\ ~EpisodeLive /\ pendingArm = NoArm
<1>1. At(k, Observation(session, armedRound, n, n, FALSE)) /\ (Stop(k + 1) \/ Ends(k + 1, n))
  BY DEF Observed, RoundGoesOn, Playing
<1>2. j # k
  BY <1>1 DEF At, Observation, TerminalObs
<1>3. j >= k + 1 /\ k + 1 \in Nat \ {0}
  BY <1>2 DEF WireTypeOK
<1> QED BY <1>1, <1>3, RoundEnds

\* An end on its way: the round is over, and the step that it ends is the one in which
\* it comes first, or the next.
LEMMA TerminalMeansEnded ==
    ASSUME Healthy, InSession, NEW j \in DOMAIN toTrainer, TerminalObs(toTrainer[j])
    PROVE  /\ ~EpisodeLive /\ pendingArm = NoArm
           /\ trainer \in {"arming", "deciding", "stepping"}
           /\ trainer = "deciding" => j = 1 /\ toTrainer[j].obs = answered.act
           /\ trainer = "stepping" => (j = 1 /\ ~applied) \/ toTrainer[j].obs = answered.act
<1>0. /\ Script /\ Clean /\ WireTypeOK /\ answered.act \in Nat /\ answered.obs \in Nat
      /\ DOMAIN toTrainer = 1..Len(toTrainer) /\ Len(toTrainer) \in Nat
  BY DEF Healthy, HealthyInv, ConversationInv, ScriptKept, HealthyLinkNeverFails, Clean, BridgeInv,
         BridgeTypeOK, WireTypeOK, TrainerTypeOK
<1>1. j >= 1 /\ j \in Nat /\ 1 \in Nat \ {0} /\ 2 \in Nat \ {0} /\ 0 \in Nat
  BY <1>0
<1>2. \A k \in Nat \ {0} : Between(k) => j < k
  BY <1>0, CleanEnds DEF Between
<1>3. ASSUME NEW f, At(1, f), ~TerminalObs(f) PROVE j >= 2
  BY <1>0, <1>3 DEF At
<1>4. trainer # "hello"
  <2>1. ASSUME trainer = "hello" PROVE FALSE
    <3>1. At(1, Hello(session)) /\ At(2, Ready(session)) /\ Between(3)
      BY <1>0, <2>1 DEF Script
    <3>2. j < 3
      BY <1>2, <3>1
    <3> QED BY <1>1, <3>1, <3>2 DEF At, Hello, Ready, TerminalObs
  <2> QED BY <2>1
<1>5. trainer # "ready"
  <2>1. ASSUME trainer = "ready" PROVE FALSE
    <3>1. At(1, Ready(session)) /\ Between(2)
      BY <1>0, <2>1 DEF Script
    <3>2. j < 2
      BY <1>2, <3>1
    <3> QED BY <1>1, <3>1, <3>2 DEF At, Ready, TerminalObs
  <2> QED BY <2>1
<1>6. trainer # "idle"
  <2>1. ASSUME trainer = "idle" PROVE FALSE
    <3>1. Between(1)
      BY <1>0, <2>1 DEF Script
    <3> QED BY <1>1, <1>2, <3>1
  <2> QED BY <2>1
<1>7. CASE trainer = "arming"
  <2>1. CASE Awaiting
    <3>1. j < 1
      BY <1>0, <1>1, <2>1, CleanEnds DEF Awaiting
    <3> QED BY <1>1, <3>1
  <2>2. CASE At(1, EpisodeReady(session, armedRound)) /\ Observed(2, 0)
    <3>1. ~TerminalObs(EpisodeReady(session, armedRound))
      BY DEF TerminalObs, EpisodeReady
    <3>2. j >= 2
      BY <1>3, <2>2, <3>1
    <3>3. ~EpisodeLive /\ pendingArm = NoArm
      BY <1>0, <1>1, <2>2, <3>2, ObservedEnds
    <3> QED BY <1>7, <3>3
  <2>3. CASE Observed(1, 0)
    BY <1>0, <1>1, <1>7, <2>3, ObservedEnds
  <2> QED BY <1>0, <1>7, <2>1, <2>2, <2>3 DEF Script
<1>8. CASE trainer = "deciding"
  <2>1. Stop(1) \/ Ends(1, answered.act)
    BY <1>0, <1>8 DEF Script, RoundGoesOn, Playing
  <2>2. j = 1 /\ toTrainer[j].obs = answered.act /\ ~EpisodeLive /\ pendingArm = NoArm
    BY <1>0, <1>1, <2>1, RoundEnds
  <2> QED BY <1>8, <2>2
<1>9. CASE trainer = "stepping"
  <2>1. CASE ~applied /\ RoundGoesOn(1, answered.obs, TRUE)
    <3>1. Stop(1) \/ Ends(1, answered.obs)
      BY <2>1 DEF RoundGoesOn, Playing
    <3>2. j = 1 /\ ~EpisodeLive /\ pendingArm = NoArm
      BY <1>0, <1>1, <3>1, RoundEnds
    <3> QED BY <1>9, <2>1, <3>2
  <2>2. CASE At(1, Applied(session, answered)) /\ Observed(2, answered.act)
    <3>1. ~TerminalObs(Applied(session, answered))
      BY DEF TerminalObs, Applied
    <3>2. j >= 2
      BY <1>3, <2>2, <3>1
    <3>3. ~EpisodeLive /\ pendingArm = NoArm /\ toTrainer[j].obs = answered.act
      BY <1>0, <1>1, <2>2, <3>2, ObservedEnds
    <3> QED BY <1>9, <3>3
  <2>3. CASE Observed(1, answered.act)
    BY <1>0, <1>1, <1>9, <2>3, ObservedEnds
  <2>4. ASSUME NEW o \in Outcomes, At(1, Result(session, armedRound, answered.obs, o)), Between(2)
        PROVE  FALSE
    <3>1. j < 2
      BY <1>2, <2>4
    <3> QED BY <1>1, <2>4, <3>1 DEF At, Result, TerminalObs
  <2> QED BY <1>0, <1>9, <2>1, <2>2, <2>3, <2>4, StepScript
<1>10. trainer \notin {"closed", "failed"}
  BY <1>0 DEF Script
<1> QED BY <1>4, <1>5, <1>6, <1>7, <1>8, <1>9, <1>10 DEF Healthy, BridgeInv, BridgeTypeOK, TrainerTypeOK

\* A round that is played is the trainer's, and an action in flight is the one that its
\* step has sent.
LEMMA ScriptLive ==
    ASSUME Healthy, InSession, EpisodeLive
    PROVE  /\ activeArm = armedRound /\ trainer \in {"arming", "deciding", "stepping"}
           /\ trainer = "arming" => ~Awaiting
           /\ phase # "WAITING_ACTION" => trainer = "stepping" /\ actSeq = answered.obs
<1>0. /\ Script /\ Clean
  BY DEF Healthy, HealthyInv, ConversationInv, ScriptKept, HealthyLinkNeverFails, Clean
<1>1. \A k, n : ~Ends(k, n)
  BY <1>0 DEF Ends, Between
<1>2. ~Awaiting /\ \A k : ~Between(k)
  BY <1>0 DEF Awaiting, Between
<1>3. \A k, n, sent : RoundGoesOn(k, n, sent) =>
        activeArm = armedRound /\ actSeq = n /\ (phase = "WAITING_ACTION" \/ sent)
  BY <1>0, <1>1 DEF RoundGoesOn, Playing
<1>4. \A k, n : Observed(k, n) => activeArm = armedRound /\ phase = "WAITING_ACTION"
  BY <1>3 DEF Observed
<1> QED BY <1>0, <1>2, <1>3, <1>4 DEF Script

\* What is on the way while a round is played is the action that it waits for, and the
\* client never has an arm that waits when something is on the way.
LEMMA OnTheWayFits ==
    ASSUME Healthy, Linked, NEW f \in TrainerFrames, OnTheWay(f)
    PROVE  /\ f.session = session /\ Fits(f) /\ InSession
           /\ trainer \in {"idle", "arming", "stepping"}
           /\ pendingArm = NoArm
           /\ EpisodeLive => /\ trainer = "stepping" /\ f = ActionFrame(session, answered) /\ Awaited
                             /\ ~Dropped(f)
<1>0. /\ Clean /\ RequestsFit /\ SessionHolds /\ SequencerInv /\ LiveExcludesPending /\ ScriptKept
      /\ TrainerFits
  BY DEF Healthy, HealthyInv, HealthyLinkNeverFails, Clean, BridgeInv, ConversationInv
<1>1. f.session = session /\ Fits(f)
  BY <1>0 DEF RequestsFit
<1>2. trainer \in {"idle", "arming", "stepping"} /\ InSession /\ Script
  BY <1>0, <1>1 DEF Fits, SessionHolds, ScriptKept
<1>3. ASSUME EpisodeLive
      PROVE  trainer = "stepping" /\ f = ActionFrame(session, answered) /\ Awaited /\ ~Dropped(f)
  <2>1. activeArm = armedRound /\ trainer # "idle"
    BY <1>2, <1>3, ScriptLive
  <2>2. trainer = "stepping" /\ f = ActionFrame(session, answered) /\ (Dropped(f) \/ Awaited)
    BY <1>1, <1>3, <2>1 DEF Fits, Untaken
  <2>3. answered.round = armedRound.round
    BY <1>0, <2>2 DEF TrainerFits
  <2>4. activeArm.round > completedArm.round /\ activeArm.round \in Nat /\ completedArm.round \in Nat
    BY <1>0, <1>3, ArmNumbers DEF SequencerInv, SequencerTypeOK, RoundsAdvance
  <2>5. f.action = answered
    BY <2>2 DEF ActionFrame
  <2>6. ~Dropped(f)
    BY <2>1, <2>3, <2>4, <2>5 DEF Dropped, LateAction, ForCompletedRound
  <2> QED BY <2>2, <2>6
<1>4. pendingArm = NoArm
  <2>1. CASE EpisodeLive
    BY <1>0, <2>1 DEF LiveExcludesPending
  <2>2. CASE ~EpisodeLive
    <3>1. CASE trainer = "idle"
      BY <1>0, <1>2, <3>1 DEF Script, Between
    <3>2. CASE trainer = "arming"
      BY <1>1, <3>2 DEF Fits, Untaken
    <3>3. CASE trainer = "stepping"
      <4>1. \A k : Between(k) => pendingArm = NoArm
        BY <1>0 DEF Between
      <4>2. \A k, n, sent : RoundGoesOn(k, n, sent) => pendingArm = NoArm
        BY <1>0, <2>2, <4>1 DEF RoundGoesOn, Playing, Ends
      <4>3. \A k, n : Observed(k, n) => pendingArm = NoArm
        BY <4>2 DEF Observed
      <4> QED BY <1>2, <3>3, <4>1, <4>2, <4>3, StepScript
    <3> QED BY <1>2, <3>1, <3>2, <3>3
  <2> QED BY <2>1, <2>2
<1> QED BY <1>1, <1>2, <1>3, <1>4

-----------------------------------------------------------------------------
(* No error is written, and no run fails *)

\* The frames that a handler of the client adds.
LEMMA TwoFrames ==
    ASSUME WireTypeOK, NEW e \in ClientFrames, NEW g \in ClientFrames, ClientWrites(<<e, g>>)
    PROVE  \A i \in DOMAIN toTrainer' :
                \/ i \in DOMAIN toTrainer /\ toTrainer'[i] = toTrainer[i]
                \/ toTrainer'[i] \in {e, g}
<1>1. CASE Linked
  <2>1. PICK fs \in Seq(ClientFrames) : fs = <<e, g>>
    BY PairsAreSequences
  <2>2. toTrainer' = toTrainer \o fs /\ toTrainer \in Seq(ClientFrames)
    BY <1>1, <2>1 DEF ClientWrites, WireTypeOK
  <2>3. /\ \A i \in DOMAIN toTrainer : toTrainer'[i] = toTrainer[i]
        /\ \A i \in DOMAIN toTrainer' :
             i \in DOMAIN toTrainer
                \/ (i - Len(toTrainer) \in DOMAIN fs /\ toTrainer'[i] = fs[i - Len(toTrainer)])
    BY <2>2, Concatenated
  <2>4. \A k \in DOMAIN fs : fs[k] \in {e, g}
    BY <2>1
  <2> QED BY <2>3, <2>4
<1>2. CASE ~Linked
  BY <1>2 DEF ClientWrites
<1> QED BY <1>1, <1>2

\* No error among them, and an end only when the round ends.
LEMMA HealthyFrames ==
    ASSUME Healthy, HealthyTurns
    PROVE  \A i \in DOMAIN toTrainer' :
                \/ i \in DOMAIN toTrainer /\ toTrainer'[i] = toTrainer[i]
                \/ /\ toTrainer'[i].type # "error"
                   /\ TerminalObs(toTrainer'[i]) => Finishes /\ toTrainer'[i].obs = obsSeq
<1>0. /\ SequencerTypeOK /\ WireTypeOK /\ session \in AnySession
      /\ pendingArm \in Arms \cup {NoArm} /\ activeArm \in Arms \cup {NoArm}
      /\ obsSeq \in Nat /\ actSeq \in Nat /\ actSeq + 1 \in Nat /\ 0 \in Nat
      /\ runningAction \in Actions \cup {NoAction}
  BY DEF Healthy, BridgeInv, BridgeTypeOK, SequencerInv, SequencerTypeOK, AnySession
<1>1. CASE UNCHANGED toTrainer
  BY <1>1
<1>2. ASSUME NEW e \in ClientFrames, NEW g \in ClientFrames, ClientWrites(<<e, g>>),
             e.type # "error", g.type # "error", ~TerminalObs(e), ~TerminalObs(g)
      PROVE  \A i \in DOMAIN toTrainer' :
                \/ i \in DOMAIN toTrainer /\ toTrainer'[i] = toTrainer[i]
                \/ toTrainer'[i].type # "error" /\ ~TerminalObs(toTrainer'[i])
  <2> HIDE DEF TerminalObs
  <2>1. \A i \in DOMAIN toTrainer' :
            (i \in DOMAIN toTrainer /\ toTrainer'[i] = toTrainer[i]) \/ toTrainer'[i] \in {e, g}
    BY <1>0, <1>2, TwoFrames
  <2> QED BY <1>2, <2>1
<1>3. CASE Starts
  <2> DEFINE e == EpisodeReady(session, pendingArm)
             g == Observation(session, pendingArm, 0, 0, FALSE)
  <2>1. e \in ClientFrames /\ g \in ClientFrames
    BY <1>0, FrameTypes DEF ClientFrames
  <2>2. e.type # "error" /\ g.type # "error" /\ ~TerminalObs(e) /\ ~TerminalObs(g)
    BY DEF EpisodeReady, Observation, TerminalObs
  <2>3. ClientWrites(<<e, g>>)
    BY <1>3 DEF Starts
  <2> HIDE DEF e, g
  <2> QED BY <1>2, <2>1, <2>2, <2>3
<1>4. CASE Completes
  <2> DEFINE e == Applied(session, runningAction)
             g == Observation(session, activeArm, actSeq + 1, actSeq + 1, FALSE)
  <2>1. e \in ClientFrames /\ g \in ClientFrames
    BY <1>0, FrameTypes DEF ClientFrames
  <2>2. e.type # "error" /\ g.type # "error" /\ ~TerminalObs(e) /\ ~TerminalObs(g)
    BY DEF Applied, Observation, TerminalObs
  <2>3. ClientWrites(<<e, g>>)
    BY <1>4 DEF Completes, HeldFrames
  <2> HIDE DEF e, g
  <2> QED BY <1>2, <2>1, <2>2, <2>3
<1>5. CASE Finishes
  <2>1. PICK p \in Packets : Ending(p) \in Outcomes /\ ClientWrites(EndFrames(p))
    BY <1>5 DEF Finishes
  <2> DEFINE e == Observation(session, activeArm, obsSeq, actSeq, TRUE)
             g == Result(session, activeArm, obsSeq, Ending(p))
  <2>2. e \in ClientFrames /\ g \in ClientFrames
    BY <1>0, <2>1, FrameTypes DEF ClientFrames
  <2>3. e.type # "error" /\ g.type # "error" /\ e.obs = obsSeq /\ g.obs = obsSeq
    BY DEF Observation, Result
  <2>4. ClientWrites(<<e, g>>)
    BY <2>1 DEF EndFrames
  <2> HIDE DEF e, g
  <2>5. \A i \in DOMAIN toTrainer' :
            (i \in DOMAIN toTrainer /\ toTrainer'[i] = toTrainer[i]) \/ toTrainer'[i] \in {e, g}
    BY <1>0, <2>2, <2>4, TwoFrames
  <2> QED BY <1>5, <2>3, <2>5
<1> QED BY <1>1, <1>3, <1>4, <1>5 DEF HealthyTurns, Quiet, KeepsRound, DropsLate, TakesArm, TakesAction

\* Nobody reports an error, and no run fails.
LEMMA StepClean ==
    ASSUME NothingFails, Healthy, [BridgeNext]_bridgeVars
    PROVE  HealthyLinkNeverFails'
<1>0. /\ HealthyLinkNeverFails /\ SequencerTypeOK /\ ServerTypeOK /\ WireTypeOK /\ BridgeTypeOK
  BY DEF Healthy, HealthyInv, BridgeInv, BridgeTypeOK, SequencerInv
<1>1. CASE ClientNext
  <2>1. UNCHANGED trainer
    BY <1>0, <1>1, ClientKeepsOpen DEF trainerVars
  <2>2. CASE UNCHANGED toTrainer
    BY <1>0, <2>1, <2>2 DEF HealthyLinkNeverFails
  <2>3. CASE HealthyTurns
    BY <1>0, <2>1, <2>3, HealthyFrames DEF HealthyLinkNeverFails
  <2>4. CASE SessionBegins
    <3>1. PICK s \in Sessions : s = FreshSession
      BY <2>4, FreshSessions DEF SessionBegins
    <3>2. ClientWrites(<<Hello(s), Ready(s)>>)
      BY <2>4, <3>1 DEF SessionBegins
    <3>3. Hello(s) \in ClientFrames /\ Ready(s) \in ClientFrames
      BY FrameTypes DEF ClientFrames, AnySession
    <3>4. Hello(s).type # "error" /\ Ready(s).type # "error"
      BY DEF Hello, Ready
    <3> QED BY <1>0, <2>1, <3>2, <3>3, <3>4, TwoFrames DEF HealthyLinkNeverFails
  <2>5. HandleDisconnected => UNCHANGED toTrainer
    BY DEF HandleDisconnected
  <2>6. ~Linked => UNCHANGED toTrainer
    BY <1>0, <1>1, ClientAdds
  <2> QED BY <1>1, <2>2, <2>3, <2>4, <2>5, <2>6, HealthyClient
<1>2. CASE TrainerNext
  <2>1. CASE Dial
    BY <2>1 DEF Dial, HealthyLinkNeverFails
  <2>2. CASE ClosesUnharmed
    BY <2>2 DEF ClosesUnharmed, Closes, HealthyLinkNeverFails
  <2>3. CASE Reads
    <3>1. \A i \in DOMAIN toTrainer' : i + 1 \in DOMAIN toTrainer /\ toTrainer'[i] = toTrainer[i + 1]
      BY <1>0, <2>3, ReadsFirst
    <3>2. trainer' # "failed"
      BY <1>0, <2>3 DEF Reads, ReceiveHello, ReceiveReady, ReceiveEpisodeReady,
         ReceiveInitialObservation, ReceiveApplied, ReceiveNextObservation,
         ReceiveTerminalObservation, ReceiveResult, StepReturns, HealthyLinkNeverFails
    <3> QED BY <1>0, <3>1, <3>2 DEF HealthyLinkNeverFails
  <2>4. CASE Answer \/ \E r \in TrainerRounds, v \in TrainerPolicies : Arm(r, v)
    BY <1>0, <2>4 DEF Answer, Arm, HealthyLinkNeverFails
  <2> QED BY <1>2, <2>1, <2>2, <2>3, <2>4, HealthyTrainer
<1>3. CASE UNCHANGED bridgeVars
  BY <1>0, <1>3 DEF bridgeVars, wireVars, trainerVars, HealthyLinkNeverFails
<1> QED BY <1>1, <1>2, <1>3 DEF BridgeNext, ClientNext, TrainerNext

-----------------------------------------------------------------------------
(* The order of requests *)

\* What is on the way behind the message that the client handles may follow it.
LEMMA HandledFirst ==
    ASSUME Healthy, Linked, TakeTask("message"), CurrentTask, NEW f, OnTheWay(f)'
    PROVE  Before(Head(tasks).frame, f)
<1>0. /\ tasks \in Seq(Tasks) /\ [kind |-> "disconnected"] \in Tasks /\ RequestsInOrder
  BY DEF Healthy, HealthyInv, BridgeInv, BridgeTypeOK, WireTypeOK, Tasks
<1>1. /\ tasks # <<>> /\ tasks' = Tail(tasks) /\ UNCHANGED <<peer, toClient>>
      /\ Head(tasks).kind = "message" /\ Head(tasks).conn = peer
  BY DEF TakeTask, CurrentTask
<1>2. /\ Head(tasks) = tasks[1] /\ 1 \in DOMAIN tasks /\ IsMessage(tasks[1])
      /\ \A k \in DOMAIN tasks' : k + 1 \in DOMAIN tasks /\ k + 1 > 1 /\ tasks'[k] = tasks[k + 1]
  BY <1>0, <1>1, AppendTail DEF IsMessage
<1>3. CASE \E i \in DOMAIN toClient : toClient[i] = f
  BY <1>0, <1>2, <1>3 DEF RequestsInOrder
<1>4. CASE \E k \in DOMAIN tasks' : tasks'[k].kind = "message" /\ tasks'[k].conn = peer /\ tasks'[k].frame = f
  <2>1. PICK k \in DOMAIN tasks' : IsMessage(tasks'[k]) /\ tasks'[k].frame = f
    BY <1>4 DEF IsMessage
  <2>2. k + 1 \in DOMAIN tasks /\ 1 < k + 1 /\ IsMessage(tasks[k + 1]) /\ tasks[k + 1].frame = f
    BY <1>2, <2>1
  <2> QED BY <1>0, <1>2, <2>2 DEF RequestsInOrder
<1> QED BY <1>1, <1>3, <1>4 DEF OnTheWay, IsMessage

\* The listener and the tasks keep the order.
LEMMA ClientKeepsOrder ==
    ASSUME NothingFails, Healthy, ClientNext, Linked
    PROVE  RequestsInOrder'
<1>0. /\ tasks \in Seq(Tasks) /\ toClient \in Seq(TrainerFrames) /\ [kind |-> "disconnected"] \in Tasks
      /\ RequestsInOrder /\ SequencerTypeOK /\ ServerTypeOK /\ PeerOfAcceptor /\ WireTypeOK
  BY DEF Healthy, HealthyInv, BridgeInv, BridgeTypeOK, WireTypeOK, Tasks, SequencerInv
<1>1. UNCHANGED peer /\ peer # 0 /\ peer = openConn
  BY <1>0, LinkStays DEF Linked
<1>2. CASE UNCHANGED <<tasks, toClient>>
  BY <1>0, <1>1, <1>2 DEF RequestsInOrder, IsMessage
<1>3. CASE TaskTaken /\ UNCHANGED toClient
  <2>1. tasks # <<>> /\ tasks' = Tail(tasks)
    BY <1>3 DEF TaskTaken
  <2>2. \A k \in DOMAIN tasks' : k \in Nat /\ k + 1 \in DOMAIN tasks /\ tasks'[k] = tasks[k + 1]
    BY <1>0, <2>1, AppendTail
  <2>3. ASSUME NEW k \in DOMAIN tasks', IsMessage(tasks'[k])
        PROVE  /\ \A l \in DOMAIN tasks' : k < l /\ IsMessage(tasks'[l]) =>
                    Before(tasks'[k].frame, tasks'[l].frame)
               /\ \A i \in DOMAIN toClient : Before(tasks'[k].frame, toClient[i])
    <3>1. k + 1 \in DOMAIN tasks /\ IsMessage(tasks[k + 1]) /\ tasks'[k] = tasks[k + 1]
      BY <2>2, <2>3
    <3>2. ASSUME NEW l \in DOMAIN tasks', k < l, IsMessage(tasks'[l])
          PROVE  Before(tasks'[k].frame, tasks'[l].frame)
      <4>1. l + 1 \in DOMAIN tasks /\ IsMessage(tasks[l + 1]) /\ tasks'[l] = tasks[l + 1] /\ k + 1 < l + 1
        BY <2>2, <2>3, <3>2
      <4> QED BY <1>0, <3>1, <4>1 DEF RequestsInOrder
    <3> QED BY <1>0, <3>1, <3>2 DEF RequestsInOrder
  <2> QED BY <1>0, <1>1, <1>3, <2>3 DEF RequestsInOrder, IsMessage
<1>4. CASE ListenerNext
  <2>1. ~Accept /\ ~PeerLost /\ ~AnnounceDisconnected
    BY <1>0, <1>1 DEF Accept, PeerLost, AnnounceDisconnected, PeerOfAcceptor
  <2>2. ASSUME NEW t \in Tasks, QueueTask(t), UNCHANGED toClient, ~IsMessage(t)
        PROVE  RequestsInOrder'
    <3>1. /\ \A k \in DOMAIN tasks' : (k \in DOMAIN tasks /\ tasks'[k] = tasks[k]) \/ tasks'[k] = t
      BY <1>0, <2>2, AppendTail DEF QueueTask
    <3>2. \A k \in DOMAIN tasks' : IsMessage(tasks'[k]) => k \in DOMAIN tasks /\ tasks'[k] = tasks[k]
      BY <2>2, <3>1
    <3> QED BY <1>0, <1>1, <2>2, <3>2 DEF RequestsInOrder, IsMessage
  <2>3. CASE AnnounceConnected
    <3> DEFINE t == [kind |-> "connected", conn |-> peer]
    <3>1. QueueTask(t) /\ UNCHANGED toClient /\ t \in Tasks /\ ~IsMessage(t)
      BY <1>0, <2>3 DEF AnnounceConnected, wireVars, WireTypeOK, Tasks, Connecteds, IsMessage
    <3> HIDE DEF t
    <3> QED BY <2>2, <3>1
  <2>4. CASE ReadFrame
    <3> DEFINE t == [kind |-> "message", conn |-> peer, frame |-> Head(toClient)]
    <3>1. QueueTask(t) /\ toClient # <<>> /\ toClient' = Tail(toClient) /\ t.frame = Head(toClient)
      BY <2>4 DEF ReadFrame
    <3>2. Head(toClient) \in TrainerFrames /\ t \in Tasks
      BY <1>0, <3>1 DEF WireTypeOK, Tasks, Messages
    <3> HIDE DEF t
    <3>3. /\ t.frame = toClient[1] /\ 1 \in DOMAIN toClient
          /\ \A i \in DOMAIN toClient' : i + 1 \in DOMAIN toClient /\ 1 < i + 1 /\ toClient'[i] = toClient[i + 1]
      BY <1>0, <3>1, <3>2, AppendTail
    <3>4. /\ DOMAIN tasks' = 1..(Len(tasks) + 1) /\ DOMAIN tasks = 1..Len(tasks) /\ Len(tasks) \in Nat
          /\ \A k \in DOMAIN tasks : tasks'[k] = tasks[k]
          /\ tasks'[Len(tasks) + 1] = t
      BY <1>0, <3>1, <3>2, AppendTail DEF QueueTask
    <3>5. \A i, j \in DOMAIN toClient' : i < j => Before(toClient'[i], toClient'[j])
      <4>1. ASSUME NEW i \in DOMAIN toClient', NEW j \in DOMAIN toClient', i < j
            PROVE  Before(toClient'[i], toClient'[j])
        <5>1. i \in Nat /\ j \in Nat
          BY <1>0, <3>1, <3>2, <4>1, AppendTail
        <5>2. i + 1 < j + 1 /\ i + 1 \in DOMAIN toClient /\ j + 1 \in DOMAIN toClient
          BY <3>3, <4>1, <5>1
        <5>3. Before(toClient[i + 1], toClient[j + 1])
          BY <1>0, <5>2 DEF RequestsInOrder
        <5> QED BY <3>3, <4>1, <5>3
      <4> QED BY <4>1
    <3>6. ASSUME NEW k \in DOMAIN tasks', IsMessage(tasks'[k])
          PROVE  /\ \A l \in DOMAIN tasks' : k < l /\ IsMessage(tasks'[l]) =>
                      Before(tasks'[k].frame, tasks'[l].frame)
                 /\ \A i \in DOMAIN toClient' : Before(tasks'[k].frame, toClient'[i])
      <4>1. CASE k \in DOMAIN tasks
        <5>1. tasks'[k] = tasks[k] /\ IsMessage(tasks[k])
          BY <3>4, <3>6, <4>1
        <5>2. Before(tasks[k].frame, t.frame) /\ \A i \in DOMAIN toClient' : Before(tasks[k].frame, toClient'[i])
          BY <1>0, <3>3, <4>1, <5>1 DEF RequestsInOrder
        <5>3. ASSUME NEW l \in DOMAIN tasks', k < l, IsMessage(tasks'[l])
              PROVE  Before(tasks'[k].frame, tasks'[l].frame)
          <6>1. CASE l \in DOMAIN tasks
            BY <1>0, <3>4, <4>1, <5>1, <5>3, <6>1 DEF RequestsInOrder
          <6>2. CASE l \notin DOMAIN tasks
            <7>1. l = Len(tasks) + 1
              BY <3>4, <5>3, <6>2
            <7> QED BY <3>4, <5>1, <5>2, <7>1
          <6> QED BY <6>1, <6>2
        <5> QED BY <5>1, <5>2, <5>3
      <4>2. CASE k \notin DOMAIN tasks
        <5>1. k = Len(tasks) + 1 /\ \A l \in DOMAIN tasks' : ~(k < l)
          BY <3>4, <3>6, <4>2
        <5>2. \A i \in DOMAIN toClient' : Before(t.frame, toClient'[i])
          BY <1>0, <3>3 DEF RequestsInOrder
        <5> QED BY <3>4, <5>1, <5>2
      <4> QED BY <4>1, <4>2
    <3> QED BY <1>1, <3>5, <3>6 DEF RequestsInOrder, IsMessage
  <2> QED BY <1>4, <2>1, <2>3, <2>4 DEF ListenerNext, Listener
<1> QED BY <1>0, <1>2, <1>3, <1>4, HealthyQueues

\* The order in which requests follow each other.
LEMMA StepOrderOfRequests ==
    ASSUME NothingFails, Healthy, [BridgeNext]_bridgeVars
    PROVE  RequestsInOrder'
<1>0. /\ SequencerTypeOK /\ ServerTypeOK /\ WireTypeOK /\ BridgeTypeOK /\ PeerOfAcceptor /\ ConnectionsInOrder
      /\ WaitingIsSilent /\ NobodySends /\ RequestsInOrder /\ TrainerTypeOK
      /\ toClient \in Seq(TrainerFrames) /\ tasks \in Seq(Tasks)
  BY DEF Healthy, HealthyInv, BridgeInv, BridgeTypeOK, SequencerInv, ConversationInv, WireTypeOK
<1> SUFFICES ASSUME Linked' PROVE RequestsInOrder'
  BY DEF RequestsInOrder
<1>1. CASE ClientNext /\ Linked
  BY <1>1, ClientKeepsOrder
<1>2. CASE ClientNext /\ ~Linked
  <2>1. \A f : ~OnTheWay(f)'
    BY <1>0, <1>2, LinkMoves
  <2>2. \A i \in DOMAIN toClient' : FALSE
    BY <2>1 DEF OnTheWay
  <2>3. \A k \in DOMAIN tasks' : ~(tasks'[k].kind = "message" /\ tasks'[k].conn = peer')
    BY <2>1 DEF OnTheWay, IsMessage
  <2> QED BY <2>2, <2>3 DEF RequestsInOrder, IsMessage
<1>3. ASSUME UNCHANGED <<tasks, peer, openConn>>, NEW g \in TrainerFrames, TrainerWrites(g),
             \A f \in TrainerFrames : OnTheWay(f) => Before(f, g)
      PROVE  RequestsInOrder'
  <2>1. Linked /\ toClient' = Append(toClient, g)
    BY <1>3 DEF TrainerWrites, Linked
  <2>2. /\ DOMAIN toClient' = 1..(Len(toClient) + 1) /\ DOMAIN toClient = 1..Len(toClient)
        /\ Len(toClient) \in Nat
        /\ \A i \in DOMAIN toClient : toClient'[i] = toClient[i]
        /\ toClient'[Len(toClient) + 1] = g
    BY <1>0, <1>3, <2>1, AppendTail
  <2>3. \A i \in DOMAIN toClient : Before(toClient[i], g)
    BY <1>0, <1>3 DEF OnTheWay
  <2>4. ASSUME NEW k \in DOMAIN tasks, IsMessage(tasks[k])
        PROVE  /\ \A l \in DOMAIN tasks : k < l /\ IsMessage(tasks[l]) => Before(tasks[k].frame, tasks[l].frame)
               /\ \A i \in DOMAIN toClient' : Before(tasks[k].frame, toClient'[i])
    <3>1. Before(tasks[k].frame, g)
      <4>1. tasks[k] \in Tasks /\ tasks[k].kind = "message"
        BY <1>0, <2>4 DEF IsMessage
      <4>2. tasks[k].frame \in TrainerFrames
        BY <4>1 DEF Tasks, Connecteds, Messages
      <4> QED BY <1>3, <2>4, <4>2 DEF OnTheWay
    <3>2. \A i \in DOMAIN toClient : Before(tasks[k].frame, toClient[i])
      BY <1>0, <2>1, <2>4 DEF RequestsInOrder
    <3>3. \A i \in DOMAIN toClient' : i \in DOMAIN toClient \/ toClient'[i] = g
      BY <2>2
    <3> QED BY <1>0, <2>1, <2>2, <2>4, <3>1, <3>2, <3>3 DEF RequestsInOrder
  <2>5. \A i, j \in DOMAIN toClient' : i < j => Before(toClient'[i], toClient'[j])
    <3>1. ASSUME NEW i \in DOMAIN toClient', NEW j \in DOMAIN toClient', i < j
          PROVE  Before(toClient'[i], toClient'[j])
      <4>1. i \in DOMAIN toClient /\ (j \in DOMAIN toClient \/ j = Len(toClient) + 1)
        BY <2>2, <3>1
      <4> QED BY <1>0, <2>1, <2>2, <2>3, <3>1, <4>1 DEF RequestsInOrder
    <3> QED BY <3>1
  <2> QED BY <1>3, <2>4, <2>5 DEF RequestsInOrder, IsMessage
<1>4. CASE TrainerNext
  <2>1. UNCHANGED <<peer, tasks>>
    BY <1>4, TrainerKeepsClient
  <2>2. ~Dial
    BY <1>0, <2>1 DEF Dial, Linked, ConnectionsInOrder, WireTypeOK
  <2>3. ~ClosesUnharmed
    BY DEF ClosesUnharmed, Closes, Linked
  <2>4. CASE Reads
    <3>1. UNCHANGED <<openConn, toClient>>
      BY <1>0, <2>4, ReadsFirst
    <3> QED BY <1>0, <2>1, <3>1 DEF RequestsInOrder, IsMessage, Linked
  <2>5. ASSUME NEW r \in TrainerRounds, NEW v \in TrainerPolicies, Arm(r, v)
        PROVE  RequestsInOrder'
    <3> DEFINE g == ArmFrame(tSession, [request |-> 1, round |-> r, policy |-> v])
    <3>1. trainer = "idle" /\ UNCHANGED openConn /\ TrainerWrites(g)
      BY <2>5 DEF Arm
    <3>2. g \in TrainerFrames /\ g.type = "arm_episode"
      BY <1>0, <3>1, RequestTypes DEF ArmFrame
    <3> HIDE DEF g
    <3>3. \A f \in TrainerFrames : OnTheWay(f) => Before(f, g)
      <4>1. Linked
        BY <2>1, <3>1 DEF Linked
      <4>2. \A f \in TrainerFrames : OnTheWay(f) => Fits(f)
        BY <4>1, OnTheWayFits
      <4> QED BY <3>1, <3>2, <4>2 DEF Fits, Dropped, Before
    <3> QED BY <1>3, <2>1, <3>1, <3>2, <3>3
  <2>6. CASE Answer
    <3>1. trainer = "deciding" /\ UNCHANGED openConn /\ TrainerWrites(ActionFrame(tSession, answered'))
      BY <2>6 DEF Answer
    <3>2. ActionFrame(tSession, answered') \in TrainerFrames
      BY <1>0, <2>6, RequestTypes
    <3>3. Linked
      BY <2>1, <3>1 DEF Linked
    <3>4. \A f \in TrainerFrames : ~OnTheWay(f)
      BY <3>1, <3>3, OnTheWayFits
    <3> QED BY <1>3, <2>1, <3>1, <3>2, <3>4
  <2> QED BY <1>4, <2>2, <2>3, <2>4, <2>5, <2>6, HealthyTrainer
<1>5. CASE UNCHANGED bridgeVars
  BY <1>0, <1>5 DEF bridgeVars, wireVars, clientVars, RequestsInOrder, IsMessage, Linked
<1> QED BY <1>1, <1>2, <1>4, <1>5 DEF BridgeNext, ClientNext, TrainerNext

-----------------------------------------------------------------------------
(* Requests that fit *)

\* What remains on the way to a linked client still fits after its step.
LEMMA ClientKeepsFits ==
    ASSUME NothingFails, Healthy, ClientNext, Linked, NEW f \in TrainerFrames, OnTheWay(f)'
    PROVE  f.session = session' /\ Fits(f)'
<1>0. /\ SequencerInv /\ SequencerTypeOK /\ ServerTypeOK /\ WireTypeOK /\ PeerOfAcceptor
      /\ LiveExcludesPending
  BY DEF Healthy, BridgeInv, BridgeTypeOK, SequencerInv
<1>1. UNCHANGED trainerVars /\ UNCHANGED <<trainer, armedRound, answered, readySeen>>
  BY <1>0, ClientKeepsOpen DEF trainerVars
<1>2. OnTheWay(f)
  BY <1>0, LinkStays, OnTheWayShrinks
<1>3. /\ f.session = session /\ Fits(f) /\ InSession /\ trainer \in {"idle", "arming", "stepping"}
      /\ pendingArm = NoArm
      /\ EpisodeLive => /\ trainer = "stepping" /\ f = ActionFrame(session, answered) /\ Awaited
                        /\ ~Dropped(f)
  BY <1>2, OnTheWayFits
<1>4. HealthyTurns /\ UNCHANGED session
  BY <1>0, <1>3, SessionStays, TurnFrames
<1>5. ArmFrame(session, armedRound)' = ArmFrame(session, armedRound)
      /\ ActionFrame(session, answered)' = ActionFrame(session, answered)
  BY <1>1, <1>4 DEF ArmFrame, ActionFrame
<1>6. CASE Quiet
  <2>1. UNCHANGED <<pendingArm, completedArm, toTrainer, completedObs, completedAct, raceConsumed>>
        /\ (EpisodeLive' <=> EpisodeLive)
    BY <1>6 DEF Quiet, KeepsRound
  <2>2. Dropped(f) => Dropped(f)'
    BY <2>1 DEF Dropped, LateAction, ForCompletedRound
  <2>3. Untaken => Untaken'
    BY <1>1, <2>1 DEF Untaken
  <2>4. Awaited => Awaited'
    BY <1>1, <1>6 DEF Awaited, Quiet, KeepsRound
  <2> QED BY <1>1, <1>3, <1>4, <1>5, <2>2, <2>3, <2>4 DEF Fits
<1>7. CASE DropsLate
  <2>1. TakeTask("message") /\ CurrentTask /\ Head(tasks).frame.type = "action_request"
    BY <1>7 DEF DropsLate, HandleAction
  <2>2. f.type = "arm_episode"
    BY <2>1, HandledFirst DEF Before
  <2>3. UNCHANGED <<pendingArm, activeArm, terminalReported, toTrainer>>
    BY <1>7 DEF DropsLate, LateActionDropped, armVars
  <2>4. Untaken => Untaken'
    BY <1>1, <2>3 DEF Untaken, EpisodeLive
  <2> QED BY <1>1, <1>3, <1>4, <1>5, <2>2, <2>4 DEF Fits, Dropped, ActionFrame
<1>8. ~TakesArm
  <2>1. TakesArm => TakeTask("message") /\ CurrentTask /\ Head(tasks).frame.type = "arm_episode"
    BY DEF TakesArm, HandleArm
  <2> QED BY <2>1, HandledFirst DEF Before
<1>9. ~TakesAction
  <2>1. ASSUME TakesAction PROVE FALSE
    <3>1. TakeTask("message") /\ CurrentTask /\ Head(tasks).frame.type = "action_request"
      BY <2>1 DEF TakesAction, HandleAction
    <3>2. f.type = "arm_episode"
      BY <3>1, HandledFirst DEF Before
    <3>3. EpisodeLive
      BY <1>0, <2>1 DEF TakesAction, ActionQueued, ExpectedAction, SequencerInv, PhaseFollowsEpisode
    <3> QED BY <1>3, <3>2, <3>3 DEF ActionFrame
  <2> QED BY <2>1
<1>10. ~Starts
  BY <1>3 DEF Starts, EpisodeStarted, CountdownFollowed
<1>11. ~Completes
  BY <1>0, <1>3 DEF Completes, CompleteAction, SequencerInv, PhaseFollowsEpisode, Awaited
<1>12. CASE Finishes
  <2>1. PICK p \in Packets : PlayerEliminated(p) \/ RoundCompleted(p)
    BY <1>12 DEF Finishes
  <2>2. EpisodeLive /\ MarkTerminal
    BY <2>1 DEF PlayerEliminated, RoundCompleted
  <2>3. /\ trainer = "stepping" /\ f = ActionFrame(session, answered) /\ activeArm = armedRound
        /\ phase = "WAITING_ACTION" /\ actSeq = answered.obs /\ activeArm # NoArm
    BY <1>3, <2>2 DEF Awaited, EpisodeLive
  <2>4. ~ActionInFlight /\ obsSeq = actSeq
    BY <1>0, <2>3 DEF SequencerInv, KeptActionIsCurrent, ActionInFlight, ObservationsCountActions
  <2>5. /\ completedArm' = armedRound /\ completedObs' = answered.obs /\ completedAct' = answered.obs
        /\ raceConsumed' = FALSE /\ completedArm' # NoArm
    BY <2>2, <2>3, <2>4 DEF MarkTerminal, RememberEpisode
  <2>6. /\ answered.round = armedRound.round /\ answered.policy = armedRound.policy
        /\ answered.act = answered.obs + 1
    BY <2>3 DEF Healthy, ConversationInv, TrainerFits
  <2>7. LateAction(answered)'
    BY <1>1, <2>5, <2>6 DEF LateAction, ForCompletedRound
  <2>8. f.type = "action_request" /\ f.action = answered
    BY <2>3 DEF ActionFrame
  <2>9. Dropped(f)'
    BY <1>1, <2>7, <2>8 DEF Dropped
  <2> QED BY <1>1, <1>3, <1>4, <1>5, <2>3, <2>9 DEF Fits
<1> QED BY <1>4, <1>6, <1>7, <1>8, <1>9, <1>10, <1>11, <1>12 DEF HealthyTurns

\* What a step that is told of the end has sent is dropped, and the step goes on or ends
\* with that end.
LEMMA ReadsOfTheEnd ==
    ASSUME NothingFails, Healthy, Reads, Linked, NEW f \in TrainerFrames, OnTheWay(f)
    PROVE  /\ Dropped(f) /\ trainer = "stepping" /\ f = ActionFrame(session, answered)
           /\ trainer' \in {"idle", "stepping"} /\ UNCHANGED answered
<1>0. /\ Clean /\ WireTypeOK /\ BridgeTypeOK /\ TrainerFits /\ SequencerInv /\ EndsRemembered
      /\ answered.act \in Nat /\ answered.obs \in Nat
      /\ DOMAIN toTrainer = 1..Len(toTrainer) /\ Len(toTrainer) \in Nat
  BY DEF Healthy, HealthyInv, HealthyLinkNeverFails, Clean, BridgeInv, BridgeTypeOK, WireTypeOK,
         ConversationInv, TrainerTypeOK
<1>1. /\ Fits(f) /\ InSession
      /\ EpisodeLive => /\ Awaited /\ ~Dropped(f)
  BY OnTheWayFits
<1>2. 1 \in DOMAIN toTrainer /\ Message = toTrainer[1] /\ Receiving /\ ~Stop(1)
  BY <1>0, ReadsFirst DEF Stop, Clean
<1>3. trainer = "stepping" /\ f = ActionFrame(session, answered) /\ (Dropped(f) \/ Awaited) /\ Script
  BY <1>1, <1>2 DEF Fits, Untaken, Receiving, Healthy, ConversationInv, ScriptKept
<1>4. answered.act = answered.obs + 1 /\ f.action = answered
  BY <1>0, <1>3 DEF TrainerFits, ActionFrame
<1>5. ~EpisodeLive => Dropped(f)
  BY <1>3 DEF Awaited
<1>6. ASSUME NEW k \in Nat \ {0}, Observed(k, answered.act)
      PROVE  FALSE
  <2>1. RoundGoesOn(k + 1, answered.act, FALSE)
    BY <1>6 DEF Observed
  <2>2. CASE Playing(k + 1, answered.act, FALSE)
    <3>1. EpisodeLive /\ actSeq = answered.act
      BY <1>0, <2>2 DEF Playing
    <3> QED BY <1>0, <1>1, <1>4, <3>1 DEF Awaited
  <2>3. CASE Ends(k + 1, answered.act)
    <3>1. /\ k + 1 \in DOMAIN toTrainer /\ TerminalObs(toTrainer[k + 1])
          /\ toTrainer[k + 1].obs = answered.act /\ ~EpisodeLive
      BY <1>0, <2>3 DEF Ends, Between, At, Observation, TerminalObs
    <3>2. completedObs = answered.act
      BY <1>0, <1>1, <3>1 DEF EndsRemembered
    <3>3. answered.obs = completedObs
      BY <1>4, <1>5, <3>1 DEF Dropped, LateAction
    <3> QED BY <1>0, <1>4, <3>2, <3>3
  <2> QED BY <2>1, <2>2, <2>3 DEF RoundGoesOn
<1>7. CASE RoundGoesOn(1, answered.obs, TRUE) /\ ~applied
  <2>1. Ends(1, answered.obs)
    BY <1>2, <1>7 DEF RoundGoesOn, Playing
  <2>2. ~EpisodeLive /\ Message.type = "observation" /\ Message.complete
    BY <1>0, <1>2, <2>1 DEF Ends, Between, At, Observation
  <2>3. ReceiveTerminalObservation
    BY <1>3, <2>2 DEF Reads, Receive, ReceiveHello, ReceiveReady, ReceiveEpisodeReady,
       ReceiveInitialObservation, ReceiveApplied, ReceiveNextObservation, ActiveObservation, ReceiveResult
  <2>4. UNCHANGED <<trainer, answered>>
    BY <1>3, <2>3, StepScript DEF ReceiveTerminalObservation
  <2> QED BY <1>3, <1>5, <2>2, <2>4
<1>8. ASSUME NEW o \in Outcomes, At(1, Result(session, armedRound, answered.obs, o)), Between(2),
             terminalSeen
      PROVE  Dropped(f) /\ trainer' \in {"idle", "stepping"} /\ UNCHANGED answered
  <2>1. ~EpisodeLive /\ Message.type = "episode_result"
    BY <1>0, <1>2, <1>8 DEF Between, At, Result
  <2>2. ReceiveResult
    BY <1>3, <2>1 DEF Reads, Receive, ReceiveHello, ReceiveReady, ReceiveEpisodeReady,
       ReceiveInitialObservation, ReceiveApplied, ReceiveNextObservation, ReceiveTerminalObservation
  <2> QED BY <1>5, <1>8, <2>1, <2>2 DEF ReceiveResult, StepReturns
<1>9. 1 \in Nat \ {0} /\ 2 \in Nat \ {0}
  OBVIOUS
<1> QED BY <1>3, <1>6, <1>7, <1>8, <1>9, StepScript

\* Requests fit whatever happens.
LEMMA StepRequestsFit ==
    ASSUME NothingFails, Healthy, [BridgeNext]_bridgeVars
    PROVE  RequestsFit'
<1>0. /\ SequencerInv /\ SequencerTypeOK /\ ServerTypeOK /\ WireTypeOK /\ BridgeTypeOK /\ PeerOfAcceptor
      /\ ConnectionsInOrder /\ WaitingIsSilent /\ NobodySends /\ TrainerTypeOK /\ Clean /\ ScriptKept
      /\ SessionHolds /\ EndsRemembered /\ TrainerFits
  BY DEF Healthy, HealthyInv, HealthyLinkNeverFails, Clean, BridgeInv, BridgeTypeOK, SequencerInv,
         ConversationInv
<1> SUFFICES ASSUME Linked', NEW f \in TrainerFrames, OnTheWay(f)'
             PROVE  f.session = session' /\ Fits(f)'
  BY DEF RequestsFit
<1>1. CASE ClientNext
  <2>1. CASE Linked
    BY <1>1, <2>1, ClientKeepsFits
  <2>2. CASE ~Linked
    BY <1>0, <1>1, <2>2, LinkMoves
  <2> QED BY <2>1, <2>2
<1>2. CASE TrainerNext
  <2>1. /\ UNCHANGED <<peer, tasks, seqVars>>
        /\ UNCHANGED <<session, pendingArm, activeArm, completedArm, terminalReported, completedObs,
                       completedAct, raceConsumed, phase, actSeq>>
    BY <1>2, TrainerKeepsClient DEF seqVars, armVars, counterVars, completedVars
  <2>2. ~Dial
    BY <1>0, <2>1 DEF Dial, Linked, ConnectionsInOrder, WireTypeOK
  <2>3. ~ClosesUnharmed
    BY DEF ClosesUnharmed, Closes, Linked
  <2>4. Dropped(f) => Dropped(f)'
    BY <2>1 DEF Dropped, LateAction, ForCompletedRound
  <2>5. CASE Reads
    <3>1. UNCHANGED <<openConn, toClient>>
      BY <1>0, <2>5, ReadsFirst
    <3>2. Linked /\ OnTheWay(f)
      BY <2>1, <3>1, OnTheWaySame DEF Linked
    <3>3. /\ Dropped(f) /\ trainer = "stepping" /\ f = ActionFrame(session, answered)
          /\ trainer' \in {"idle", "stepping"} /\ UNCHANGED answered
      BY <2>5, <3>2, ReadsOfTheEnd
    <3>4. f.session = session
      BY <3>3 DEF ActionFrame
    <3> QED BY <2>1, <2>4, <3>3, <3>4 DEF Fits, ActionFrame
  <2>6. ASSUME NEW r \in TrainerRounds, NEW v \in TrainerPolicies, Arm(r, v)
        PROVE  f.session = session' /\ Fits(f)'
    <3> DEFINE a == [request |-> 1, round |-> r, policy |-> v]
               g == ArmFrame(tSession, a)
    <3>1. /\ trainer = "idle" /\ trainer' = "arming" /\ armedRound' = a /\ ~readySeen'
          /\ UNCHANGED <<openConn, toTrainer>> /\ TrainerWrites(g)
      BY <2>6 DEF Arm
    <3>2. g \in TrainerFrames
      BY <1>0, <3>1, RequestTypes
    <3>3. InSession /\ Script /\ Linked /\ tSession = session
      BY <1>0, <3>1 DEF SessionHolds, ScriptKept, InSession
    <3>4. toTrainer = <<>> /\ pendingArm = NoArm /\ ~EpisodeLive
      <4>1. Between(1)
        BY <3>1, <3>3 DEF Script
      <4>2. \A j \in DOMAIN toTrainer : j < 1
        BY <1>0, <4>1, CleanEnds DEF Between
      <4>3. pendingArm = NoArm /\ ~EpisodeLive
        BY <1>0, <4>1 DEF Between
      <4>4. toTrainer \in Seq(ClientFrames)
        BY <1>0 DEF WireTypeOK
      <4>5. toTrainer # <<>> => 1 \in DOMAIN toTrainer
        BY <4>4
      <4>6. toTrainer = <<>>
        BY <4>2, <4>5
      <4> QED BY <4>3, <4>6
    <3>5. Untaken'
      BY <2>1, <3>1, <3>4 DEF Untaken, EpisodeLive
    <3>6. g = ArmFrame(session, armedRound)' /\ g.session = session
      BY <2>1, <3>1, <3>3 DEF ArmFrame
    <3> HIDE DEF g
    <3>7. OnTheWay(f) \/ f = g
      BY <1>0, <2>1, <3>1, <3>2, OnTheWayGrows
    <3>8. CASE OnTheWay(f)
      <4>1. f.session = session /\ Dropped(f)
        BY <3>1, <3>3, <3>8, OnTheWayFits DEF Fits
      <4> QED BY <2>1, <2>4, <3>1, <3>5, <4>1 DEF Fits
    <3>9. CASE f = g
      BY <2>1, <3>1, <3>5, <3>6, <3>9 DEF Fits
    <3> QED BY <3>7, <3>8, <3>9
  <2>7. CASE Answer
    <3> DEFINE g == ActionFrame(tSession, answered')
    <3>1. /\ trainer = "deciding" /\ trainer' = "stepping" /\ UNCHANGED <<openConn, toTrainer, armedRound>>
          /\ answered' = [round |-> armedRound.round, policy |-> armedRound.policy,
                          obs |-> answered.act, act |-> answered.act + 1]
          /\ TrainerWrites(g)
      BY <2>7 DEF Answer
    <3>2. g \in TrainerFrames
      BY <1>0, <2>7, RequestTypes
    <3>3. InSession /\ Script /\ Linked /\ tSession = session
      BY <1>0, <3>1 DEF SessionHolds, ScriptKept, InSession
    <3>4. g.type = "action_request" /\ g.action = answered' /\ g = ActionFrame(session, answered)'
          /\ g.session = session
      BY <2>1, <3>3 DEF ActionFrame
    <3> HIDE DEF g
    <3>5. f = g
      <4>1. ~OnTheWay(f)
        BY <3>1, <3>3, OnTheWayFits
      <4> QED BY <1>0, <2>1, <3>1, <3>2, <4>1, OnTheWayGrows
    <3>6. RoundGoesOn(1, answered.act, FALSE)
      BY <3>1, <3>3 DEF Script
    <3>7. CASE Playing(1, answered.act, FALSE)
      <4>1. EpisodeLive /\ activeArm = armedRound /\ actSeq = answered.act /\ phase = "WAITING_ACTION"
        BY <1>0, <3>7 DEF Playing
      <4>2. Awaited'
        BY <2>1, <3>1, <4>1 DEF Awaited, EpisodeLive
      <4> QED BY <2>1, <3>1, <3>4, <3>5, <4>2 DEF Fits
    <3>8. CASE Ends(1, answered.act)
      <4>1. 1 \in DOMAIN toTrainer /\ TerminalObs(toTrainer[1]) /\ toTrainer[1].obs = answered.act
        BY <3>8 DEF Ends, At, Observation, TerminalObs
      <4>2. completedArm = armedRound /\ completedObs = answered.act /\ completedAct = answered.act
            /\ ~raceConsumed
        BY <1>0, <3>1, <3>3, <4>1 DEF EndsRemembered
      <4>3. armedRound # NoArm
        <5>1. armedRound \in Arms
          BY <1>0, <3>1 DEF TrainerTypeOK
        <5> QED BY <5>1, SequencerAssumption DEF Arms, NoArm
      <4>4. LateAction(answered')
        BY <3>1, <4>2, <4>3 DEF LateAction, ForCompletedRound
      <4>5. Dropped(f)
        BY <3>4, <3>5, <4>4 DEF Dropped
      <4> QED BY <2>1, <2>4, <3>1, <3>4, <3>5, <4>5 DEF Fits
    <3> QED BY <3>6, <3>7, <3>8 DEF RoundGoesOn
  <2> QED BY <1>2, <2>2, <2>3, <2>5, <2>6, <2>7, HealthyTrainer
<1>3. CASE UNCHANGED bridgeVars
  <2>1. /\ UNCHANGED <<wireVars, tasks, peer, toClient, openConn, toTrainer, session, trainer, readySeen,
                       pendingArm, activeArm, completedArm, terminalReported, armedRound, phase, actSeq,
                       answered, completedObs, completedAct, raceConsumed>>
    BY <1>3 DEF bridgeVars, wireVars, clientVars, trainerVars, seqVars, armVars, counterVars,
                completedVars
  <2>2. Linked /\ OnTheWay(f)
    BY <2>1, OnTheWaySame DEF Linked
  <2>3. f.session = session /\ Fits(f)
    BY <2>2, OnTheWayFits
  <2> QED BY <2>1, <2>3 DEF Fits, Dropped, LateAction, ForCompletedRound, Untaken, EpisodeLive, Awaited,
                            ArmFrame, ActionFrame
<1> QED BY <1>1, <1>2, <1>3 DEF BridgeNext, ClientNext, TrainerNext

-----------------------------------------------------------------------------
(* Ends that are remembered *)

\* The client remembers the end that it tells of, and forgets none that is to be read.
LEMMA ClientKeepsEnds ==
    ASSUME NothingFails, Healthy, ClientNext, InSession',
           NEW i \in DOMAIN toTrainer', TerminalObs(toTrainer'[i])
    PROVE  /\ completedArm' = armedRound'
           /\ completedObs' = toTrainer'[i].obs /\ completedAct' = toTrainer'[i].obs
           /\ raceConsumed' => trainer' = "stepping" /\ answered'.obs = toTrainer'[i].obs
<1>0. /\ SequencerInv /\ SequencerTypeOK /\ ServerTypeOK /\ WireTypeOK /\ BridgeTypeOK /\ PeerOfAcceptor
      /\ BridgeInv /\ ConversationInv /\ EndsRemembered
  BY DEF Healthy, HealthyInv, BridgeInv, BridgeTypeOK, SequencerInv
<1>1. UNCHANGED <<trainer, armedRound, answered>>
  BY <1>0, ClientKeepsOpen DEF trainerVars
<1>2. CASE ~InSession
  <2>1. SessionBegins
    BY <1>2, SessionBegun
  <2>2. At(1, Hello(session))' /\ At(2, Ready(session))' /\ Stop(3)'
    BY <1>0, <2>1, BeginsAnew DEF Begins
  <2>3. 3 \notin DOMAIN toTrainer'
    BY <2>2, StepClean DEF Stop, HealthyLinkNeverFails, BridgeNext, ClientNext
  <2>4. toTrainer' \in Seq(ClientFrames)
    BY <1>0, StepWireTypes DEF WireTypeOK, BridgeNext, ClientNext
  <2>5. i = 1 \/ i = 2
    <3>1. DOMAIN toTrainer' = 1..Len(toTrainer') /\ Len(toTrainer') \in Nat
      BY <2>4
    <3> QED BY <2>3, <3>1
  <2> QED BY <2>2, <2>5 DEF At, Hello, Ready, TerminalObs
<1>3. CASE InSession
  <2>1. HealthyTurns
    BY <1>3, SessionStays
  <2>2. CASE i \in DOMAIN toTrainer /\ toTrainer'[i] = toTrainer[i]
    <3>1. /\ ~EpisodeLive /\ pendingArm = NoArm
          /\ trainer \in {"arming", "deciding", "stepping"}
      BY <1>3, <2>2, TerminalMeansEnded
    <3>2. /\ completedArm = armedRound
          /\ completedObs = toTrainer[i].obs /\ completedAct = toTrainer[i].obs
          /\ raceConsumed => trainer = "stepping" /\ answered.obs = toTrainer[i].obs
      BY <1>0, <1>3, <2>2 DEF EndsRemembered
    <3>3. ~Starts /\ ~Completes /\ ~Finishes
      BY <1>0, <3>1 DEF Starts, EpisodeStarted, CountdownFollowed, Completes, CompleteAction, SequencerInv,
         PhaseFollowsEpisode, Finishes, PlayerEliminated, RoundCompleted
    <3>4. CASE UNCHANGED <<completedArm, completedObs, completedAct, raceConsumed>>
      BY <1>1, <2>2, <3>2, <3>4
    <3>5. Quiet \/ TakesArm \/ TakesAction =>
            UNCHANGED <<completedArm, completedObs, completedAct, raceConsumed>>
      BY DEF Quiet, KeepsRound, TakesArm, ArmAccepted, TakesAction, ActionQueued, armVars, completedVars
    <3>6. CASE DropsLate
      <4> DEFINE f == Head(tasks).frame
      <4>1. /\ TakeTask("message") /\ CurrentTask /\ f.type = "action_request" /\ LateAction(f.action)
            /\ UNCHANGED <<completedArm, completedObs, completedAct>>
        BY <3>6 DEF DropsLate, HandleAction, LateActionDropped, armVars
      <4>2. Fits(f)
        BY <1>3, <4>1, HeadFits DEF InSession
      <4>3. toTrainer # <<>>
        BY <2>2
      <4>4. trainer = "stepping" /\ f = ActionFrame(session, answered)
        BY <3>1, <4>2, <4>3 DEF Fits, Untaken
      <4>5. answered.obs = completedObs
        BY <4>1, <4>4 DEF ActionFrame, LateAction
      <4> QED BY <1>1, <2>2, <3>2, <4>1, <4>4, <4>5
    <3> QED BY <2>1, <3>3, <3>4, <3>5, <3>6 DEF HealthyTurns
  <2>3. CASE Finishes /\ toTrainer'[i].obs = obsSeq
    <3>1. PICK p \in Packets : PlayerEliminated(p) \/ RoundCompleted(p)
      BY <2>3 DEF Finishes
    <3>2. EpisodeLive /\ MarkTerminal
      BY <3>1 DEF PlayerEliminated, RoundCompleted
    <3>3. /\ completedArm' = activeArm /\ completedObs' = obsSeq /\ completedAct' = actSeq
          /\ raceConsumed' = ActionInFlight
      BY <3>2 DEF MarkTerminal, RememberEpisode
    <3>4. /\ activeArm = armedRound
          /\ phase # "WAITING_ACTION" => trainer = "stepping" /\ actSeq = answered.obs
      BY <1>3, <3>2, ScriptLive
    <3>5. obsSeq = actSeq
      BY <1>0, <3>2 DEF SequencerInv, ObservationsCountActions, EpisodeLive
    <3>6. ActionInFlight => phase # "WAITING_ACTION"
      BY <1>0, <3>2 DEF SequencerInv, KeptActionIsCurrent, ActionInFlight
    <3> QED BY <1>1, <2>3, <3>3, <3>4, <3>5, <3>6
  <2> QED BY <2>1, <2>2, <2>3, HealthyFrames
<1> QED BY <1>2, <1>3

\* So it is whatever happens.
LEMMA StepEnds ==
    ASSUME NothingFails, Healthy, [BridgeNext]_bridgeVars
    PROVE  EndsRemembered'
<1>0. /\ WireTypeOK /\ BridgeTypeOK /\ BridgeInv /\ ConversationInv /\ EndsRemembered /\ TrainerFits
      /\ SessionHolds /\ answered.act \in Nat /\ answered.obs \in Nat
  BY DEF Healthy, HealthyInv, BridgeInv, BridgeTypeOK, ConversationInv, TrainerTypeOK
<1> SUFFICES ASSUME InSession', NEW i \in DOMAIN toTrainer', TerminalObs(toTrainer'[i])
             PROVE  /\ completedArm' = armedRound'
                    /\ completedObs' = toTrainer'[i].obs /\ completedAct' = toTrainer'[i].obs
                    /\ raceConsumed' => trainer' = "stepping" /\ answered'.obs = toTrainer'[i].obs
  BY DEF EndsRemembered
<1>1. CASE ClientNext
  BY <1>1, ClientKeepsEnds
<1>2. CASE TrainerNext
  <2>1. /\ UNCHANGED <<peer, tasks, session>>
        /\ UNCHANGED <<completedArm, completedObs, completedAct, raceConsumed>>
    BY <1>2, TrainerKeepsClient DEF seqVars, armVars, completedVars
  <2>2. ~Dial
    BY DEF Dial
  <2>3. ~ClosesUnharmed
    BY DEF ClosesUnharmed, Closes, InSession, Linked
  <2>4. CASE Reads
    <3>1. /\ i + 1 \in DOMAIN toTrainer /\ toTrainer'[i] = toTrainer[i + 1] /\ i + 1 # 1
      BY <1>0, <2>4, ReadsFirst
    <3>2. InSession
      BY <1>0, <1>2, <2>4, HearsInSession DEF Hearing
    <3>3. /\ completedArm = armedRound
          /\ completedObs = toTrainer[i + 1].obs /\ completedAct = toTrainer[i + 1].obs
          /\ raceConsumed => trainer = "stepping" /\ answered.obs = toTrainer[i + 1].obs
      BY <1>0, <3>1, <3>2 DEF EndsRemembered
    <3>4. trainer = "stepping" => toTrainer[i + 1].obs = answered.act /\ answered.act = answered.obs + 1
      <4>1. trainer = "stepping" => toTrainer[i + 1].obs = answered.act
        BY <3>1, <3>2, TerminalMeansEnded
      <4> QED BY <1>0, <4>1 DEF TrainerFits
    <3>5. ~raceConsumed
      BY <1>0, <3>3, <3>4
    <3>6. UNCHANGED armedRound
      BY <2>4 DEF Reads, ReceiveHello, ReceiveReady, ReceiveEpisodeReady, ReceiveInitialObservation,
         ReceiveApplied, ReceiveNextObservation, ReceiveTerminalObservation, ReceiveResult, StepReturns
    <3> QED BY <2>1, <3>1, <3>3, <3>5, <3>6
  <2>5. CASE Answer \/ \E r \in TrainerRounds, v \in TrainerPolicies : Arm(r, v)
    <3>1. trainer \in {"idle", "deciding"} /\ UNCHANGED toTrainer
      BY <2>5 DEF Answer, Arm
    <3>2. InSession
      BY <1>0, <3>1 DEF SessionHolds
    <3>3. trainer = "deciding"
      BY <3>1, <3>2, TerminalMeansEnded
    <3>4. UNCHANGED armedRound
      BY <2>5, <3>3 DEF Answer, Arm
    <3>5. /\ completedArm = armedRound /\ ~raceConsumed
          /\ completedObs = toTrainer[i].obs /\ completedAct = toTrainer[i].obs
      BY <1>0, <3>1, <3>2, <3>3 DEF EndsRemembered
    <3> QED BY <2>1, <3>1, <3>4, <3>5
  <2> QED BY <1>2, <2>2, <2>3, <2>4, <2>5, HealthyTrainer
<1>3. CASE UNCHANGED bridgeVars
  <2>1. InSession
    BY <1>3 DEF bridgeVars, wireVars, clientVars, trainerVars, seqVars, InSession, Linked, At, Hello
  <2> QED BY <1>0, <1>3, <2>1 DEF bridgeVars, wireVars, trainerVars, seqVars, armVars, completedVars,
                                   EndsRemembered
<1> QED BY <1>1, <1>2, <1>3 DEF BridgeNext, ClientNext, TrainerNext

-----------------------------------------------------------------------------
(* The invariant of a link on which nothing fails *)

\* Such a link starts well,
LEMMA HealthyInit == ASSUME BridgeInit PROVE HealthyInv
<1> USE DEF BridgeInit, WireInit, ClientInit, TrainerInit, ServerInit, SequencerInit
<1>1. ~stopped /\ HealthyLinkNeverFails
  BY DEF HealthyLinkNeverFails
<1>2. PaperHolds
  BY DEF PaperHolds, OffPaper
<1>3. ConnectionHolds /\ AnnouncedOnce /\ SessionHolds
  BY DEF ConnectionHolds, AnnouncedOnce, SessionHolds, InSession, Linked
<1>4. RequestsFit /\ RequestsInOrder /\ EndsRemembered
  BY DEF RequestsFit, RequestsInOrder, EndsRemembered, InSession, Linked
<1> QED BY <1>1, <1>2, <1>3, <1>4 DEF HealthyInv

\* and stays so with each step.
LEMMA HealthyStep ==
    ASSUME NothingFails, Healthy, [BridgeNext]_bridgeVars
    PROVE  HealthyInv'
  BY StepPaper, StepClean, StepConnection, StepAnnounced, StepInSession, StepRequestsFit,
     StepOrderOfRequests, StepEnds DEF HealthyInv

\* On a link where nothing fails (no connection or process is lost, no write fails, nothing
\* times out) YRushConnection's run never fails and the client never sends an error, for any
\* number of connections and rounds and in whatever order rounds, arms, late actions and
\* reconnections come.
THEOREM HealthyLinksNeverFail == NothingFails => (BridgeSpec => []HealthyLinkNeverFails)
<1> SUFFICES ASSUME NothingFails PROVE BridgeSpec => []HealthyLinkNeverFails
  OBVIOUS
<1>1. BridgeInit => Healthy
  BY BridgeInitInv, ConversationInit, HealthyInit DEF Healthy
<1>2. Healthy /\ [BridgeNext]_bridgeVars => Healthy'
  BY BridgeStepInv, ConversationStep, HealthyStep DEF Healthy
<1>3. Healthy => HealthyLinkNeverFails
  BY DEF Healthy, HealthyInv
<1> QED BY <1>1, <1>2, <1>3, PTL DEF BridgeSpec

=============================================================================
