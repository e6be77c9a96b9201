-------------------------- MODULE FabricBridgeProofs --------------------------
(***************************************************************************)
(* Proofs about a Fabric client and the trainer it talks to, with every    *)
(* fault the model knows: the player's keys follow the action that runs,   *)
(* what the trainer learns from was held to its end, the end of a round    *)
(* never carries an action, and the client keeps the contract of its       *)
(* sequencer whatever fails under it.                                      *)
(*                                                                         *)
(* The keys are the hard part: a new session resets the sequencer and      *)
(* leaves the keys alone.  That is right because no session begins, on     *)
(* Paper, while an action is kept; which is so because the tasks of the    *)
(* listener thread are in an order in which no message of a connection is  *)
(* handled between the loss of the connection before and the handler that  *)
(* begins its session.                                                     *)
(***************************************************************************)
EXTENDS FabricBridge, RoundSequencerProofs, SequenceTheorems

-----------------------------------------------------------------------------
(* What is on the wire and in the queue of tasks *)

AnySession == Sessions \cup {NoSession}

TrainerFrames ==
    [type : {"arm_episode"}, session : Sessions, arm : Arms]
    \cup [type : {"action_request"}, session : Sessions, action : Actions]
    \cup [type : {"shutdown"}, session : Sessions]

Acknowledgements == [type : {"action_applied"}, session : AnySession, action : Actions \cup {NoAction}]

OtherFrames ==
    [type : {"connection_hello", "connection_ready"}, session : Sessions]
    \cup [type : {"episode_ready"}, session : AnySession, arm : Arms \cup {NoArm}]
    \cup [type : {"observation"}, session : AnySession, round : Nat, policy : Nat, obs : Nat,
          act : Nat, complete : BOOLEAN]
    \cup [type : {"episode_result"}, session : AnySession, round : Nat, policy : Nat, obs : Nat,
          outcome : Outcomes]
    \cup [type : {"error"}, session : AnySession]

ClientFrames == Acknowledgements \cup OtherFrames

Connecteds == [kind : {"connected"}, conn : Nat]
Messages == [kind : {"message"}, conn : Nat, frame : TrainerFrames]
Tasks == Connecteds \cup Messages \cup [kind : {"disconnected"}]

WireTypeOK ==
    /\ backlog \in Seq(Nat)
    /\ openConn \in Nat /\ peer \in Nat /\ dials \in Nat
    /\ toTrainer \in Seq(ClientFrames)
    /\ toClient \in Seq(TrainerFrames)
    /\ tasks \in Seq(Tasks)

TrainerTypeOK ==
    /\ trainer \in {"closed", "hello", "ready", "idle", "arming", "deciding", "stepping", "failed"}
    /\ trainer \in {"ready", "idle", "arming", "deciding", "stepping"} => tSession \in Sessions
    /\ trainer \in {"arming", "deciding", "stepping"} => armedRound \in Arms
    /\ armedRound.round \in Nat
    /\ answered.obs \in Nat /\ answered.act \in Nat
    /\ applied \in BOOLEAN

ServerTypeOK ==
    /\ server \in {"INACTIVE", "LOCKED_COUNTDOWN", "ACTIVE", "ROUND_COMPLETE"}
    /\ verdict \in IF server = "ROUND_COMPLETE" THEN Outcomes ELSE {"NONE"}

ClientTypeOK ==
    /\ online \in {"down", "up", "lost"}
    /\ announced \in BOOLEAN
    /\ ticksLeft \in Nat /\ heldTicks \in Nat
    /\ pressed \in BOOLEAN

BridgeTypeOK == WireTypeOK /\ TrainerTypeOK /\ ServerTypeOK /\ ClientTypeOK

-----------------------------------------------------------------------------
(* The order of connections and of the tasks about them *)

\* The listener has a peer exactly from its acceptance until its loss.
PeerOfAcceptor ==
    /\ acceptor \in {"accepting", "accepted", "reading", "lost", "stopped"}
    /\ (peer # 0) <=> acceptor \in {"accepted", "reading"}

About(t) == t.kind \in {"connected", "message"}

\* Connections are accepted in the order of their numbers, each once.
ConnectionsInOrder ==
    /\ peer <= dials
    /\ \A i \in DOMAIN backlog : peer < backlog[i] /\ backlog[i] <= dials
    /\ \A i, j \in DOMAIN backlog : i < j => backlog[i] < backlog[j]
    /\ \A k \in DOMAIN tasks : About(tasks[k]) =>
        /\ tasks[k].conn > 0 /\ tasks[k].conn <= dials
        /\ \A i \in DOMAIN backlog : tasks[k].conn < backlog[i]
        /\ acceptor = "accepted" => tasks[k].conn # peer

IsConnected(t) == t.kind = "connected" /\ t.conn = peer
IsMessage(t) == t.kind = "message" /\ t.conn = peer

\* The peer is announced, after task d, before any of its messages.
AnnouncedAfter(d) ==
    \E j \in DOMAIN tasks :
        j > d /\ IsConnected(tasks[j]) /\ \A i \in 1..j : ~IsMessage(tasks[i])

\* No message of a peer is handled between a disconnection and its announcement.
DisconnectionsFirst ==
    acceptor = "reading" =>
        \A d \in DOMAIN tasks : tasks[d].kind = "disconnected" => AnnouncedAfter(d)

\* Nor before its session has begun, while the player is on Paper.
SessionBeforeMessages ==
    acceptor = "reading" /\ online = "up" /\ ~announced => AnnouncedAfter(0)

-----------------------------------------------------------------------------
(* The keys *)

\* An arm is not kept beside a live episode, which a new one would be refused for.
LiveExcludesPending == EpisodeLive => pendingArm = NoArm

\* Off Paper no episode lives.
DownIsIdle == online = "down" => ~EpisodeLive

\* Without a session no action is kept.
NoActionUnannounced ==
    online = "up" /\ ~announced => phase \notin {"ACTION_QUEUED", "ACTION_RUNNING"}

\* The ticks an action has left are those that its keys have not been down.
TicksAddUp == pressed => heldTicks + ticksLeft = HoldTicks

-----------------------------------------------------------------------------
(* What the trainer is told *)

ActiveObs(f) == f.type = "observation" /\ ~f.complete

\* An acknowledgement is of an action that was held, and an observation of the
\* round that goes on follows it.
AcknowledgementsFollowed ==
    \A i \in DOMAIN toTrainer : toTrainer[i].type = "action_applied" =>
        /\ <<toTrainer[i].session, toTrainer[i].action>> \in heldActions
        /\ i + 1 \in DOMAIN toTrainer
        /\ ActiveObs(toTrainer[i + 1])

\* A trainer that has seen the acknowledgement is about to see that observation.
AppliedIsFollowed ==
    applied =>
        /\ trainer = "stepping"
        /\ <<tSession, answered>> \in heldActions
        /\ toTrainer # <<>> /\ ActiveObs(toTrainer[1])

BridgeInv ==
    /\ SequencerInv
    /\ BridgeTypeOK
    /\ PeerOfAcceptor
    /\ ConnectionsInOrder
    /\ DisconnectionsFirst
    /\ SessionBeforeMessages
    /\ LiveExcludesPending
    /\ DownIsIdle
    /\ NoActionUnannounced
    /\ TicksAddUp
    /\ KeysFollowAction
    /\ AcknowledgementsFollowed
    /\ AppliedIsFollowed
    /\ LearntActionsWereHeld
    /\ EndsCarryNoAction

-----------------------------------------------------------------------------
(* The sequencer under the client *)

\* A client whose write failed has aborted its sequencer, whatever else the step
\* would have done to it.
Unsent ==
    /\ NothingKept
    /\ session' \in AnySession
    /\ latest' \in Packets \cup {NoPacket}
    /\ actSeq' \in Nat /\ obsSeq' = actSeq' /\ obsAge' \in 0..DeadlineTicks
    /\ completedObs' \in Nat /\ completedAct' \in Nat
    /\ countdownSeen' \in BOOLEAN /\ skipUntilInactive' \in BOOLEAN
    /\ terminalReported' \in BOOLEAN /\ raceConsumed' \in BOOLEAN

SequencerMoves == [SequencerNext]_seqVars \/ Unsent

\* A sequencer that keeps nothing satisfies its invariant, whatever it counted.
LEMMA UnsentKeepsInv == Unsent => SequencerInv'
<1> SUFFICES ASSUME Unsent PROVE SequencerInv'
  OBVIOUS
<1> USE DEF Unsent, NothingKept
<1>1. SequencerTypeOK'
  BY DEF SequencerTypeOK, SeqPhases, AnySession
<1>2. ~EpisodeLive'
  BY DEF EpisodeLive
<1>3. PhaseFollowsEpisode' /\ KeptActionIsCurrent' /\ LiveOnlyInActiveRound'
  BY <1>2 DEF PhaseFollowsEpisode, KeptActionIsCurrent, LiveOnlyInActiveRound
<1>4. EndedEpisodeRemembered' /\ RoundsAdvance' /\ MidRoundArmSkips' /\ ObservationsCountActions'
  BY <1>2 DEF EndedEpisodeRemembered, RoundsAdvance, MidRoundArmSkips, ObservationsCountActions
<1> QED BY <1>1, <1>3, <1>4 DEF SequencerInv

\* In the contract it voids every promise.
LEMMA UnsentResets == Unsent => Contract!Reset
<1> SUFFICES ASSUME Unsent PROVE Contract!Reset
  OBVIOUS
<1>1. ~EpisodeLive'
  BY DEF Unsent, NothingKept, EpisodeLive
<1>2. PreviousRound' = 0
  BY DEF Unsent, NothingKept, PreviousRound, NoArm
<1> QED BY <1>1, <1>2, ArmRounds DEF Unsent, NothingKept, Contract!Reset

\* So no step of a client breaks what the sequencer guarantees.
LEMMA MovesKeepInv == ASSUME SequencerInv, SequencerMoves PROVE SequencerInv'
  BY StepInv, UnsentKeepsInv DEF SequencerMoves

\* Nor the contract.
LEMMA MovesKeepContract ==
    ASSUME SequencerInv, SequencerMoves
    PROVE  [Contract!ContractNext]_(Contract!contractVars)
<1>1. SequencerInv'
  BY MovesKeepInv
<1>2. CASE [SequencerNext]_seqVars
  BY <1>1, <1>2, StepRefines
<1>3. CASE Unsent
  BY <1>3, UnsentResets DEF Contract!ContractNext
<1> QED BY <1>2, <1>3 DEF SequencerMoves

-----------------------------------------------------------------------------
(* Every step moves the sequencer as its own specification or a failure does *)

\* What the task at the head of the queue may carry.
LEMMA HeadFrames ==
    ASSUME WireTypeOK, tasks # <<>>, Head(tasks).kind = "message"
    PROVE  /\ Head(tasks).frame \in TrainerFrames
           /\ Head(tasks).frame.session \in Sessions
           /\ Head(tasks).frame.type = "arm_episode" => Head(tasks).frame.arm \in Arms
           /\ Head(tasks).frame.type = "action_request" => Head(tasks).frame.action \in Actions
<1>1. Head(tasks) \in Tasks
  BY DEF WireTypeOK
<1>2. Head(tasks).frame \in TrainerFrames
  BY <1>1 DEF Tasks, Connecteds, Messages
<1> HIDE DEF TrainerFrames
<1> QED BY <1>2 DEF TrainerFrames

\* A session id that is drawn is one of Sessions.
LEMMA FreshSessions == SessionsLeft => FreshSession \in Sessions
  BY DEF SessionsLeft, FreshSession

\* Beginning a session.
LEMMA BeginMoves == ASSUME SequencerInv, BeginTrainerSession PROVE SequencerMoves
<1>1. SequencerTypeOK
  BY DEF SequencerInv
<1>2. CASE SessionBegins
  BY <1>2, FreshSessions DEF SessionBegins, SequencerMoves, SequencerNext
<1>3. CASE SessionBeginsUnsent
  BY <1>1, <1>3, FreshSessions
     DEF SessionBeginsUnsent, SequencerMoves, Unsent, SequencerTypeOK, AnySession, NothingKept
<1>4. CASE SessionNotBegun
  BY <1>4 DEF SessionNotBegun, SequencerMoves
<1> QED BY <1>2, <1>3, <1>4 DEF BeginTrainerSession

\* Handling a task.
LEMMA TaskMoves == ASSUME SequencerInv, WireTypeOK, HandleTask PROVE SequencerMoves
<1>0. Abort => SequencerMoves
  BY DEF SequencerNext, SequencerMoves
<1>1. CASE HandleConnected
  <2>1. BeginTrainerSession \/ UNCHANGED seqVars
    BY <1>1 DEF HandleConnected, BeginTrainerSession
  <2> QED BY <2>1, BeginMoves DEF SequencerMoves
<1>2. CASE HandleStaleMessage
  BY <1>2 DEF HandleStaleMessage, SequencerMoves
<1>3. CASE HandleArm
  <2> DEFINE m == Head(tasks).frame
  <2>1. m.session \in Sessions /\ m.arm \in Arms
    BY <1>3, HeadFrames DEF HandleArm, TakeTask
  <2>2. ReceiveArm(m.session, m.arm)
    BY <1>3 DEF HandleArm, ReceiveArm
  <2> QED BY <2>1, <2>2 DEF SequencerMoves, SequencerNext
<1>4. CASE HandleAction
  <2> DEFINE m == Head(tasks).frame
  <2>1. m.session \in Sessions /\ m.action \in Actions
    BY <1>4, HeadFrames DEF HandleAction, TakeTask
  <2>2. ReceiveAction(m.session, m.action)
    BY <1>4 DEF HandleAction, ReceiveAction
  <2> QED BY <2>1, <2>2 DEF SequencerMoves, SequencerNext
<1>5. CASE HandleShutdown
  BY <1>0, <1>5 DEF HandleShutdown
<1>6. CASE HandleDisconnected
  BY <1>0, <1>6 DEF HandleDisconnected
<1> QED BY <1>1, <1>2, <1>3, <1>4, <1>5, <1>6 DEF HandleTask

\* A client tick.
LEMMA TickMoves == ASSUME SequencerInv, ClientTick PROVE SequencerMoves
<1>1. SequencerTypeOK /\ DeadlineTicks \in Nat
  BY DeadlineIsNat DEF SequencerInv
<1>2. CASE TickMissesDeadline
  BY <1>2 DEF TickMissesDeadline, SequencerMoves, SequencerNext
<1>3. CASE TickWaits
  BY <1>3 DEF TickWaits, SequencerMoves, SequencerNext
<1>4. CASE TickBegins
  BY <1>4 DEF TickBegins, SequencerMoves, SequencerNext
<1>5. CASE TickBeginsOffline
  BY <1>5 DEF TickBeginsOffline, SequencerMoves, SequencerNext
<1>6. CASE TickHolds
  BY <1>6 DEF TickHolds, SequencerMoves
<1>7. CASE TickCompletes
  BY <1>7 DEF TickCompletes, SequencerMoves, SequencerNext
<1>8. CASE TickCompletesUnsent
  <2>1. NothingKept
    BY <1>8 DEF TickCompletesUnsent
  <2>2. actSeq' \in Nat /\ obsSeq' = actSeq' /\ obsAge' \in 0..DeadlineTicks
    BY <1>1, <1>8 DEF TickCompletesUnsent, SequencerTypeOK
  <2>3. UNCHANGED <<session, latest, completedObs, completedAct, raceConsumed, countdownSeen,
                    skipUntilInactive, terminalReported>>
    BY <1>8 DEF TickCompletesUnsent, completedVars, flagVars
  <2>4. Unsent
    BY <1>1, <2>1, <2>2, <2>3 DEF Unsent, SequencerTypeOK, AnySession
  <2> QED BY <2>4 DEF SequencerMoves
<1> QED BY <1>2, <1>3, <1>4, <1>5, <1>6, <1>7, <1>8 DEF ClientTick

\* A packet of the server.
LEMMA PacketMoves ==
    ASSUME SequencerInv, NEW p \in Packets, ReceiveYRush(p)
    PROVE  SequencerMoves
<1>1. SequencerTypeOK /\ DeadlineTicks \in Nat /\ ObservationsCountActions
  BY DeadlineIsNat DEF SequencerInv
<1>0. ReceivePacket(p) => SequencerMoves
  BY DEF SequencerMoves, SequencerNext
<1>2. CASE StartEpisode(p)
  BY <1>0, <1>2 DEF StartEpisode, ReceivePacket
<1>3. CASE StartEpisodeUnsent(p)
  <2>1. NothingKept /\ latest' = p /\ actSeq' = 0 /\ obsSeq' = 0 /\ obsAge' = 0
        /\ terminalReported' = FALSE
    BY <1>3 DEF StartEpisodeUnsent
  <2>2. UNCHANGED <<session, completedObs, completedAct, raceConsumed, countdownSeen,
                    skipUntilInactive>>
    BY <1>3 DEF StartEpisodeUnsent, completedVars, flagVars
  <2>3. actSeq' \in Nat /\ obsSeq' = actSeq' /\ obsAge' \in 0..DeadlineTicks
    BY <1>1, <2>1
  <2>4. latest' \in Packets \cup {NoPacket} /\ terminalReported' \in BOOLEAN
    BY <2>1
  <2>5. Unsent
    BY <1>1, <2>1, <2>2, <2>3, <2>4 DEF Unsent, SequencerTypeOK, AnySession
  <2> QED BY <2>5 DEF SequencerMoves
<1>4. CASE FinishEpisode(p)
  BY <1>0, <1>4 DEF FinishEpisode, ReceivePacket
<1>5. CASE FinishEpisodeUnsent(p)
  <2>1. NothingKept /\ latest' = p /\ completedObs' = obsSeq /\ completedAct' = actSeq
        /\ raceConsumed' = ActionInFlight /\ terminalReported' = TRUE
    BY <1>5 DEF FinishEpisodeUnsent
  <2>2. UNCHANGED <<session, obsSeq, actSeq, obsAge, countdownSeen, skipUntilInactive>>
    BY <1>5 DEF FinishEpisodeUnsent, counterVars, flagVars
  <2>3. raceConsumed' \in BOOLEAN
    BY <2>1 DEF ActionInFlight
  <2>4. Unsent
    BY <1>1, <2>1, <2>2, <2>3 DEF Unsent, SequencerTypeOK, AnySession, ObservationsCountActions
  <2> QED BY <2>4 DEF SequencerMoves
<1>6. CASE CleanUp(p)
  BY <1>0, <1>6 DEF CleanUp, ReceivePacket
<1>7. CASE FollowRound(p)
  BY <1>0, <1>7 DEF FollowRound, ReceivePacket
<1>8. CASE RefusePacket(p)
  BY <1>0, <1>8 DEF RefusePacket, ReceivePacket
<1> QED BY <1>2, <1>3, <1>4, <1>5, <1>6, <1>7, <1>8 DEF ReceiveYRush

\* The server's packets are the ones the client parses.
LEMMA Snapshots ==
    /\ ServerTypeOK => Snapshot \in Packets
    /\ ServerTypeOK' => Snapshot' \in Packets
<1>1. ASSUME ServerTypeOK PROVE Snapshot \in Packets
  BY <1>1 DEF ServerTypeOK, Snapshot, Packets
<1>2. ASSUME ServerTypeOK' PROVE Snapshot' \in Packets
  BY <1>2 DEF ServerTypeOK, Snapshot, Packets
<1> QED BY <1>1, <1>2

\* A step of the server reaches the client as one of these packets, or not at all.
LEMMA ServerSteps ==
    ASSUME ServerTypeOK, ServerNext
    PROVE  /\ ServerTypeOK'
           /\ UNCHANGED trainerVars
           /\ \/ UNCHANGED <<seqVars, wireVars, clientVars>>
              \/ online = "up" /\ \E p \in Packets : ReceiveYRush(p)
<1>1. ServerTypeOK'
  BY DEF ServerNext, ServerTypeOK, OpenCountdown, StartRound, CancelCountdown, Eliminate,
         CompleteRound, CleanUpRound, RepeatState, serverVars, Outcomes
<1>2. Snapshot \in Packets /\ Snapshot' \in Packets
  BY <1>1, Snapshots
<1>3. CASE ServerAnnounces
  <2>1. PICK p \in Packets : p = Snapshot'
    BY <1>2
  <2>2. Deliver(p) /\ UNCHANGED trainerVars
    BY <1>3, <2>1 DEF ServerAnnounces
  <2> QED BY <1>1, <2>2 DEF Deliver
<1>4. CASE RepeatState
  BY <1>1, <1>2, <1>4 DEF RepeatState
<1>5. ServerAnnounces \/ RepeatState
  BY DEF ServerNext, OpenCountdown, StartRound, CancelCountdown, Eliminate, CompleteRound,
         CleanUpRound
<1> QED BY <1>1, <1>3, <1>4, <1>5

\* Every step of the bridge.
LEMMA StepMoves ==
    ASSUME SequencerInv, BridgeTypeOK, [BridgeNext]_bridgeVars
    PROVE  SequencerMoves
<1> USE DEF BridgeTypeOK
<1>0. UNCHANGED seqVars => SequencerMoves
  BY DEF SequencerMoves
<1>1. Abort => SequencerMoves
  BY DEF SequencerMoves, SequencerNext
<1>2. CASE ListenerNext
  BY <1>0, <1>2 DEF ListenerNext, Listener, Accept, AnnounceConnected, ReadFrame, PeerLost,
                    AnnounceDisconnected
<1>3. CASE TaskNext
  BY <1>3, TaskMoves DEF TaskNext
<1>4. CASE TickNext
  BY <1>4, TickMoves DEF TickNext
<1>5. CASE JoinNext
  BY <1>5, BeginMoves DEF JoinNext, JoinedPaper
<1>6. CASE LossNext
  BY <1>0, <1>6 DEF LossNext, PaperLost
<1>7. CASE DisconnectNext \/ StopNext
  BY <1>1, <1>7 DEF DisconnectNext, DisconnectedPaper, StopNext, ShutdownClient
<1>8. CASE ReceiveNext \/ DialNext \/ ActNext
  BY <1>0, <1>8 DEF ReceiveNext, DialNext, ActNext, KeepOutsideTrainer
<1>9. CASE ServerNext
  BY <1>0, <1>9, ServerSteps, PacketMoves
<1>10. CASE UNCHANGED bridgeVars
  BY <1>0, <1>10 DEF bridgeVars
<1> QED BY <1>2, <1>3, <1>4, <1>5, <1>6, <1>7, <1>8, <1>9, <1>10 DEF BridgeNext

-----------------------------------------------------------------------------
(* What the client writes *)

\* An arm carries natural numbers, and so does its absence.
LEMMA ArmNumbers == \A a \in Arms \cup {NoArm} : a.round \in Nat /\ a.policy \in Nat
<1>1. \A a \in Arms : a.round \in Rounds /\ a.policy \in Policies
  BY DEF Arms
<1>2. NoArm.round = 0 /\ NoArm.policy = 0
  BY DEF NoArm
<1>3. \A r \in Rounds, v \in Policies : r \in Nat /\ v \in Nat
  BY SequencerAssumption
<1>4. ASSUME NEW a \in Arms \cup {NoArm} PROVE a.round \in Nat /\ a.policy \in Nat
  <2>1. CASE a \in Arms
    BY <1>1, <1>3, <2>1
  <2>2. CASE a = NoArm
    BY <1>2, <2>2
  <2> QED BY <2>1, <2>2
<1> QED BY <1>4

\* Two frames make a sequence of frames.
LEMMA PairsAreSequences ==
    ASSUME NEW S, NEW e \in S, NEW f \in S
    PROVE  <<e, f>> \in Seq(S)
  OBVIOUS

\* The client's frames, by what they carry; only one of them acknowledges.
LEMMA FrameTypes ==
    ASSUME NEW s \in AnySession
    PROVE  /\ s \in Sessions => Hello(s) \in OtherFrames /\ Ready(s) \in OtherFrames
           /\ ErrorFrame(s) \in OtherFrames
           /\ \A a \in Arms \cup {NoArm} : EpisodeReady(s, a) \in OtherFrames
           /\ \A a \in Arms \cup {NoArm} : \A n, m \in Nat : \A b \in BOOLEAN :
                Observation(s, a, n, m, b) \in OtherFrames
           /\ \A a \in Arms \cup {NoArm} : \A n \in Nat : \A o \in Outcomes :
                Result(s, a, n, o) \in OtherFrames
           /\ \A x \in Actions \cup {NoAction} : Applied(s, x) \in Acknowledgements
<1>1. s \in Sessions => Hello(s) \in OtherFrames /\ Ready(s) \in OtherFrames
  BY DEF Hello, Ready, OtherFrames
<1>2. ErrorFrame(s) \in OtherFrames
  BY DEF ErrorFrame, OtherFrames
<1>3. \A a \in Arms \cup {NoArm} : EpisodeReady(s, a) \in OtherFrames
  BY DEF EpisodeReady, OtherFrames
<1>4. ASSUME NEW a \in Arms \cup {NoArm}, NEW n \in Nat, NEW m \in Nat, NEW b \in BOOLEAN
      PROVE  Observation(s, a, n, m, b) \in OtherFrames
  <2>1. a.round \in Nat /\ a.policy \in Nat
    BY ArmNumbers
  <2> QED BY <2>1 DEF Observation, OtherFrames
<1>5. ASSUME NEW a \in Arms \cup {NoArm}, NEW n \in Nat, NEW o \in Outcomes
      PROVE  Result(s, a, n, o) \in OtherFrames
  <2>1. a.round \in Nat /\ a.policy \in Nat
    BY ArmNumbers
  <2> QED BY <2>1 DEF Result, OtherFrames
<1>6. \A x \in Actions \cup {NoAction} : Applied(s, x) \in Acknowledgements
  BY DEF Applied, Acknowledgements
<1> QED BY <1>1, <1>2, <1>3, <1>4, <1>5, <1>6

\* Nothing, frames without an acknowledgement, or those of an action held to its end.
ClientTalks ==
    \/ UNCHANGED toTrainer
    \/ \E fs \in Seq(OtherFrames) : ClientWrites(fs)
    \/ Holding /\ ClientWrites(HeldFrames) /\ RecordHeld

\* A report of a failure.
LEMMA ReportTalks == ASSUME SequencerTypeOK, ReportFailure PROVE ClientTalks
<1>1. <<ErrorFrame(session)>> \in Seq(OtherFrames)
  BY FrameTypes DEF SequencerTypeOK, AnySession
<1> QED BY <1>1 DEF ReportFailure, ClientTalks

\* The beginning of a session.
LEMMA BeginTalks == ASSUME BeginTrainerSession PROVE ClientTalks
<1>1. CASE SessionBegins
  <2>1. FreshSession \in Sessions
    BY <1>1, FreshSessions DEF SessionBegins
  <2>2. Hello(FreshSession) \in OtherFrames /\ Ready(FreshSession) \in OtherFrames
    BY <2>1, FrameTypes DEF AnySession
  <2>3. <<Hello(FreshSession), Ready(FreshSession)>> \in Seq(OtherFrames)
    BY <2>2
  <2> QED BY <1>1, <2>3 DEF SessionBegins, ClientTalks
<1>2. CASE SessionBeginsUnsent \/ SessionNotBegun
  BY <1>2 DEF SessionBeginsUnsent, SessionNotBegun, ClientTalks
<1> QED BY <1>1, <1>2 DEF BeginTrainerSession

\* A task.
LEMMA TaskTalks == ASSUME SequencerTypeOK, HandleTask PROVE ClientTalks
<1>0. UNCHANGED toTrainer => ClientTalks
  BY DEF ClientTalks
<1>1. CASE HandleConnected
  BY <1>0, <1>1, BeginTalks DEF HandleConnected, BeginTrainerSession
<1>2. CASE HandleStaleMessage \/ HandleShutdown \/ HandleDisconnected
  BY <1>0, <1>2 DEF HandleStaleMessage, HandleShutdown, HandleDisconnected
<1>3. CASE HandleArm \/ HandleAction
  BY <1>0, <1>3, ReportTalks DEF HandleArm, HandleAction
<1> QED BY <1>1, <1>2, <1>3 DEF HandleTask

\* A tick.
LEMMA TickTalks == ASSUME SequencerTypeOK, ClientTick PROVE ClientTalks
<1>0. UNCHANGED toTrainer => ClientTalks
  BY DEF ClientTalks
<1>1. CASE TickMissesDeadline \/ TickBeginsOffline
  BY <1>1, ReportTalks DEF TickMissesDeadline, TickBeginsOffline
<1>2. CASE TickWaits \/ TickBegins \/ TickHolds \/ TickCompletesUnsent
  BY <1>0, <1>2 DEF TickWaits, TickBegins, TickHolds, TickCompletesUnsent
<1>3. CASE TickCompletes
  BY <1>3 DEF TickCompletes, ClientTalks
<1> QED BY <1>1, <1>2, <1>3 DEF ClientTick

\* A packet: an end is told with what the round had come to.
LEMMA PacketTalks ==
    ASSUME SequencerTypeOK, NEW p \in Packets, ReceiveYRush(p)
    PROVE  ClientTalks
<1>0. UNCHANGED toTrainer => ClientTalks
  BY DEF ClientTalks
<1> USE DEF SequencerTypeOK, AnySession
<1>1. CASE StartEpisode(p)
  <2>1. /\ EpisodeReady(session, pendingArm) \in OtherFrames
        /\ Observation(session, pendingArm, 0, 0, FALSE) \in OtherFrames
    BY FrameTypes
  <2>2. <<EpisodeReady(session, pendingArm), Observation(session, pendingArm, 0, 0, FALSE)>>
            \in Seq(OtherFrames)
    BY <2>1, PairsAreSequences
  <2> QED BY <1>1, <2>2 DEF StartEpisode, ClientTalks
<1>2. CASE FinishEpisode(p)
  <2>1. p.phase = "ACTIVE" \/ p.phase = "ROUND_COMPLETE"
    BY <1>2 DEF FinishEpisode, PlayerEliminated, RoundCompleted
  <2>2. Ending(p) \in Outcomes
    BY <2>1 DEF Ending, Packets, Outcomes
  <2>3. /\ Observation(session, activeArm, obsSeq, actSeq, TRUE) \in OtherFrames
        /\ Result(session, activeArm, obsSeq, Ending(p)) \in OtherFrames
    BY <2>2, FrameTypes
  <2>4. EndFrames(p) \in Seq(OtherFrames)
    BY <2>3, PairsAreSequences DEF EndFrames
  <2> QED BY <1>2, <2>4 DEF FinishEpisode, ClientTalks
<1>3. CASE RefusePacket(p)
  BY <1>3, ReportTalks DEF RefusePacket
<1>4. CASE StartEpisodeUnsent(p) \/ FinishEpisodeUnsent(p) \/ CleanUp(p) \/ FollowRound(p)
  BY <1>0, <1>4 DEF StartEpisodeUnsent, FinishEpisodeUnsent, CleanUp, FollowRound
<1> QED BY <1>1, <1>2, <1>3, <1>4 DEF ReceiveYRush

\* A client's own step, whatever its thread does.
ClientNext ==
    ListenerNext \/ TaskNext \/ TickNext \/ JoinNext \/ LossNext \/ DisconnectNext \/ StopNext
        \/ ServerNext

\* Every step of the client extends what it has sent as ClientTalks allows, and
\* leaves the trainer alone.
LEMMA StepTalks ==
    ASSUME SequencerTypeOK, ServerTypeOK, ClientNext
    PROVE  ClientTalks /\ UNCHANGED trainerVars
<1>0. UNCHANGED toTrainer => ClientTalks
  BY DEF ClientTalks
<1> USE DEF KeepOutsideClient
<1>1. CASE ListenerNext \/ LossNext \/ StopNext
  BY <1>0, <1>1 DEF ListenerNext, Listener, Accept, AnnounceConnected, ReadFrame, PeerLost,
                    AnnounceDisconnected, wireVars, LossNext, PaperLost, StopNext, ShutdownClient
<1>2. CASE TaskNext
  BY <1>2, TaskTalks DEF TaskNext
<1>3. CASE TickNext
  BY <1>3, TickTalks DEF TickNext
<1>4. CASE JoinNext
  BY <1>4, BeginTalks DEF JoinNext, JoinedPaper
<1>5. CASE DisconnectNext
  BY <1>5, ReportTalks DEF DisconnectNext, DisconnectedPaper
<1>6. CASE ServerNext
  BY <1>0, <1>6, ServerSteps, PacketTalks DEF wireVars
<1> QED BY <1>1, <1>2, <1>3, <1>4, <1>5, <1>6 DEF ClientNext

-----------------------------------------------------------------------------
(* The queue of tasks and the connections behind it *)

queueVars == <<acceptor, tasks, backlog, peer, dials>>

TaskTaken ==
    /\ tasks # <<>>
    /\ tasks' = Tail(tasks)
    /\ UNCHANGED <<acceptor, backlog, peer, dials>>

ConnectionDialled ==
    /\ dials' = dials + 1
    /\ backlog' = Append(backlog, dials + 1)
    /\ UNCHANGED <<acceptor, tasks, peer>>

ServerClosed ==
    /\ acceptor' = "stopped"
    /\ backlog' = <<>>
    /\ peer' = 0
    /\ UNCHANGED <<tasks, dials>>

QueueMoves ==
    \/ Listener /\ UNCHANGED dials
    \/ TaskTaken
    \/ ConnectionDialled
    \/ ServerClosed
    \/ UNCHANGED queueVars

\* What a step does to them.
LEMMA StepQueues == ASSUME ServerTypeOK, [BridgeNext]_bridgeVars PROVE QueueMoves
<1>0. UNCHANGED queueVars => QueueMoves
  BY DEF QueueMoves
<1> USE DEF KeepOutsideClient, KeepOutsideTrainer, trainerVars, wireVars, clientVars, queueVars
<1>1. CASE ListenerNext
  BY <1>1 DEF ListenerNext, QueueMoves
<1>2. CASE TaskNext
  BY <1>2 DEF TaskNext, HandleTask, HandleConnected, HandleStaleMessage, HandleArm, HandleAction,
              HandleShutdown, HandleDisconnected, TakeTask, QueueMoves, TaskTaken
<1>3. CASE TickNext
  <2>1. KeepOutsideTick
    BY <1>3 DEF TickNext, ClientTick, TickMissesDeadline, TickWaits, TickBegins,
                TickBeginsOffline, TickHolds, TickCompletes, TickCompletesUnsent
  <2> QED BY <1>0, <1>3, <2>1 DEF TickNext, KeepOutsideTick
<1>4. CASE JoinNext \/ LossNext \/ DisconnectNext
  BY <1>0, <1>4 DEF JoinNext, JoinedPaper, LossNext, PaperLost, DisconnectNext, DisconnectedPaper
<1>5. CASE StopNext
  BY <1>5 DEF StopNext, ShutdownClient, CloseServer, QueueMoves, ServerClosed
<1>6. CASE DialNext
  BY <1>6 DEF DialNext, Dial, QueueMoves, ConnectionDialled
<1>7. CASE ReceiveNext
  BY <1>0, <1>7 DEF ReceiveNext, TrainerReceives, ReceiveHello, ReceiveReady, ReceiveEpisodeReady,
         ReceiveInitialObservation, ReceiveApplied, ReceiveNextObservation,
         ReceiveTerminalObservation, ReceiveResult, ReceiveUnexpected, ReceiveEnd, Receive,
         CloseAfterFailure
<1>8. CASE ActNext
  BY <1>0, <1>8 DEF ActNext, TrainerActs, CloseLawfully, TrainerRestarts, Timeout, TrainerGone,
         CloseAfterFailure, Arm, Answer
<1>9. CASE ServerNext
  <2>1. UNCHANGED trainerVars
    BY <1>9, ServerSteps
  <2>2. CASE UNCHANGED <<seqVars, wireVars, clientVars>>
    BY <1>0, <2>1, <2>2
  <2>3. CASE \E p \in Packets : ReceiveYRush(p)
    BY <1>0, <2>1, <2>3 DEF ReceiveYRush, KeepOutsidePacket
  <2> QED BY <1>9, <2>2, <2>3, ServerSteps
<1>10. CASE UNCHANGED bridgeVars
  BY <1>0, <1>10 DEF bridgeVars
<1> QED BY <1>1, <1>2, <1>3, <1>4, <1>5, <1>6, <1>7, <1>8, <1>9, <1>10 DEF BridgeNext

-----------------------------------------------------------------------------
(* Types *)

\* A connection that is closed or new.
LEMMA FreshTypes ==
    ASSUME FreshConnection, trainer' \in {"closed", "hello", "failed"}
    PROVE  TrainerTypeOK'
  BY DEF FreshConnection, TrainerTypeOK, NoRequest, NoAnswer

\* What the trainer sends: every number in it is one that the client knows.
LEMMA RequestTypes ==
    ASSUME TrainerTypeOK
    PROVE  /\ trainer \in {"idle", "deciding"} => ShutdownFrame(tSession) \in TrainerFrames
           /\ \A r \in TrainerRounds, v \in TrainerPolicies :
                trainer = "idle" =>
                    /\ [request |-> 1, round |-> r, policy |-> v] \in Arms
                    /\ ArmFrame(tSession, [request |-> 1, round |-> r, policy |-> v])
                            \in TrainerFrames
           /\ Answer =>
                /\ answered' \in Actions
                /\ ActionFrame(tSession, answered') \in TrainerFrames
<1>1. trainer \in {"idle", "deciding"} => ShutdownFrame(tSession) \in TrainerFrames
  BY DEF TrainerTypeOK, ShutdownFrame, TrainerFrames
<1>2. ASSUME NEW r \in TrainerRounds, NEW v \in TrainerPolicies, trainer = "idle"
      PROVE  /\ [request |-> 1, round |-> r, policy |-> v] \in Arms
             /\ ArmFrame(tSession, [request |-> 1, round |-> r, policy |-> v]) \in TrainerFrames
  <2>1. 1 \in Requests /\ r \in Rounds /\ v \in Policies
    BY BridgeAssumption
  <2>2. PICK a : a = [request |-> 1, round |-> r, policy |-> v]
    OBVIOUS
  <2>3. a \in Arms
    BY <2>1, <2>2 DEF Arms
  <2>4. ArmFrame(tSession, a) \in TrainerFrames
    BY <1>2, <2>3 DEF TrainerTypeOK, ArmFrame, TrainerFrames
  <2> QED BY <2>2, <2>3, <2>4
<1>3. ASSUME Answer
      PROVE  answered' \in Actions /\ ActionFrame(tSession, answered') \in TrainerFrames
  <2>1. armedRound \in Arms /\ tSession \in Sessions
    BY <1>3 DEF Answer, TrainerTypeOK
  <2>2. armedRound.round \in Rounds /\ armedRound.policy \in Policies
    BY <2>1 DEF Arms
  <2>3. answered.act \in 0..MaxActions
    BY <1>3, TrainerAssumption DEF Answer, TrainerTypeOK
  <2>4. answered.act \in 0..(MaxActions + 1) /\ answered.act + 1 \in 0..(MaxActions + 1)
    BY <2>3, TrainerAssumption
  <2>5. answered.act \in Sequences /\ answered.act + 1 \in Sequences
    BY <2>4, BridgeAssumption
  <2>6. answered' \in Actions
    BY <1>3, <2>2, <2>5 DEF Answer, Actions
  <2>7. PICK x \in Actions : x = answered'
    BY <2>6
  <2>8. ActionFrame(tSession, x) \in TrainerFrames
    BY <2>1 DEF ActionFrame, TrainerFrames
  <2> QED BY <2>6, <2>7, <2>8
<1> QED BY <1>1, <1>2, <1>3

TrainerNext == ReceiveNext \/ DialNext \/ ActNext

\* The first message on the wire.
LEMMA MessageTypes ==
    ASSUME toTrainer \in Seq(ClientFrames), toTrainer # <<>>
    PROVE  /\ Message \in ClientFrames
           /\ Message = toTrainer[1]
           /\ Tail(toTrainer) \in Seq(ClientFrames)
           /\ Message.type = "connection_hello" => Message.session \in Sessions
<1>1. Message \in ClientFrames /\ Message = toTrainer[1] /\ Tail(toTrainer) \in Seq(ClientFrames)
  BY DEF Message
<1>2. \A f \in ClientFrames : f.type = "connection_hello" => f.session \in Sessions
  BY DEF ClientFrames, OtherFrames, Acknowledgements
<1> QED BY <1>1, <1>2

\* The trainer's own steps keep its types, and those of what it sends and takes.
LEMMA TrainerTypes ==
    ASSUME WireTypeOK, TrainerTypeOK, TrainerNext
    PROVE  /\ TrainerTypeOK'
           /\ toTrainer' \in Seq(ClientFrames)
           /\ toClient' \in Seq(TrainerFrames)
           /\ openConn' \in Nat
<1> DEFINE Wired == /\ toTrainer' \in Seq(ClientFrames)
                    /\ toClient' \in Seq(TrainerFrames)
                    /\ openConn' \in Nat
<1> USE DEF WireTypeOK
<1>1. <<>> \in Seq(ClientFrames) /\ dials + 1 \in Nat /\ 0 \in Nat
  OBVIOUS
<1>2. ASSUME NEW f \in TrainerFrames, TrainerWrites(f) PROVE toClient' \in Seq(TrainerFrames)
  <2>1. Append(toClient, f) \in Seq(TrainerFrames)
    OBVIOUS
  <2> QED BY <1>2, <2>1 DEF TrainerWrites
<1>3. ASSUME CloseAfterFailure PROVE TrainerTypeOK' /\ Wired
  <2>1. TrainerTypeOK'
    BY <1>3, FreshTypes DEF CloseAfterFailure
  <2> QED BY <1>1, <1>3, <2>1 DEF CloseAfterFailure
<1>4. ASSUME NEW type, Receive(type)
      PROVE  Wired /\ toTrainer # <<>> /\ Message.type = type
  BY <1>4, MessageTypes DEF Receive
<1>5. CASE ReceiveNext
  <2>1. CASE ReceiveHello
    <3>1. Wired /\ tSession' \in Sessions
      BY <1>4, <2>1, MessageTypes DEF ReceiveHello
    <3> QED BY <2>1, <3>1 DEF ReceiveHello, TrainerTypeOK
  <2>2. CASE ReceiveReady
    <3>1. Wired
      BY <1>4, <2>2 DEF ReceiveReady
    <3> QED BY <2>2, <3>1 DEF ReceiveReady, TrainerTypeOK
  <2>3. CASE ReceiveEpisodeReady
    <3>1. Wired
      BY <1>4, <2>3 DEF ReceiveEpisodeReady
    <3> QED BY <2>3, <3>1 DEF ReceiveEpisodeReady, TrainerTypeOK
  <2>4. CASE ReceiveInitialObservation
    <3>1. Wired
      BY <1>4, <2>4 DEF ReceiveInitialObservation
    <3> QED BY <2>4, <3>1 DEF ReceiveInitialObservation, TrainerTypeOK, NoAnswer
  <2>5. CASE ReceiveApplied
    <3>1. Wired
      BY <1>4, <2>5 DEF ReceiveApplied
    <3> QED BY <2>5, <3>1 DEF ReceiveApplied, TrainerTypeOK
  <2>6. ASSUME NEW b \in BOOLEAN, trainer = "stepping", StepReturns(b) PROVE TrainerTypeOK'
    BY <2>6 DEF StepReturns, TrainerTypeOK
  <2>7. CASE ReceiveNextObservation
    BY <1>4, <2>6, <2>7 DEF ReceiveNextObservation
  <2>8. CASE ReceiveTerminalObservation
    <3>1. Wired /\ trainer = "stepping"
      BY <1>4, <2>8 DEF ReceiveTerminalObservation
    <3>2. CASE StepReturns(TRUE)
      BY <2>6, <3>1, <3>2
    <3>3. CASE UNCHANGED <<trainer, tSession, armedRound, answered, applied>>
      BY <3>1, <3>3 DEF TrainerTypeOK
    <3> QED BY <2>8, <3>2, <3>3 DEF ReceiveTerminalObservation
  <2>9. CASE ReceiveResult
    <3>1. Wired /\ trainer = "stepping"
      BY <1>4, <2>9 DEF ReceiveResult
    <3>2. CASE StepReturns(TRUE)
      BY <2>6, <3>1, <3>2
    <3>3. CASE UNCHANGED <<trainer, tSession, armedRound, answered, applied>>
      BY <3>1, <3>3 DEF TrainerTypeOK
    <3> QED BY <2>9, <3>2, <3>3 DEF ReceiveResult
  <2>10. CASE ReceiveUnexpected \/ ReceiveEnd
    BY <1>3, <2>10 DEF ReceiveUnexpected, ReceiveEnd
  <2> QED BY <1>5, <2>1, <2>2, <2>3, <2>4, <2>5, <2>7, <2>8, <2>9, <2>10
          DEF ReceiveNext, TrainerReceives
<1>6. CASE DialNext
  <2>1. TrainerTypeOK'
    BY <1>6, FreshTypes DEF DialNext, Dial
  <2> QED BY <1>1, <1>6, <2>1 DEF DialNext, Dial
<1>7. CASE ActNext
  <2>1. CASE CloseLawfully
    <3>1. TrainerTypeOK'
      BY <2>1, FreshTypes DEF CloseLawfully
    <3>2. toClient' \in Seq(TrainerFrames)
      BY <1>2, <2>1, RequestTypes DEF CloseLawfully
    <3> QED BY <1>1, <2>1, <3>1, <3>2 DEF CloseLawfully
  <2>2. CASE TrainerRestarts
    BY <2>2 DEF TrainerRestarts, TrainerTypeOK, wireVars
  <2>3. CASE Timeout
    BY <1>3, <2>3 DEF Timeout
  <2>4. CASE TrainerGone
    <3>1. TrainerTypeOK'
      BY <2>4, FreshTypes DEF TrainerGone
    <3> QED BY <1>1, <2>4, <3>1 DEF TrainerGone
  <2>5. ASSUME NEW r \in TrainerRounds, NEW v \in TrainerPolicies, Arm(r, v)
        PROVE  TrainerTypeOK' /\ Wired
    <3>1. armedRound' \in Arms /\ toClient' \in Seq(TrainerFrames)
      BY <1>2, <2>5, RequestTypes DEF Arm
    <3>2. armedRound'.round \in Nat
      BY <3>1, ArmNumbers
    <3> QED BY <2>5, <3>1, <3>2 DEF Arm, TrainerTypeOK
  <2>6. CASE Answer
    <3>1. answered' \in Actions /\ toClient' \in Seq(TrainerFrames)
      BY <1>2, <2>6, RequestTypes DEF Answer
    <3>2. answered'.obs \in Nat /\ answered'.act \in Nat
      BY <3>1, SequencerAssumption DEF Actions
    <3> QED BY <2>6, <3>1, <3>2 DEF Answer, TrainerTypeOK
  <2> QED BY <1>7, <2>1, <2>2, <2>3, <2>4, <2>5, <2>6 DEF ActNext, TrainerActs
<1> QED BY <1>5, <1>6, <1>7 DEF TrainerNext

\* What a step of the client leaves of the frames that the trainer wrote.
LEMMA ClientReads ==
    ASSUME ServerTypeOK, ClientNext
    PROVE  /\ UNCHANGED openConn
           /\ toClient' \in {toClient, <<>>} \/ (toClient # <<>> /\ toClient' = Tail(toClient))
<1> USE DEF KeepOutsideClient, wireVars
<1>1. CASE ListenerNext
  BY <1>1 DEF ListenerNext, Listener, Accept, AnnounceConnected, ReadFrame, PeerLost,
              AnnounceDisconnected
<1>2. CASE TaskNext
  BY <1>2 DEF TaskNext, HandleTask, HandleConnected, HandleStaleMessage, HandleArm, HandleAction,
              HandleShutdown, HandleDisconnected, TakeTask
<1>3. CASE TickNext
  <2>1. KeepOutsideTick
    BY <1>3 DEF TickNext, ClientTick, TickMissesDeadline, TickWaits, TickBegins,
                TickBeginsOffline, TickHolds, TickCompletes, TickCompletesUnsent
  <2> QED BY <2>1 DEF KeepOutsideTick
<1>4. CASE JoinNext \/ LossNext \/ DisconnectNext \/ StopNext
  BY <1>4 DEF JoinNext, JoinedPaper, LossNext, PaperLost, DisconnectNext, DisconnectedPaper,
              StopNext, ShutdownClient, CloseServer
<1>5. CASE ServerNext
  BY <1>5, ServerSteps DEF ReceiveYRush, KeepOutsidePacket
<1> QED BY <1>1, <1>2, <1>3, <1>4, <1>5 DEF ClientNext

\* The queues keep their types.
LEMMA QueueTypes ==
    ASSUME WireTypeOK, QueueMoves
    PROVE  /\ backlog' \in Seq(Nat) /\ peer' \in Nat /\ dials' \in Nat
           /\ tasks' \in Seq(Tasks)
<1> USE DEF WireTypeOK
<1>1. ASSUME NEW t \in Tasks, QueueTask(t) PROVE tasks' \in Seq(Tasks)
  BY <1>1 DEF QueueTask
<1>2. CASE Accept /\ UNCHANGED dials
  BY <1>2 DEF Accept
<1>3. CASE AnnounceConnected /\ UNCHANGED dials
  <2>1. [kind |-> "connected", conn |-> peer] \in Tasks
    BY DEF Tasks, Connecteds
  <2> QED BY <1>1, <1>3, <2>1 DEF AnnounceConnected, wireVars
<1>4. CASE ReadFrame /\ UNCHANGED dials
  <2>1. Head(toClient) \in TrainerFrames
    BY <1>4 DEF ReadFrame
  <2>2. [kind |-> "message", conn |-> peer, frame |-> Head(toClient)] \in Tasks
    BY <2>1 DEF Tasks, Messages
  <2> QED BY <1>1, <1>4, <2>2 DEF ReadFrame
<1>5. CASE PeerLost /\ UNCHANGED dials
  BY <1>5 DEF PeerLost
<1>6. CASE AnnounceDisconnected /\ UNCHANGED dials
  <2>1. [kind |-> "disconnected"] \in Tasks
    BY DEF Tasks
  <2> QED BY <1>1, <1>6, <2>1 DEF AnnounceDisconnected, wireVars
<1>7. CASE TaskTaken
  BY <1>7 DEF TaskTaken
<1>8. CASE ConnectionDialled
  BY <1>8 DEF ConnectionDialled
<1>9. CASE ServerClosed
  BY <1>9 DEF ServerClosed
<1>10. CASE UNCHANGED queueVars
  BY <1>10 DEF queueVars
<1> QED BY <1>2, <1>3, <1>4, <1>5, <1>6, <1>7, <1>8, <1>9, <1>10 DEF QueueMoves, Listener

\* What the client writes are frames.
LEMMA TalkTypes ==
    ASSUME SequencerTypeOK, WireTypeOK, ClientTalks
    PROVE  toTrainer' \in Seq(ClientFrames)
<1> USE DEF WireTypeOK
<1>1. OtherFrames \subseteq ClientFrames
  BY DEF ClientFrames
<1>2. ASSUME NEW fs \in Seq(ClientFrames), ClientWrites(fs) PROVE toTrainer' \in Seq(ClientFrames)
  <2>1. toTrainer \o fs \in Seq(ClientFrames)
    OBVIOUS
  <2> QED BY <1>2, <2>1 DEF ClientWrites
<1>3. CASE \E fs \in Seq(OtherFrames) : ClientWrites(fs)
  <2>1. PICK fs \in Seq(OtherFrames) : ClientWrites(fs)
    BY <1>3
  <2>2. fs \in Seq(ClientFrames)
    BY <1>1
  <2> QED BY <1>2, <2>1, <2>2
<1>4. CASE ClientWrites(HeldFrames)
  <2>1. session \in AnySession /\ activeArm \in Arms \cup {NoArm} /\ actSeq + 1 \in Nat
        /\ runningAction \in Actions \cup {NoAction}
    BY DEF SequencerTypeOK, AnySession
  <2>2. /\ Applied(session, runningAction) \in ClientFrames
        /\ Observation(session, activeArm, actSeq + 1, actSeq + 1, FALSE) \in ClientFrames
    BY <2>1, FrameTypes DEF ClientFrames
  <2>3. HeldFrames \in Seq(ClientFrames)
    BY <2>2, PairsAreSequences DEF HeldFrames
  <2> QED BY <1>2, <1>4, <2>3
<1> QED BY <1>3, <1>4 DEF ClientTalks

\* The wire and the trainer keep their types.
LEMMA StepWireTypes ==
    ASSUME SequencerTypeOK, BridgeTypeOK, [BridgeNext]_bridgeVars
    PROVE  WireTypeOK' /\ TrainerTypeOK' /\ ServerTypeOK'
<1> USE DEF BridgeTypeOK
<1>1. backlog' \in Seq(Nat) /\ peer' \in Nat /\ dials' \in Nat /\ tasks' \in Seq(Tasks)
  BY StepQueues, QueueTypes
<1>2. CASE ClientNext
  <2>1. toTrainer' \in Seq(ClientFrames) /\ UNCHANGED trainerVars
    BY <1>2, StepTalks, TalkTypes
  <2>0. /\ <<>> \in Seq(TrainerFrames)
        /\ toClient # <<>> => Tail(toClient) \in Seq(TrainerFrames)
    BY DEF WireTypeOK
  <2>2. openConn' \in Nat /\ toClient' \in Seq(TrainerFrames)
    BY <1>2, <2>0, ClientReads DEF WireTypeOK
  <2>3. WireTypeOK'
    BY <1>1, <2>1, <2>2 DEF WireTypeOK
  <2>4. TrainerTypeOK'
    BY <2>1 DEF trainerVars, TrainerTypeOK
  <2>5. ServerNext \/ UNCHANGED serverVars
    BY <1>2 DEF ClientNext, ListenerNext, TaskNext, TickNext, JoinNext, LossNext, DisconnectNext,
                StopNext, KeepOutsideClient
  <2>6. ServerTypeOK'
    BY <2>5, ServerSteps DEF serverVars, ServerTypeOK
  <2> QED BY <2>3, <2>4, <2>6
<1>3. CASE TrainerNext
  <2>1. TrainerTypeOK' /\ WireTypeOK'
    BY <1>1, <1>3, TrainerTypes DEF WireTypeOK
  <2>2. UNCHANGED serverVars
    BY <1>3 DEF TrainerNext, ReceiveNext, DialNext, ActNext, KeepOutsideTrainer
  <2>3. ServerTypeOK'
    BY <2>2 DEF serverVars, ServerTypeOK
  <2> QED BY <2>1, <2>3
<1>4. CASE UNCHANGED bridgeVars
  <2>1. TrainerTypeOK' /\ ServerTypeOK'
    BY <1>4 DEF bridgeVars, trainerVars, serverVars, TrainerTypeOK, ServerTypeOK
  <2>2. UNCHANGED <<toTrainer, toClient, openConn>>
    BY <1>4 DEF bridgeVars, wireVars
  <2> QED BY <1>1, <2>1, <2>2 DEF WireTypeOK
<1> QED BY <1>2, <1>3, <1>4 DEF BridgeNext, ClientNext, TrainerNext

-----------------------------------------------------------------------------
(* The order of connections *)

\* A sequence with one more element, and one with one less.
LEMMA AppendTail ==
    ASSUME NEW S, NEW s \in Seq(S), NEW e \in S
    PROVE  /\ DOMAIN Append(s, e) = 1..(Len(s) + 1)
           /\ \A i \in DOMAIN s : Append(s, e)[i] = s[i]
           /\ Append(s, e)[Len(s) + 1] = e
           /\ DOMAIN s = 1..Len(s) /\ Len(s) \in Nat
           /\ s # <<>> =>
                /\ Head(s) = s[1] /\ 1 \in DOMAIN s
                /\ DOMAIN Tail(s) = 1..(Len(s) - 1)
                /\ \A i \in 1..(Len(s) - 1) : i + 1 \in DOMAIN s /\ Tail(s)[i] = s[i + 1]
<1>1. DOMAIN s = 1..Len(s) /\ Len(s) \in Nat
  OBVIOUS
<1>2. /\ Append(s, e) \in Seq(S) /\ Len(Append(s, e)) = Len(s) + 1
      /\ \A i \in 1..Len(s) : Append(s, e)[i] = s[i]
      /\ Append(s, e)[Len(s) + 1] = e
  BY AppendProperties
<1>3. DOMAIN Append(s, e) = 1..(Len(s) + 1)
  BY <1>2
<1>4. ASSUME s # <<>>
      PROVE  /\ Head(s) = s[1] /\ 1 \in DOMAIN s
             /\ DOMAIN Tail(s) = 1..(Len(s) - 1)
             /\ \A i \in 1..(Len(s) - 1) : i + 1 \in DOMAIN s /\ Tail(s)[i] = s[i + 1]
  <2>1. Len(s) > 0
    BY <1>4, EmptySeq
  <2>2. Tail(s) \in Seq(S) /\ Len(Tail(s)) = Len(s) - 1
        /\ \A i \in 1..Len(Tail(s)) : Tail(s)[i] = s[i + 1]
    BY <1>4, HeadTailProperties
  <2>3. DOMAIN Tail(s) = 1..(Len(s) - 1)
    BY <2>2
  <2>4. \A i \in 1..(Len(s) - 1) : i + 1 \in DOMAIN s /\ Tail(s)[i] = s[i + 1]
    BY <1>1, <2>1, <2>2
  <2> QED BY <1>1, <2>1, <2>3, <2>4
<1> QED BY <1>1, <1>2, <1>3, <1>4

\* Connections are accepted one at a time, in their order, and a connection that
\* has just been accepted is not one that a queued task is about.
LEMMA StepOrder ==
    ASSUME WireTypeOK, PeerOfAcceptor, ConnectionsInOrder, QueueMoves
    PROVE  PeerOfAcceptor' /\ ConnectionsInOrder'
<1> USE DEF WireTypeOK, PeerOfAcceptor, ConnectionsInOrder
<1>1. /\ dials \in Nat /\ peer \in Nat
      /\ \A i \in DOMAIN backlog : backlog[i] \in Nat
      /\ \A k \in DOMAIN tasks : About(tasks[k]) => tasks[k].conn \in Nat
  BY DEF Tasks, Connecteds, Messages, About
<1>2. CASE Accept /\ UNCHANGED dials
  <2>1. /\ peer' = backlog[1] /\ 1 \in DOMAIN backlog /\ backlog' = Tail(backlog)
        /\ DOMAIN backlog' = 1..(Len(backlog) - 1) /\ Len(backlog) \in Nat
        /\ \A i \in DOMAIN backlog' : i + 1 \in DOMAIN backlog /\ backlog'[i] = backlog[i + 1]
    BY <1>2, AppendTail DEF Accept
  <2>2. peer' > 0 /\ peer' <= dials /\ peer' # 0
    BY <1>1, <2>1
  <2>3. UNCHANGED <<tasks, dials>> /\ acceptor' = "accepted"
    BY <1>2 DEF Accept
  <2>4. PeerOfAcceptor'
    BY <2>2, <2>3
  <2>5. \A i \in DOMAIN backlog' : peer' < backlog'[i] /\ backlog'[i] <= dials'
    BY <1>1, <2>1, <2>3
  <2>6. \A i, j \in DOMAIN backlog' : i < j => backlog'[i] < backlog'[j]
    BY <1>1, <2>1
  <2>7. \A k \in DOMAIN tasks : About(tasks[k]) =>
            /\ tasks[k].conn < peer'
            /\ \A i \in DOMAIN backlog' : tasks[k].conn < backlog'[i]
    BY <2>1
  <2>8. \A k \in DOMAIN tasks : About(tasks[k]) => tasks[k].conn # peer'
    BY <1>1, <2>1, <2>7
  <2>9. ConnectionsInOrder'
    BY <2>2, <2>3, <2>5, <2>6, <2>7, <2>8 DEF About
  <2> QED BY <2>4, <2>9
<1>3. ASSUME NEW t \in Tasks, QueueTask(t), UNCHANGED <<backlog, peer, dials>>, acceptor' # "accepted",
             About(t) => t.conn = peer /\ peer # 0
      PROVE  ConnectionsInOrder'
  <2>1. /\ DOMAIN tasks' = 1..(Len(tasks) + 1) /\ DOMAIN tasks = 1..Len(tasks) /\ Len(tasks) \in Nat
        /\ \A k \in DOMAIN tasks : tasks'[k] = tasks[k]
        /\ tasks'[Len(tasks) + 1] = t
    BY <1>3, AppendTail DEF QueueTask
  <2>2. \A k \in DOMAIN tasks' : About(tasks'[k]) =>
            /\ tasks'[k].conn > 0 /\ tasks'[k].conn <= dials
            /\ \A i \in DOMAIN backlog : tasks'[k].conn < backlog[i]
    <3> SUFFICES ASSUME NEW k \in DOMAIN tasks', About(tasks'[k])
                 PROVE  /\ tasks'[k].conn > 0 /\ tasks'[k].conn <= dials
                        /\ \A i \in DOMAIN backlog : tasks'[k].conn < backlog[i]
      OBVIOUS
    <3>1. CASE k \in DOMAIN tasks
      <4>1. tasks'[k] = tasks[k]
        BY <2>1, <3>1
      <4> QED BY <3>1, <4>1
    <3>2. CASE k = Len(tasks) + 1
      <4>1. tasks'[k] = t /\ t.conn = peer /\ peer # 0
        BY <1>3, <2>1, <3>2
      <4>2. peer > 0 /\ peer <= dials /\ \A i \in DOMAIN backlog : peer < backlog[i]
        BY <1>1, <4>1
      <4> QED BY <4>1, <4>2
    <3>3. k \in DOMAIN tasks \/ k = Len(tasks) + 1
      BY <2>1
    <3> QED BY <3>1, <3>2, <3>3
  <2> QED BY <1>3, <2>2 DEF About
<1>4. CASE AnnounceConnected /\ UNCHANGED dials
  <2> DEFINE t == [kind |-> "connected", conn |-> peer]
  <2>1. t \in Tasks /\ t.conn = peer /\ peer # 0
    BY <1>4 DEF Tasks, Connecteds, AnnounceConnected
  <2> QED BY <1>3, <1>4, <2>1 DEF AnnounceConnected, wireVars
<1>5. CASE ReadFrame /\ UNCHANGED dials
  <2> DEFINE t == [kind |-> "message", conn |-> peer, frame |-> Head(toClient)]
  <2>1. Head(toClient) \in TrainerFrames
    BY <1>5 DEF ReadFrame
  <2>2. t \in Tasks /\ t.conn = peer /\ peer # 0
    BY <1>5, <2>1 DEF Tasks, Messages, ReadFrame
  <2> QED BY <1>3, <1>5, <2>2 DEF ReadFrame
<1>6. CASE PeerLost /\ UNCHANGED dials
  <2>1. peer' = 0 /\ acceptor' = "lost" /\ UNCHANGED <<backlog, tasks, dials>>
    BY <1>6 DEF PeerLost
  <2>2. \A i \in DOMAIN backlog : 0 < backlog[i]
    BY <1>1
  <2> QED BY <1>1, <2>1, <2>2 DEF About
<1>7. CASE AnnounceDisconnected /\ UNCHANGED dials
  <2> DEFINE t == [kind |-> "disconnected"]
  <2>1. t \in Tasks /\ ~About(t)
    BY DEF Tasks, About
  <2>2. acceptor = "lost" /\ acceptor' = "accepting" /\ UNCHANGED <<backlog, peer, dials>> /\ QueueTask(t)
    BY <1>7 DEF AnnounceDisconnected, wireVars
  <2>3. ConnectionsInOrder'
    BY <1>3, <2>1, <2>2
  <2> QED BY <2>2, <2>3
<1>8. CASE TaskTaken
  <2>1. /\ DOMAIN tasks' = 1..(Len(tasks) - 1) /\ Len(tasks) \in Nat
        /\ \A k \in DOMAIN tasks' : k + 1 \in DOMAIN tasks /\ tasks'[k] = tasks[k + 1]
    BY <1>8, AppendTail DEF TaskTaken
  <2>2. UNCHANGED <<acceptor, backlog, peer, dials>>
    BY <1>8 DEF TaskTaken
  <2> QED BY <2>1, <2>2 DEF About
<1>9. CASE ConnectionDialled
  <2>1. /\ DOMAIN backlog' = 1..(Len(backlog) + 1) /\ DOMAIN backlog = 1..Len(backlog)
        /\ \A i \in DOMAIN backlog : backlog'[i] = backlog[i]
        /\ backlog'[Len(backlog) + 1] = dials + 1 /\ Len(backlog) \in Nat
    BY <1>1, <1>9, AppendTail DEF ConnectionDialled
  <2>2. UNCHANGED <<acceptor, tasks, peer>> /\ dials' = dials + 1
    BY <1>9 DEF ConnectionDialled
  <2>6. \A i \in DOMAIN backlog' :
            \/ i \in DOMAIN backlog /\ backlog'[i] = backlog[i]
            \/ i = Len(backlog) + 1 /\ backlog'[i] = dials + 1
    BY <2>1
  <2>7. ASSUME NEW n \in Nat, n <= dials, \A i \in DOMAIN backlog : n < backlog[i]
        PROVE  n <= dials' /\ \A i \in DOMAIN backlog' : n < backlog'[i]
    <3>1. n <= dials' /\ n < dials + 1
      BY <1>1, <2>2, <2>7
    <3>2. ASSUME NEW i \in DOMAIN backlog' PROVE n < backlog'[i]
      <4>1. CASE i \in DOMAIN backlog /\ backlog'[i] = backlog[i]
        BY <2>7, <4>1
      <4>2. CASE backlog'[i] = dials + 1
        BY <3>1, <4>2
      <4> QED BY <2>6, <4>1, <4>2
    <3> QED BY <3>1, <3>2
  <2>8. peer <= dials' /\ \A i \in DOMAIN backlog' : peer < backlog'[i]
    BY <1>1, <2>7
  <2>9. \A i \in DOMAIN backlog' : backlog'[i] <= dials'
    BY <1>1, <2>2, <2>6
  <2>3. peer' <= dials' /\ \A i \in DOMAIN backlog' : peer' < backlog'[i] /\ backlog'[i] <= dials'
    BY <2>2, <2>8, <2>9
  <2>4. ASSUME NEW i \in DOMAIN backlog', NEW j \in DOMAIN backlog', i < j
        PROVE  backlog'[i] < backlog'[j]
    <3>1. CASE j \in DOMAIN backlog
      <4>1. i \in DOMAIN backlog
        BY <2>1, <2>4, <3>1
      <4>2. backlog[i] < backlog[j]
        BY <2>4, <3>1, <4>1
      <4> QED BY <2>1, <3>1, <4>1, <4>2
    <3>2. CASE j = Len(backlog) + 1
      <4>1. i \in DOMAIN backlog /\ backlog'[i] = backlog[i] /\ backlog'[j] = dials + 1
        BY <2>1, <2>4, <3>2
      <4> QED BY <1>1, <4>1
    <3> QED BY <2>6, <3>1, <3>2
  <2>5. \A k \in DOMAIN tasks : About(tasks[k]) =>
            /\ tasks[k].conn <= dials'
            /\ \A i \in DOMAIN backlog' : tasks[k].conn < backlog'[i]
    BY <1>1, <2>7
  <2> QED BY <2>2, <2>3, <2>4, <2>5 DEF About
<1>10. CASE ServerClosed
  <2>1. DOMAIN backlog' = {} /\ peer' = 0 /\ acceptor' = "stopped" /\ UNCHANGED <<tasks, dials>>
    BY <1>10 DEF ServerClosed
  <2> QED BY <1>1, <2>1 DEF About
<1>11. CASE UNCHANGED queueVars
  BY <1>11 DEF queueVars, About
<1> QED BY <1>2, <1>4, <1>5, <1>6, <1>7, <1>8, <1>9, <1>10, <1>11 DEF QueueMoves, Listener,
       AnnounceConnected, ReadFrame, wireVars

\* A task that is added leaves the announcement where it is.
LEMMA AnnouncedStays ==
    ASSUME WireTypeOK, NEW t \in Tasks, QueueTask(t), UNCHANGED peer,
           NEW d \in Nat, AnnouncedAfter(d)
    PROVE  AnnouncedAfter(d)'
<1>1. /\ DOMAIN tasks' = 1..(Len(tasks) + 1) /\ DOMAIN tasks = 1..Len(tasks) /\ Len(tasks) \in Nat
      /\ \A k \in DOMAIN tasks : tasks'[k] = tasks[k]
  BY AppendTail DEF QueueTask, WireTypeOK
<1>2. PICK j \in DOMAIN tasks : j > d /\ IsConnected(tasks[j]) /\ \A i \in 1..j : ~IsMessage(tasks[i])
  BY DEF AnnouncedAfter
<1>3. j \in DOMAIN tasks' /\ \A i \in 1..j : i \in DOMAIN tasks
  BY <1>1
<1>4. tasks'[j] = tasks[j] /\ \A i \in 1..j : tasks'[i] = tasks[i]
  BY <1>1, <1>3
<1>5. IsConnected(tasks[j])' /\ \A i \in 1..j : ~IsMessage(tasks[i])'
  BY <1>2, <1>4 DEF IsConnected, IsMessage
<1> QED BY <1>2, <1>3, <1>5 DEF AnnouncedAfter

\* When the first task is taken everything moves up.
LEMMA AnnouncedShifts ==
    ASSUME WireTypeOK, TaskTaken, NEW d \in Nat, AnnouncedAfter(d + 1)
    PROVE  AnnouncedAfter(d)'
<1>1. /\ DOMAIN tasks' = 1..(Len(tasks) - 1) /\ DOMAIN tasks = 1..Len(tasks) /\ Len(tasks) \in Nat
      /\ \A k \in DOMAIN tasks' : k + 1 \in DOMAIN tasks /\ tasks'[k] = tasks[k + 1]
  BY AppendTail DEF TaskTaken, WireTypeOK
<1>2. PICK j \in DOMAIN tasks :
        j > d + 1 /\ IsConnected(tasks[j]) /\ \A i \in 1..j : ~IsMessage(tasks[i])
  BY DEF AnnouncedAfter
<1>3. j - 1 \in DOMAIN tasks' /\ j - 1 > d /\ tasks'[j - 1] = tasks[j]
  BY <1>1, <1>2
<1>4. \A i \in 1..(j - 1) : i + 1 \in 1..j /\ i \in DOMAIN tasks' /\ tasks'[i] = tasks[i + 1]
  BY <1>1, <1>2
<1>5. UNCHANGED peer
  BY DEF TaskTaken
<1>6. IsConnected(tasks[j - 1])' /\ \A i \in 1..(j - 1) : ~IsMessage(tasks[i])'
  BY <1>2, <1>3, <1>4, <1>5 DEF IsConnected, IsMessage
<1> QED BY <1>3, <1>6 DEF AnnouncedAfter

\* A connection is announced behind whatever is queued, none of it its own.
LEMMA AnnouncedNow ==
    ASSUME WireTypeOK, ConnectionsInOrder, AnnounceConnected, NEW d \in Nat, d <= Len(tasks)
    PROVE  AnnouncedAfter(d)'
<1> DEFINE t == [kind |-> "connected", conn |-> peer]
<1>0. PICK n : n = Len(tasks) + 1
  OBVIOUS
<1>1. t \in Tasks /\ t.kind = "connected" /\ t.conn = peer
  BY DEF Tasks, Connecteds, WireTypeOK
<1>2. tasks' = Append(tasks, t) /\ UNCHANGED peer /\ acceptor = "accepted"
  BY DEF AnnounceConnected, QueueTask, wireVars
<1> HIDE DEF t
<1>3. /\ DOMAIN tasks' = 1..n /\ DOMAIN tasks = 1..Len(tasks) /\ Len(tasks) \in Nat
      /\ \A k \in DOMAIN tasks : tasks'[k] = tasks[k]
      /\ tasks'[n] = t
  BY <1>0, <1>1, <1>2, AppendTail DEF WireTypeOK
<1>4. n \in DOMAIN tasks' /\ n > d
  BY <1>0, <1>3
<1>5. IsConnected(tasks[n])'
  BY <1>1, <1>2, <1>3 DEF IsConnected
<1>6. ASSUME NEW i \in 1..n PROVE ~IsMessage(tasks[i])'
  <2>1. CASE i = n
    BY <1>1, <1>3, <2>1 DEF IsMessage
  <2>2. CASE i \in DOMAIN tasks
    BY <1>2, <1>3, <2>2 DEF IsMessage, ConnectionsInOrder, About
  <2>3. i = n \/ i \in DOMAIN tasks
    BY <1>0, <1>3
  <2> QED BY <2>1, <2>2, <2>3
<1> QED BY <1>4, <1>5, <1>6 DEF AnnouncedAfter

\* The order of the tasks is kept, whichever thread moves.
LEMMA StepDisconnections ==
    ASSUME WireTypeOK, ConnectionsInOrder, DisconnectionsFirst, QueueMoves
    PROVE  DisconnectionsFirst'
<1>0. DOMAIN tasks = 1..Len(tasks) /\ Len(tasks) \in Nat
  BY DEF WireTypeOK
<1>1. CASE AnnounceConnected
  <2> DEFINE t == [kind |-> "connected", conn |-> peer]
  <2>1. t \in Tasks /\ tasks' = Append(tasks, t) /\ t.kind # "disconnected"
    BY <1>1 DEF AnnounceConnected, QueueTask, Tasks, Connecteds, WireTypeOK
  <2> HIDE DEF t
  <2>2. DOMAIN tasks' = 1..(Len(tasks) + 1) /\ tasks'[Len(tasks) + 1] = t
    BY <2>1, AppendTail DEF WireTypeOK
  <2>3. \A d \in DOMAIN tasks' : tasks'[d].kind = "disconnected" => d \in Nat /\ d <= Len(tasks)
    BY <1>0, <2>1, <2>2
  <2>4. \A d \in DOMAIN tasks' : tasks'[d].kind = "disconnected" => AnnouncedAfter(d)'
    BY <1>1, <2>3, AnnouncedNow
  <2> QED BY <2>4 DEF DisconnectionsFirst
<1>2. CASE ReadFrame
  <2> DEFINE t == [kind |-> "message", conn |-> peer, frame |-> Head(toClient)]
  <2>1. Head(toClient) \in TrainerFrames
    BY <1>2 DEF ReadFrame, WireTypeOK
  <2>2. t \in Tasks /\ QueueTask(t) /\ UNCHANGED peer /\ t.kind # "disconnected" /\ acceptor = "reading"
    BY <1>2, <2>1 DEF ReadFrame, Tasks, Messages, WireTypeOK
  <2> HIDE DEF t
  <2>3. /\ DOMAIN tasks' = 1..(Len(tasks) + 1) /\ tasks'[Len(tasks) + 1] = t
        /\ \A k \in DOMAIN tasks : tasks'[k] = tasks[k]
    BY <2>2, AppendTail DEF WireTypeOK, QueueTask
  <2>4. \A d \in DOMAIN tasks' : tasks'[d].kind = "disconnected" =>
            d \in Nat /\ d \in DOMAIN tasks /\ tasks[d].kind = "disconnected"
    BY <1>0, <2>2, <2>3
  <2>5. \A d \in DOMAIN tasks' : tasks'[d].kind = "disconnected" => AnnouncedAfter(d)'
    BY <2>2, <2>4, AnnouncedStays DEF DisconnectionsFirst
  <2> QED BY <2>5 DEF DisconnectionsFirst
<1>3. CASE TaskTaken
  <2>1. /\ DOMAIN tasks' = 1..(Len(tasks) - 1)
        /\ \A k \in DOMAIN tasks' : k + 1 \in DOMAIN tasks /\ tasks'[k] = tasks[k + 1]
    BY <1>3, AppendTail DEF TaskTaken, WireTypeOK
  <2>2. UNCHANGED acceptor /\ \A d \in DOMAIN tasks' : d \in Nat
    BY <1>3, <2>1 DEF TaskTaken
  <2>3. acceptor = "reading" =>
            \A d \in DOMAIN tasks' : tasks'[d].kind = "disconnected" => AnnouncedAfter(d)'
    BY <1>3, <2>1, <2>2, AnnouncedShifts DEF DisconnectionsFirst
  <2> QED BY <2>2, <2>3 DEF DisconnectionsFirst
<1>4. CASE Accept \/ PeerLost \/ AnnounceDisconnected \/ ServerClosed
  <2>1. acceptor' # "reading"
    BY <1>4 DEF Accept, PeerLost, AnnounceDisconnected, ServerClosed
  <2> QED BY <2>1 DEF DisconnectionsFirst
<1>5. CASE ConnectionDialled \/ UNCHANGED queueVars
  BY <1>5 DEF ConnectionDialled, queueVars, DisconnectionsFirst, AnnouncedAfter, IsConnected, IsMessage
<1> QED BY <1>1, <1>2, <1>3, <1>4, <1>5 DEF QueueMoves, Listener

\* A current message at the head of the queue has a session, while on Paper: its
\* connection has been announced, and nothing has ended the session since.
LEMMA CurrentHasSession ==
    ASSUME WireTypeOK, PeerOfAcceptor, ConnectionsInOrder, SessionBeforeMessages,
           tasks # <<>>, Head(tasks).kind = "message", CurrentTask, online = "up"
    PROVE  announced
<1>1. 1 \in DOMAIN tasks /\ Head(tasks) = tasks[1] /\ DOMAIN tasks = 1..Len(tasks) /\ Len(tasks) \in Nat
  BY AppendTail DEF WireTypeOK
<1>2. IsMessage(tasks[1]) /\ About(tasks[1])
  BY <1>1 DEF CurrentTask, IsMessage, About
<1>3. tasks[1].conn > 0 /\ tasks[1].conn = peer
  BY <1>1, <1>2 DEF ConnectionsInOrder, IsMessage
<1>4. acceptor = "reading"
  BY <1>1, <1>2, <1>3 DEF ConnectionsInOrder, PeerOfAcceptor
<1>5. \A j \in DOMAIN tasks : 1 \in 1..j
  BY <1>1
<1>6. ~AnnouncedAfter(0)
  BY <1>2, <1>5 DEF AnnouncedAfter
<1> QED BY <1>4, <1>6 DEF SessionBeforeMessages

\* No session without a connection that has been announced.
LEMMA StepSession ==
    ASSUME BridgeTypeOK, PeerOfAcceptor, ConnectionsInOrder, DisconnectionsFirst,
           SessionBeforeMessages, [BridgeNext]_bridgeVars
    PROVE  SessionBeforeMessages'
<1> USE DEF BridgeTypeOK
<1>0. \A j \in DOMAIN tasks : j \in Nat /\ j > 0
  BY DEF WireTypeOK
<1>1. ASSUME UNCHANGED <<acceptor, tasks, peer, online, announced>>
      PROVE  SessionBeforeMessages'
  BY <1>1 DEF SessionBeforeMessages, AnnouncedAfter, IsConnected, IsMessage
<1>2. CASE ListenerNext
  <2>1. UNCHANGED <<online, announced>> /\ ~stopped
    BY <1>2 DEF ListenerNext, Listener, Accept, AnnounceConnected, ReadFrame, PeerLost,
                AnnounceDisconnected, paperVars, sessionVars
  <2>2. CASE AnnounceConnected
    <3>1. AnnouncedAfter(0)'
      BY <2>2, AnnouncedNow DEF WireTypeOK
    <3> QED BY <3>1 DEF SessionBeforeMessages
  <2>3. CASE ReadFrame
    <3> DEFINE t == [kind |-> "message", conn |-> peer, frame |-> Head(toClient)]
    <3>1. Head(toClient) \in TrainerFrames
      BY <2>3 DEF ReadFrame, WireTypeOK
    <3>2. t \in Tasks /\ QueueTask(t) /\ UNCHANGED peer /\ acceptor = "reading"
      BY <2>3, <3>1 DEF ReadFrame, Tasks, Messages, WireTypeOK
    <3> HIDE DEF t
    <3>3. AnnouncedAfter(0) => AnnouncedAfter(0)'
      BY <3>2, AnnouncedStays
    <3> QED BY <2>1, <3>2, <3>3 DEF SessionBeforeMessages
  <2>4. CASE Accept \/ PeerLost \/ AnnounceDisconnected
    <3>1. acceptor' # "reading"
      BY <2>4 DEF Accept, PeerLost, AnnounceDisconnected
    <3> QED BY <3>1 DEF SessionBeforeMessages
  <2> QED BY <1>2, <2>2, <2>3, <2>4 DEF ListenerNext, Listener
<1>3. CASE TaskNext
  <2>1. TaskTaken /\ UNCHANGED <<acceptor, peer, online>>
    BY <1>3 DEF TaskNext, HandleTask, HandleConnected, HandleStaleMessage, HandleArm, HandleAction,
                HandleShutdown, HandleDisconnected, TakeTask, TaskTaken, paperVars,
                KeepOutsideClient, trainerVars
  <2>2. /\ 1 \in DOMAIN tasks /\ Head(tasks) = tasks[1] /\ DOMAIN tasks = 1..Len(tasks)
        /\ Len(tasks) \in Nat
    BY <2>1, AppendTail DEF WireTypeOK, TaskTaken
  <2>3. AnnouncedAfter(1) => AnnouncedAfter(0)'
    BY <2>1, AnnouncedShifts
  <2>4. ASSUME ~IsConnected(tasks[1]), UNCHANGED announced PROVE SessionBeforeMessages'
    <3>1. \A j \in DOMAIN tasks : IsConnected(tasks[j]) => j > 1
      BY <1>0, <2>4
    <3>2. AnnouncedAfter(0) => AnnouncedAfter(1)
      BY <3>1 DEF AnnouncedAfter
    <3> QED BY <2>1, <2>3, <2>4, <3>2 DEF SessionBeforeMessages
  <2>5. CASE HandleConnected
    <3>1. CASE CurrentTask /\ online = "up" /\ acceptor = "reading"
      <4>1. peer # 0
        BY <3>1 DEF PeerOfAcceptor
      <4>2. SessionBegins \/ SessionNotBegun \/ SessionBeginsUnsent
        BY <2>5, <3>1 DEF HandleConnected
      <4>3. announced'
        BY <4>1, <4>2 DEF SessionBegins, SessionNotBegun, SessionBeginsUnsent, sessionVars
      <4> QED BY <4>3 DEF SessionBeforeMessages
    <3>2. CASE ~(online = "up" /\ acceptor = "reading")
      BY <2>1, <3>2 DEF SessionBeforeMessages
    <3>3. CASE ~CurrentTask /\ online = "up" /\ acceptor = "reading"
      <4>1. ~IsConnected(tasks[1])
        BY <2>2, <3>3 DEF CurrentTask, IsConnected
      <4>2. UNCHANGED announced
        BY <2>5, <3>3 DEF HandleConnected, sessionVars
      <4> QED BY <2>4, <4>1, <4>2
    <3> QED BY <3>1, <3>2, <3>3
  <2>6. CASE HandleStaleMessage \/ HandleArm \/ HandleAction \/ HandleShutdown
    <3>1. UNCHANGED announced /\ Head(tasks).kind = "message"
      BY <2>6 DEF HandleStaleMessage, HandleArm, HandleAction, HandleShutdown, sessionVars, TakeTask
    <3>2. ~IsConnected(tasks[1])
      BY <2>2, <3>1 DEF IsConnected
    <3> QED BY <2>4, <3>1, <3>2
  <2>7. CASE HandleDisconnected
    <3>1. Head(tasks).kind = "disconnected"
      BY <2>7 DEF HandleDisconnected, TakeTask
    <3>2. acceptor = "reading" => AnnouncedAfter(1)
      BY <2>2, <3>1 DEF DisconnectionsFirst
    <3> QED BY <2>1, <2>3, <3>2 DEF SessionBeforeMessages
  <2> QED BY <1>3, <2>5, <2>6, <2>7 DEF TaskNext, HandleTask
<1>4. CASE TickNext
  <2>1. KeepOutsideTick
    BY <1>4 DEF TickNext, ClientTick, TickMissesDeadline, TickWaits, TickBegins,
                TickBeginsOffline, TickHolds, TickCompletes, TickCompletesUnsent
  <2> QED BY <1>1, <2>1 DEF KeepOutsideTick, paperVars, sessionVars
<1>5. CASE JoinNext
  <2>1. UNCHANGED <<acceptor, peer, tasks>>
    BY <1>5 DEF JoinNext, JoinedPaper
  <2>2. announced' \/ peer = 0
    BY <1>5 DEF JoinNext, JoinedPaper, BeginTrainerSession, SessionBegins, SessionNotBegun,
                SessionBeginsUnsent, sessionVars
  <2> QED BY <2>1, <2>2 DEF SessionBeforeMessages, PeerOfAcceptor
<1>6. CASE LossNext \/ DisconnectNext \/ StopNext
  <2>1. online' # "up" \/ acceptor' # "reading"
    BY <1>6 DEF LossNext, PaperLost, DisconnectNext, DisconnectedPaper, StopNext, ShutdownClient
  <2> QED BY <2>1 DEF SessionBeforeMessages
<1>7. CASE TrainerNext
  <2>1. UNCHANGED <<acceptor, tasks, online, announced>>
    BY <1>7 DEF TrainerNext, ReceiveNext, DialNext, ActNext, KeepOutsideTrainer, clientVars,
                paperVars, sessionVars
  <2>2. UNCHANGED peer
    BY <1>7 DEF TrainerNext, ReceiveNext, DialNext, ActNext, Dial, TrainerReceives, ReceiveHello,
         ReceiveReady, ReceiveEpisodeReady, ReceiveInitialObservation, ReceiveApplied,
         ReceiveNextObservation, ReceiveTerminalObservation, ReceiveResult, ReceiveUnexpected,
         ReceiveEnd, Receive, CloseAfterFailure, TrainerActs, CloseLawfully, TrainerRestarts,
         Timeout, TrainerGone, Arm, Answer, wireVars
  <2> QED BY <1>1, <2>1, <2>2
<1>8. CASE ServerNext
  <2>1. UNCHANGED <<acceptor, tasks, peer, online, announced>>
    BY <1>8, ServerSteps DEF ReceiveYRush, KeepOutsidePacket, wireVars, clientVars, paperVars,
                             sessionVars
  <2> QED BY <1>1, <2>1
<1>9. CASE UNCHANGED bridgeVars
  BY <1>1, <1>9 DEF bridgeVars, wireVars, clientVars, paperVars, sessionVars
<1> QED BY <1>2, <1>3, <1>4, <1>5, <1>6, <1>7, <1>8, <1>9 DEF BridgeNext, TrainerNext

-----------------------------------------------------------------------------
(* The keys *)

KeysInv ==
    /\ ClientTypeOK
    /\ LiveExcludesPending
    /\ DownIsIdle
    /\ NoActionUnannounced
    /\ TicksAddUp
    /\ KeysFollowAction

\* Without a live episode no action is kept and no key is down.
LEMMA IdleKeys ==
    ASSUME SequencerInv, KeysInv, ~EpisodeLive
    PROVE  /\ phase \notin {"WAITING_ACTION", "ACTION_QUEUED", "ACTION_RUNNING"}
           /\ pressed = FALSE
  BY DEF SequencerInv, PhaseFollowsEpisode, KeysInv, KeysFollowAction, ClientTypeOK

\* A step that leaves no live episode, no kept action and no key down.
LEMMA KeysIdle ==
    ASSUME activeArm' = NoArm \/ terminalReported',
           phase' \notin {"ACTION_QUEUED", "ACTION_RUNNING"},
           pressed' = FALSE, ticksLeft' \in Nat, heldTicks' \in Nat,
           online' \in {"down", "up", "lost"}, announced' \in BOOLEAN
    PROVE  KeysInv'
<1>1. ~EpisodeLive'
  BY DEF EpisodeLive
<1> QED BY <1>1 DEF KeysInv, ClientTypeOK, LiveExcludesPending, DownIsIdle, NoActionUnannounced,
            TicksAddUp, KeysFollowAction

\* A failure: everything is aborted and released.
LEMMA KeysAborted ==
    ASSUME NothingKept, ReleaseAll, online' \in {"down", "up", "lost"}, announced' \in BOOLEAN
    PROVE  KeysInv'
  BY KeysIdle DEF NothingKept, ReleaseAll

\* A step of somebody else.
LEMMA KeysSame ==
    ASSUME KeysInv, UNCHANGED <<seqVars, online, announced, inputVars>>
    PROVE  KeysInv'
  BY DEF KeysInv, ClientTypeOK, LiveExcludesPending, DownIsIdle, NoActionUnannounced, TicksAddUp,
         KeysFollowAction, EpisodeLive, seqVars, armVars, inputVars

\* A new session resets the sequencer and leaves the keys, which are up.
LEMMA BeginKeys ==
    ASSUME SequencerInv, KeysInv, SessionBegins \/ SessionBeginsUnsent, online' = "up",
           KeepInputs \/ ReleaseAll,
           online = "down" \/ online = "up"
    PROVE  KeysInv'
<1>1. ~announced
  BY DEF SessionBegins, SessionBeginsUnsent
<1>2. pressed = FALSE
  BY <1>1, IdleKeys DEF KeysInv, DownIsIdle, NoActionUnannounced, KeysFollowAction, ClientTypeOK
<1>3. pressed' = FALSE /\ ticksLeft' \in Nat /\ heldTicks' \in Nat
  BY <1>2 DEF KeepInputs, ReleaseAll, inputVars, KeysInv, ClientTypeOK
<1>4. activeArm' = NoArm /\ phase' \notin {"ACTION_QUEUED", "ACTION_RUNNING"} /\ announced' = TRUE
  BY DEF SessionBegins, SessionBeginsUnsent, StartSession, NothingKept
<1> QED BY <1>3, <1>4, KeysIdle

\* A task: an action is queued only within a session.
LEMMA TaskKeys ==
    ASSUME SequencerInv, BridgeTypeOK, PeerOfAcceptor, ConnectionsInOrder, SessionBeforeMessages,
           KeysInv, HandleTask
    PROVE  KeysInv'
<1> USE DEF BridgeTypeOK
<1>0. UNCHANGED online /\ online \in {"down", "up", "lost"} /\ announced \in BOOLEAN
  BY DEF HandleTask, HandleConnected, HandleStaleMessage, HandleArm, HandleAction, HandleShutdown,
         HandleDisconnected, TakeTask, paperVars, KeysInv, ClientTypeOK
<1>1. CASE HandleConnected
  <2>1. CASE online = "up" /\ (SessionBegins \/ SessionBeginsUnsent) /\ (KeepInputs \/ ReleaseAll)
    BY <1>0, <2>1, BeginKeys
  <2>2. CASE UNCHANGED <<seqVars, sessionVars, inputVars>>
    BY <1>0, <2>2, KeysSame DEF sessionVars
  <2> QED BY <1>1, <2>1, <2>2 DEF HandleConnected, SessionNotBegun, KeepInputs
<1>2. CASE HandleStaleMessage
  BY <1>0, <1>2, KeysSame DEF HandleStaleMessage, sessionVars
<1>3. ASSUME Abort, ReleaseAll, announced' \in BOOLEAN PROVE KeysInv'
  BY <1>0, <1>3, KeysAborted DEF Abort, DropEpisode
<1>4. CASE HandleArm
  <2> DEFINE m == Head(tasks).frame
  <2>1. UNCHANGED announced /\ ReleaseAll
    BY <1>4 DEF HandleArm, sessionVars, ReportFailure
  <2>2. CASE ArmAccepted(m.session, m.arm)
    <3>1. activeArm' = NoArm \/ terminalReported'
      BY <2>2 DEF ArmAccepted, Armable
    <3>2. phase' \in {"SKIPPING", "COUNTDOWN", "ARMED"}
      BY <2>2 DEF ArmAccepted
    <3> QED BY <1>0, <2>1, <3>1, <3>2, KeysIdle DEF ReleaseAll
  <2>3. CASE ArmRepeated(m.session, m.arm)
    <3>1. m.arm \in Arms
      BY <1>4, HeadFrames DEF HandleArm, TakeTask
    <3>2. pendingArm # NoArm
      BY <2>3, <3>1, ArmsArePresent DEF ArmRepeated
    <3>3. ~EpisodeLive
      BY <3>2 DEF KeysInv, LiveExcludesPending
    <3>4. UNCHANGED <<activeArm, terminalReported, phase>>
      BY <2>3 DEF ArmRepeated, seqVars, armVars
    <3>5. phase \notin {"ACTION_QUEUED", "ACTION_RUNNING"}
      BY <3>3, IdleKeys
    <3>6. activeArm' = NoArm \/ terminalReported'
      BY <3>3, <3>4 DEF EpisodeLive
    <3> QED BY <1>0, <2>1, <3>4, <3>5, <3>6, KeysIdle DEF ReleaseAll
  <2>4. CASE ArmRefused(m.session, m.arm)
    BY <1>0, <1>3, <2>1, <2>4 DEF ArmRefused
  <2> QED BY <1>4, <2>2, <2>3, <2>4 DEF HandleArm
<1>5. CASE HandleAction
  <2> DEFINE m == Head(tasks).frame
  <2>1. UNCHANGED announced
    BY <1>5 DEF HandleAction, sessionVars
  <2>2. CASE ActionQueued(m.session, m.action) /\ KeepInputs
    <3>1. phase = "WAITING_ACTION" /\ phase' = "ACTION_QUEUED"
      BY <2>2 DEF ActionQueued, ExpectedAction
    <3>2. UNCHANGED <<pendingArm, activeArm, terminalReported, pressed, ticksLeft, heldTicks>>
      BY <2>2 DEF ActionQueued, armVars, KeepInputs, inputVars
    <3>3. pressed = FALSE
      BY <3>1 DEF KeysInv, KeysFollowAction, ClientTypeOK
    <3>4. online = "up" => announced
      BY <1>5, CurrentHasSession DEF HandleAction, TakeTask
    <3> QED BY <1>0, <2>1, <3>1, <3>2, <3>3, <3>4 DEF KeysInv, ClientTypeOK, LiveExcludesPending,
               DownIsIdle, NoActionUnannounced, TicksAddUp, KeysFollowAction, EpisodeLive
  <2>3. CASE LateActionDropped(m.session, m.action) /\ KeepInputs
    <3>1. UNCHANGED <<pendingArm, activeArm, terminalReported, phase, pressed, ticksLeft, heldTicks>>
      BY <2>3 DEF LateActionDropped, armVars, KeepInputs, inputVars
    <3> QED BY <1>0, <2>1, <3>1 DEF KeysInv, ClientTypeOK, LiveExcludesPending, DownIsIdle,
               NoActionUnannounced, TicksAddUp, KeysFollowAction, EpisodeLive
  <2>4. CASE ActionRefused(m.session, m.action) /\ ReportFailure
    BY <1>0, <1>3, <2>1, <2>4 DEF ActionRefused, ReportFailure
  <2> QED BY <1>5, <2>2, <2>3, <2>4 DEF HandleAction
<1>6. CASE HandleShutdown
  BY <1>0, <1>3, <1>6 DEF HandleShutdown, sessionVars
<1>7. CASE HandleDisconnected
  BY <1>0, <1>3, <1>7 DEF HandleDisconnected
<1> QED BY <1>1, <1>2, <1>4, <1>5, <1>6, <1>7 DEF HandleTask

\* A tick: the keys go down with the action and stay down until its last tick.
LEMMA TickKeys ==
    ASSUME SequencerInv, KeysInv, ClientTick
    PROVE  KeysInv'
<1> USE DEF KeysInv, ClientTypeOK
<1>0. KeepOutsideTick
  BY DEF ClientTick, TickMissesDeadline, TickWaits, TickBegins, TickBeginsOffline, TickHolds,
         TickCompletes, TickCompletesUnsent
<1>1. UNCHANGED <<online, announced>>
  BY <1>0 DEF KeepOutsideTick, paperVars, sessionVars
<1>2. HoldTicks \in Nat /\ HoldTicks >= 2
  BY ClientAssumption
<1>3. EpisodeLive <=> phase \in {"WAITING_ACTION", "ACTION_QUEUED", "ACTION_RUNNING"}
  BY DEF SequencerInv, PhaseFollowsEpisode
<1>4. ASSUME EpisodeLive, UNCHANGED <<pendingArm, activeArm, terminalReported>>,
             phase' \in {"ACTION_QUEUED", "ACTION_RUNNING"} => phase' = phase \/ phase = "ACTION_QUEUED"
      PROVE  LiveExcludesPending' /\ DownIsIdle' /\ NoActionUnannounced'
  BY <1>1, <1>4 DEF LiveExcludesPending, DownIsIdle, NoActionUnannounced, EpisodeLive
<1>5. CASE TickMissesDeadline \/ TickBeginsOffline
  BY <1>1, <1>5, KeysAborted DEF TickMissesDeadline, DeadlineMissed, TickBeginsOffline, ReportFailure,
                                 Abort, DropEpisode
<1>6. CASE TickWaits
  <2>1. phase = "WAITING_ACTION" /\ UNCHANGED <<pendingArm, activeArm, terminalReported, phase>>
    BY <1>6 DEF TickWaits, TickPasses, armVars
  <2>2. pressed = FALSE
    BY <2>1 DEF KeysFollowAction
  <2>3. pressed' = FALSE /\ ticksLeft' \in Nat /\ heldTicks' \in Nat
    BY <1>6, <2>2 DEF TickWaits, KeepInputs, ReleaseAll, inputVars
  <2>4. TicksAddUp' /\ KeysFollowAction'
    BY <2>1, <2>3 DEF TicksAddUp, KeysFollowAction
  <2> QED BY <1>1, <1>3, <1>4, <2>1, <2>3, <2>4
<1>7. CASE TickBegins
  <2>1. /\ phase = "ACTION_QUEUED" /\ phase' = "ACTION_RUNNING"
        /\ UNCHANGED <<pendingArm, activeArm, terminalReported>>
    BY <1>7 DEF TickBegins, BeginAction, armVars
  <2>2. pressed' = TRUE /\ ticksLeft' = HoldTicks - 1 /\ heldTicks' = 1
    BY <1>7 DEF TickBegins, PressKeys
  <2>3. ticksLeft' \in Nat /\ ticksLeft' > 0 /\ heldTicks' + ticksLeft' = HoldTicks
    BY <1>2, <2>2
  <2>4. TicksAddUp' /\ KeysFollowAction'
    BY <2>1, <2>2, <2>3 DEF TicksAddUp, KeysFollowAction
  <2> QED BY <1>1, <1>3, <1>4, <2>1, <2>2, <2>3, <2>4
<1>8. CASE TickHolds
  <2>1. phase = "ACTION_RUNNING" /\ UNCHANGED <<pendingArm, activeArm, terminalReported, phase>>
    BY <1>8 DEF TickHolds, seqVars, armVars
  <2>2. CASE online = "up"
    <3>1. ticksLeft > 1 /\ ticksLeft' = ticksLeft - 1 /\ heldTicks' = heldTicks + 1 /\ pressed' = pressed
      BY <1>8, <2>2 DEF TickHolds, HoldOneTick
    <3>2. pressed
      BY <2>1, <2>2 DEF KeysFollowAction
    <3>3. ticksLeft' \in Nat /\ ticksLeft' > 0 /\ heldTicks' \in Nat
          /\ heldTicks' + ticksLeft' = HoldTicks
      BY <1>2, <3>1, <3>2 DEF TicksAddUp
    <3>4. pressed' = TRUE
      BY <3>1, <3>2
    <3>5. TicksAddUp' /\ KeysFollowAction'
      BY <2>1, <3>3, <3>4 DEF TicksAddUp, KeysFollowAction
    <3> QED BY <1>1, <1>3, <1>4, <2>1, <3>3, <3>4, <3>5
  <2>3. CASE online # "up"
    <3>1. pressed' = FALSE /\ ticksLeft' = 0 /\ heldTicks' = 0
      BY <1>8, <2>3 DEF TickHolds, ReleaseAll
    <3>2. TicksAddUp' /\ KeysFollowAction'
      BY <1>1, <2>3, <3>1 DEF TicksAddUp, KeysFollowAction
    <3> QED BY <1>1, <1>3, <1>4, <2>1, <3>1, <3>2
  <2> QED BY <2>2, <2>3
<1>9. CASE TickCompletes
  <2>1. /\ phase = "ACTION_RUNNING" /\ phase' = "WAITING_ACTION"
        /\ UNCHANGED <<pendingArm, activeArm, terminalReported>>
    BY <1>9 DEF TickCompletes, CompleteAction, armVars
  <2>2. pressed' = FALSE /\ ticksLeft' = 0 /\ heldTicks' = 0
    BY <1>9 DEF TickCompletes, ReleaseAll
  <2>3. TicksAddUp' /\ KeysFollowAction'
    BY <2>1, <2>2 DEF TicksAddUp, KeysFollowAction
  <2> QED BY <1>1, <1>3, <1>4, <2>1, <2>2, <2>3
<1>10. CASE TickCompletesUnsent
  BY <1>1, <1>10, KeysAborted DEF TickCompletesUnsent
<1> QED BY <1>5, <1>6, <1>7, <1>8, <1>9, <1>10 DEF ClientTick

\* A packet that this client only follows says nothing of an action that runs, but
\* that its round goes on.
LEMMA FollowKeys ==
    ASSUME SequencerInv, KeysInv, NEW p, FollowRound(p), UNCHANGED <<online, announced>>
    PROVE  KeysInv'
<1> USE DEF KeysInv, ClientTypeOK
<1>1. KeepInputs \/ ReleaseAll
  BY DEF FollowRound
<1>2. ASSUME ~EpisodeLive, ~EpisodeLive', phase' \notin {"ACTION_QUEUED", "ACTION_RUNNING"}
      PROVE  KeysInv'
  <2>0. pressed = FALSE
    BY <1>2, IdleKeys
  <2>1. pressed' = FALSE /\ ticksLeft' \in Nat /\ heldTicks' \in Nat
    <3>1. CASE KeepInputs
      BY <2>0, <3>1 DEF KeepInputs, inputVars
    <3>2. CASE ReleaseAll
      BY <3>2 DEF ReleaseAll
    <3> QED BY <1>1, <3>1, <3>2
  <2>2. activeArm' = NoArm \/ terminalReported'
    BY <1>2 DEF EpisodeLive
  <2> QED BY <1>2, <2>1, <2>2, KeysIdle
<1>3. ~EpisodeLive => phase \notin {"ACTION_QUEUED", "ACTION_RUNNING"}
  BY IdleKeys
<1>4. CASE ReceiveCountdown(p)
  <2>1. ~EpisodeLive
    BY <1>4 DEF ReceiveCountdown, ServerMidRound, SequencerInv, LiveOnlyInActiveRound
  <2>2. UNCHANGED <<activeArm, terminalReported>> /\ phase' \in {phase, "COUNTDOWN"}
    BY <1>4 DEF ReceiveCountdown, armVars
  <2> QED BY <1>2, <1>3, <2>1, <2>2 DEF EpisodeLive
<1>5. CASE RoundContinues(p)
  <2>1. UNCHANGED <<pendingArm, activeArm, terminalReported, phase>>
    BY <1>5 DEF RoundContinues, KeepSequencing, armVars
  <2>2. CASE ~EpisodeLive
    BY <1>2, <1>3, <2>1, <2>2 DEF EpisodeLive
  <2>3. CASE EpisodeLive
    <3>1. p.playerActive
      BY <1>5, <2>3 DEF RoundContinues, EpisodeLive
    <3>2. UNCHANGED <<pressed, ticksLeft, heldTicks>>
      BY <3>1 DEF FollowRound, KeepInputs, inputVars
    <3> QED BY <2>1, <3>2 DEF LiveExcludesPending, DownIsIdle, NoActionUnannounced, TicksAddUp,
               KeysFollowAction, EpisodeLive
  <2> QED BY <2>2, <2>3
<1>6. CASE ActiveRoundSkipped(p) \/ CompleteRoundSkipped(p)
  <2>1. activeArm = NoArm /\ activeArm' = NoArm /\ phase' = "SKIPPING"
    BY <1>6 DEF ActiveRoundSkipped, CompleteRoundSkipped, SkipRound, armVars
  <2> QED BY <1>2, <2>1 DEF EpisodeLive
<1>7. CASE CompletionRepeated(p)
  <2>1. ~EpisodeLive /\ UNCHANGED <<activeArm, terminalReported, phase>>
    BY <1>7 DEF CompletionRepeated, KeepSequencing, armVars, EpisodeLive
  <2> QED BY <1>2, <1>3, <2>1 DEF EpisodeLive
<1> QED BY <1>4, <1>5, <1>6, <1>7 DEF FollowRound

\* A packet.
LEMMA PacketKeys ==
    ASSUME SequencerInv, KeysInv, NEW p \in Packets, ReceiveYRush(p), online = "up"
    PROVE  KeysInv'
<1> USE DEF KeysInv, ClientTypeOK
<1>1. UNCHANGED <<online, announced>>
  BY DEF ReceiveYRush, KeepOutsidePacket, paperVars, sessionVars
<1>2. 0 \in Nat
  OBVIOUS
<1>3. CASE StartEpisode(p)
  <2>1. /\ pendingArm' = NoArm /\ phase' = "WAITING_ACTION"
        /\ pressed' = FALSE /\ ticksLeft' = 0 /\ heldTicks' = 0
    BY <1>3 DEF StartEpisode, EpisodeStarted, ReleaseAll
  <2> QED BY <1>1, <2>1 DEF LiveExcludesPending, DownIsIdle, NoActionUnannounced, TicksAddUp,
             KeysFollowAction
<1>4. CASE StartEpisodeUnsent(p) \/ FinishEpisodeUnsent(p)
  BY <1>1, <1>4, KeysAborted DEF StartEpisodeUnsent, FinishEpisodeUnsent
<1>5. CASE FinishEpisode(p)
  <2>1. terminalReported' = TRUE /\ phase' = "TERMINAL" /\ ReleaseAll
    BY <1>5 DEF FinishEpisode, PlayerEliminated, RoundCompleted, MarkTerminal
  <2> QED BY <1>1, <1>2, <2>1, KeysIdle DEF ReleaseAll
<1>6. CASE CleanUp(p)
  <2>1. activeArm' = NoArm \/ terminalReported'
    BY <1>6 DEF CleanUp, ReceiveInactive, InactiveTooEarly, EpisodeLive, SequencerInv,
                LiveOnlyInActiveRound
  <2>2. phase' \in {"IDLE", "ARMED"} /\ ReleaseAll
    BY <1>6 DEF CleanUp, ReceiveInactive
  <2> QED BY <1>1, <1>2, <2>1, <2>2, KeysIdle DEF ReleaseAll
<1>7. CASE FollowRound(p)
  BY <1>1, <1>7, FollowKeys
<1>8. CASE RefusePacket(p)
  BY <1>1, <1>8, KeysAborted DEF RefusePacket, PacketRefused, ReportFailure, DropEpisode
<1> QED BY <1>3, <1>4, <1>5, <1>6, <1>7, <1>8 DEF ReceiveYRush

\* Every step.
LEMMA StepKeys ==
    ASSUME SequencerInv, BridgeTypeOK, PeerOfAcceptor, ConnectionsInOrder, SessionBeforeMessages,
           KeysInv, [BridgeNext]_bridgeVars
    PROVE  KeysInv'
<1>1. online \in {"down", "up", "lost"} /\ announced \in BOOLEAN
  BY DEF KeysInv, ClientTypeOK
<1>2. CASE ListenerNext
  BY <1>2, KeysSame DEF ListenerNext, Listener, Accept, AnnounceConnected, ReadFrame, PeerLost,
                        AnnounceDisconnected, paperVars, sessionVars
<1>3. CASE TaskNext
  BY <1>3, TaskKeys DEF TaskNext
<1>4. CASE TickNext
  BY <1>4, TickKeys DEF TickNext
<1>5. CASE JoinNext
  <2>1. online = "down" /\ online' = "up" /\ ReleaseAll /\ BeginTrainerSession
    BY <1>5 DEF JoinNext, JoinedPaper
  <2>2. CASE SessionBegins \/ SessionBeginsUnsent
    BY <2>1, <2>2, BeginKeys
  <2>3. CASE SessionNotBegun
    <3>1. ~EpisodeLive
      BY <2>1 DEF KeysInv, DownIsIdle
    <3>2. UNCHANGED <<activeArm, terminalReported, phase, announced>>
      BY <2>3 DEF SessionNotBegun, seqVars, armVars, sessionVars
    <3>3. phase \notin {"ACTION_QUEUED", "ACTION_RUNNING"} /\ (activeArm = NoArm \/ terminalReported)
      BY <3>1, IdleKeys DEF EpisodeLive
    <3> QED BY <1>1, <2>1, <3>2, <3>3, KeysIdle DEF ReleaseAll
  <2> QED BY <2>1, <2>2, <2>3 DEF BeginTrainerSession
<1>6. CASE LossNext
  <2>1. online' = "lost" /\ UNCHANGED <<pendingArm, activeArm, terminalReported, phase, announced,
                                        ticksLeft, heldTicks, pressed>>
    BY <1>6 DEF LossNext, PaperLost, seqVars, armVars, sessionVars, inputVars
  <2> QED BY <2>1 DEF KeysInv, ClientTypeOK, LiveExcludesPending, DownIsIdle, NoActionUnannounced,
             TicksAddUp, KeysFollowAction, EpisodeLive
<1>7. CASE DisconnectNext \/ StopNext
  <2>1. Abort /\ ReleaseAll
    BY <1>7 DEF DisconnectNext, DisconnectedPaper, StopNext, ShutdownClient, ReportFailure
  <2>2. online' \in {"down", "up", "lost"} /\ announced' \in BOOLEAN
    BY <1>1, <1>7 DEF DisconnectNext, DisconnectedPaper, StopNext, ShutdownClient, sessionVars
  <2> QED BY <2>1, <2>2, KeysAborted DEF Abort, DropEpisode
<1>8. CASE TrainerNext
  BY <1>8, KeysSame DEF TrainerNext, ReceiveNext, DialNext, ActNext, KeepOutsideTrainer, clientVars,
                        paperVars, sessionVars
<1>9. CASE ServerNext
  <2>1. CASE UNCHANGED <<seqVars, wireVars, clientVars>>
    BY <2>1, KeysSame DEF clientVars, paperVars, sessionVars
  <2>2. CASE online = "up" /\ \E p \in Packets : ReceiveYRush(p)
    BY <2>2, PacketKeys
  <2> QED BY <1>9, <2>1, <2>2, ServerSteps DEF BridgeTypeOK
<1>10. CASE UNCHANGED bridgeVars
  BY <1>10, KeysSame DEF bridgeVars, clientVars, paperVars, sessionVars
<1> QED BY <1>2, <1>3, <1>4, <1>5, <1>6, <1>7, <1>8, <1>9, <1>10 DEF BridgeNext, TrainerNext

-----------------------------------------------------------------------------
(* What the trainer is told and learns *)

TalkInv ==
    /\ AcknowledgementsFollowed
    /\ AppliedIsFollowed
    /\ LearntActionsWereHeld
    /\ EndsCarryNoAction

\* A concatenation, by its elements.
LEMMA Concatenated ==
    ASSUME NEW S, NEW s \in Seq(S), NEW t \in Seq(S)
    PROVE  /\ DOMAIN s = 1..Len(s) /\ DOMAIN t = 1..Len(t) /\ Len(s) \in Nat /\ Len(t) \in Nat
           /\ DOMAIN (s \o t) = 1..(Len(s) + Len(t))
           /\ \A i \in DOMAIN s : (s \o t)[i] = s[i]
           /\ \A i \in DOMAIN (s \o t) :
                i \in DOMAIN s \/ (i - Len(s) \in DOMAIN t /\ (s \o t)[i] = t[i - Len(s)])
<1>1. DOMAIN s = 1..Len(s) /\ DOMAIN t = 1..Len(t) /\ Len(s) \in Nat /\ Len(t) \in Nat
  OBVIOUS
<1>2. /\ s \o t \in Seq(S) /\ Len(s \o t) = Len(s) + Len(t)
      /\ \A i \in 1..(Len(s) + Len(t)) :
            (s \o t)[i] = IF i <= Len(s) THEN s[i] ELSE t[i - Len(s)]
  BY ConcatProperties
<1>3. DOMAIN (s \o t) = 1..(Len(s) + Len(t))
  BY <1>2
<1>4. ASSUME NEW i \in DOMAIN s PROVE (s \o t)[i] = s[i]
  <2>1. i \in 1..(Len(s) + Len(t)) /\ i <= Len(s)
    BY <1>1
  <2> QED BY <1>2, <2>1
<1>5. ASSUME NEW i \in DOMAIN (s \o t), i \notin DOMAIN s
      PROVE  i - Len(s) \in DOMAIN t /\ (s \o t)[i] = t[i - Len(s)]
  <2>1. i \in 1..(Len(s) + Len(t)) /\ ~(i <= Len(s))
    BY <1>1, <1>3, <1>5
  <2>2. i - Len(s) \in 1..Len(t)
    BY <1>1, <2>1
  <2> QED BY <1>1, <1>2, <2>1, <2>2
<1> QED BY <1>1, <1>3, <1>4, <1>5

\* The history only grows, and no step but the end of an action adds to it.
LEMMA HeldGrows ==
    ASSUME ServerTypeOK, [BridgeNext]_bridgeVars
    PROVE  heldActions \subseteq heldActions'
<1> USE DEF KeepOutsideClient, KeepOutsideTrainer, clientVars, historyVars
<1>1. CASE ListenerNext
  BY <1>1 DEF ListenerNext, Listener, Accept, AnnounceConnected, ReadFrame, PeerLost,
              AnnounceDisconnected
<1>2. CASE TaskNext
  BY <1>2 DEF TaskNext, HandleTask, HandleConnected, HandleStaleMessage, HandleArm, HandleAction,
              HandleShutdown, HandleDisconnected, TakeTask
<1>3. CASE TickNext
  BY <1>3 DEF TickNext, ClientTick, TickMissesDeadline, TickWaits, TickBegins, TickBeginsOffline,
              TickHolds, TickCompletes, TickCompletesUnsent, RecordHeld
<1>4. CASE JoinNext \/ LossNext \/ DisconnectNext \/ StopNext
  BY <1>4 DEF JoinNext, JoinedPaper, LossNext, PaperLost, DisconnectNext, DisconnectedPaper,
              StopNext, ShutdownClient
<1>5. CASE TrainerNext
  BY <1>5 DEF TrainerNext, ReceiveNext, DialNext, ActNext
<1>6. CASE ServerNext
  BY <1>6, ServerSteps DEF ReceiveYRush, KeepOutsidePacket
<1>7. CASE UNCHANGED bridgeVars
  BY <1>7 DEF bridgeVars
<1> QED BY <1>1, <1>2, <1>3, <1>4, <1>5, <1>6, <1>7 DEF BridgeNext, TrainerNext

\* An action that ends now has been held to its end.
LEMMA HoldingRecords ==
    ASSUME KeysInv, Holding, RecordHeld
    PROVE  <<session, runningAction>> \in heldActions'
<1>1. pressed /\ ticksLeft = 1
  BY DEF Holding, KeysInv, KeysFollowAction
<1>2. heldTicks = HoldTicks - 1
  BY <1>1, ClientAssumption DEF KeysInv, TicksAddUp, ClientTypeOK
<1> QED BY <1>1, <1>2 DEF RecordHeld

\* What the client adds leaves the head of the wire alone, and an acknowledgement
\* it adds is followed.
LEMMA ClientKeepsTalk ==
    ASSUME SequencerTypeOK, KeysInv, BridgeTypeOK, TalkInv, ClientTalks, UNCHANGED trainerVars,
           heldActions \subseteq heldActions'
    PROVE  TalkInv'
<1> USE DEF BridgeTypeOK, WireTypeOK
<1>1. LearntActionsWereHeld' /\ EndsCarryNoAction'
  BY DEF TalkInv, LearntActionsWereHeld, EndsCarryNoAction, trainerVars
<1>2. CASE UNCHANGED toTrainer
  BY <1>1, <1>2 DEF TalkInv, AcknowledgementsFollowed, AppliedIsFollowed, trainerVars
<1>3. ASSUME NEW fs \in Seq(ClientFrames), toTrainer' = toTrainer \o fs,
             \A k \in DOMAIN fs : fs[k].type = "action_applied" =>
                /\ <<fs[k].session, fs[k].action>> \in heldActions'
                /\ k + 1 \in DOMAIN fs
                /\ ActiveObs(fs[k + 1])
      PROVE  TalkInv'
  <2> DEFINE n == Len(toTrainer)
  <2>1. /\ DOMAIN toTrainer = 1..n /\ DOMAIN fs = 1..Len(fs) /\ n \in Nat /\ Len(fs) \in Nat
        /\ DOMAIN toTrainer' = 1..(n + Len(fs))
        /\ \A i \in DOMAIN toTrainer : toTrainer'[i] = toTrainer[i]
        /\ \A i \in DOMAIN toTrainer' :
            i \in DOMAIN toTrainer \/ (i - n \in DOMAIN fs /\ toTrainer'[i] = fs[i - n])
    BY <1>3, Concatenated
  <2>2. \A k \in DOMAIN fs : n + k \in DOMAIN toTrainer' /\ toTrainer'[n + k] = fs[k]
    <3>1. \A k \in DOMAIN fs : n + k \in DOMAIN toTrainer' /\ n + k \notin DOMAIN toTrainer
                                 /\ (n + k) - n = k
      BY <2>1
    <3> QED BY <2>1, <3>1
  <2>3. ASSUME NEW i \in DOMAIN toTrainer', toTrainer'[i].type = "action_applied"
        PROVE  /\ <<toTrainer'[i].session, toTrainer'[i].action>> \in heldActions'
               /\ i + 1 \in DOMAIN toTrainer'
               /\ ActiveObs(toTrainer'[i + 1])
    <3>1. CASE i \in DOMAIN toTrainer
      <4>1. toTrainer[i].type = "action_applied" /\ toTrainer'[i] = toTrainer[i]
        BY <2>1, <2>3, <3>1
      <4>2. /\ <<toTrainer[i].session, toTrainer[i].action>> \in heldActions
            /\ i + 1 \in DOMAIN toTrainer /\ ActiveObs(toTrainer[i + 1])
        BY <3>1, <4>1 DEF TalkInv, AcknowledgementsFollowed
      <4>3. i + 1 \in DOMAIN toTrainer' /\ toTrainer'[i + 1] = toTrainer[i + 1]
        BY <2>1, <4>2
      <4> QED BY <4>1, <4>2, <4>3
    <3>2. CASE i - n \in DOMAIN fs /\ toTrainer'[i] = fs[i - n]
      <4>1. /\ <<toTrainer'[i].session, toTrainer'[i].action>> \in heldActions'
            /\ i - n + 1 \in DOMAIN fs /\ ActiveObs(fs[i - n + 1])
        BY <1>3, <2>3, <3>2
      <4>2. n + (i - n + 1) = i + 1
        BY <2>1
      <4>3. i + 1 \in DOMAIN toTrainer' /\ toTrainer'[i + 1] = fs[i - n + 1]
        BY <2>2, <4>1, <4>2
      <4> QED BY <4>1, <4>3
    <3> QED BY <2>1, <3>1, <3>2
  <2>4. AcknowledgementsFollowed'
    BY <2>3 DEF AcknowledgementsFollowed, ActiveObs
  <2>5. toTrainer # <<>> => 1 \in DOMAIN toTrainer /\ toTrainer'[1] = toTrainer[1] /\ toTrainer' # <<>>
    <3>1. toTrainer # <<>> => 1 \in DOMAIN toTrainer
      BY AppendTail
    <3>2. 1 \in DOMAIN toTrainer => 1 \in DOMAIN toTrainer'
      BY <2>1
    <3>3. toTrainer' = <<>> => 1 \notin DOMAIN toTrainer'
      OBVIOUS
    <3> QED BY <2>1, <3>1, <3>2, <3>3
  <2>6. AppliedIsFollowed'
    BY <2>5 DEF TalkInv, AppliedIsFollowed, trainerVars, ActiveObs
  <2> QED BY <1>1, <2>4, <2>6 DEF TalkInv
<1>4. CASE \E fs \in Seq(OtherFrames) : ClientWrites(fs)
  <2>1. PICK fs \in Seq(OtherFrames) : ClientWrites(fs)
    BY <1>4
  <2>2. fs \in Seq(ClientFrames)
    BY DEF ClientFrames
  <2>3. \A f \in OtherFrames : f.type # "action_applied"
    BY DEF OtherFrames
  <2>4. \A k \in DOMAIN fs : fs[k].type # "action_applied"
    BY <2>3
  <2> QED BY <1>2, <1>3, <2>1, <2>2, <2>4 DEF ClientWrites
<1>5. CASE Holding /\ ClientWrites(HeldFrames) /\ RecordHeld
  <2> DEFINE e == Applied(session, runningAction)
             o == Observation(session, activeArm, actSeq + 1, actSeq + 1, FALSE)
  <2>1. session \in AnySession /\ activeArm \in Arms \cup {NoArm} /\ actSeq + 1 \in Nat
        /\ runningAction \in Actions \cup {NoAction}
    BY DEF SequencerTypeOK, AnySession
  <2>2. e \in ClientFrames /\ o \in ClientFrames
    BY <2>1, FrameTypes DEF ClientFrames
  <2>3. HeldFrames \in Seq(ClientFrames) /\ HeldFrames = <<e, o>>
    BY <2>2, PairsAreSequences DEF HeldFrames
  <2>4. e.type = "action_applied" /\ <<e.session, e.action>> \in heldActions'
    BY <1>5, HoldingRecords DEF Applied
  <2>5. ActiveObs(o) /\ o.type # "action_applied"
    BY DEF ActiveObs, Observation
  <2> HIDE DEF e, o
  <2>6. DOMAIN HeldFrames = {1, 2} /\ HeldFrames[1] = e /\ HeldFrames[2] = o
    BY <2>3
  <2>7. \A k \in DOMAIN HeldFrames : HeldFrames[k].type = "action_applied" =>
            /\ <<HeldFrames[k].session, HeldFrames[k].action>> \in heldActions'
            /\ k + 1 \in DOMAIN HeldFrames
            /\ ActiveObs(HeldFrames[k + 1])
    <3>1. /\ <<HeldFrames[1].session, HeldFrames[1].action>> \in heldActions'
          /\ 1 + 1 \in DOMAIN HeldFrames
          /\ ActiveObs(HeldFrames[1 + 1])
      <4>1. 1 + 1 = 2
        OBVIOUS
      <4> QED BY <2>4, <2>5, <2>6, <4>1
    <3>2. HeldFrames[2].type # "action_applied"
      BY <2>5, <2>6
    <3> QED BY <2>6, <3>1, <3>2
  <2> QED BY <1>2, <1>3, <1>5, <2>3, <2>7 DEF ClientWrites
<1> QED BY <1>2, <1>4, <1>5 DEF ClientTalks

\* What the trainer takes: an acknowledgement with its observation next to it, and
\* the end of a round only without one.
LEMMA TrainerKeepsTalk ==
    ASSUME BridgeTypeOK, TalkInv, TrainerNext
    PROVE  TalkInv'
<1> USE DEF BridgeTypeOK, WireTypeOK
<1>1. UNCHANGED heldActions
  BY DEF TrainerNext, ReceiveNext, DialNext, ActNext, KeepOutsideTrainer, clientVars, historyVars
<1>3. toTrainer' = <<>> => AcknowledgementsFollowed'
  BY DEF AcknowledgementsFollowed
<1>4. ASSUME toTrainer # <<>>, toTrainer' = Tail(toTrainer) PROVE AcknowledgementsFollowed'
  <2>1. /\ DOMAIN toTrainer' = 1..(Len(toTrainer) - 1) /\ DOMAIN toTrainer = 1..Len(toTrainer)
        /\ Len(toTrainer) \in Nat
        /\ \A i \in DOMAIN toTrainer' : i + 1 \in DOMAIN toTrainer /\ toTrainer'[i] = toTrainer[i + 1]
    BY <1>4, AppendTail
  <2>2. ASSUME NEW i \in DOMAIN toTrainer', toTrainer'[i].type = "action_applied"
        PROVE  /\ <<toTrainer'[i].session, toTrainer'[i].action>> \in heldActions
               /\ i + 1 \in DOMAIN toTrainer'
               /\ ActiveObs(toTrainer'[i + 1])
    <3>1. i + 1 \in DOMAIN toTrainer /\ toTrainer'[i] = toTrainer[i + 1]
      BY <2>1
    <3>2. /\ <<toTrainer[i + 1].session, toTrainer[i + 1].action>> \in heldActions
          /\ (i + 1) + 1 \in DOMAIN toTrainer
          /\ ActiveObs(toTrainer[(i + 1) + 1])
      BY <2>2, <3>1 DEF TalkInv, AcknowledgementsFollowed
    <3>3. i + 1 \in DOMAIN toTrainer'
      BY <2>1, <3>2
    <3> QED BY <2>1, <3>1, <3>2, <3>3
  <2> QED BY <1>1, <2>2 DEF AcknowledgementsFollowed, ActiveObs
<1>5. UNCHANGED toTrainer => AcknowledgementsFollowed'
  BY <1>1 DEF TalkInv, AcknowledgementsFollowed, ActiveObs
<1>6. ASSUME applied' = FALSE, UNCHANGED exchanges, AcknowledgementsFollowed' PROVE TalkInv'
  BY <1>1, <1>6 DEF TalkInv, AppliedIsFollowed, LearntActionsWereHeld, EndsCarryNoAction
<1>7. applied \in BOOLEAN /\ (applied => trainer = "stepping")
  BY DEF TrainerTypeOK, TalkInv, AppliedIsFollowed
<1>8. ASSUME CloseAfterFailure PROVE TalkInv'
  BY <1>3, <1>6, <1>8 DEF CloseAfterFailure, FreshConnection
<1>9. ASSUME NEW type, Receive(type)
      PROVE  /\ AcknowledgementsFollowed' /\ Message.type = type
             /\ Message = toTrainer[1] /\ toTrainer # <<>> /\ toTrainer' = Tail(toTrainer)
  BY <1>4, <1>9, MessageTypes DEF Receive
<1>10. applied => ActiveObs(toTrainer[1]) /\ <<tSession, answered>> \in heldActions
  BY DEF TalkInv, AppliedIsFollowed
<1>11. ASSUME NEW b \in BOOLEAN, StepReturns(b), b => ~applied, AcknowledgementsFollowed'
       PROVE  TalkInv'
  <2> DEFINE e == [session |-> tSession, action |-> answered, applied |-> applied, terminal |-> b]
  <2>1. exchanges' = exchanges \cup {e} /\ applied' = FALSE
    BY <1>11 DEF StepReturns
  <2>2. e.applied => <<e.session, e.action>> \in heldActions
    BY <1>10
  <2>3. e.terminal => ~e.applied
    BY <1>11
  <2> HIDE DEF e
  <2>4. LearntActionsWereHeld'
    BY <1>1, <2>1, <2>2 DEF TalkInv, LearntActionsWereHeld
  <2>5. EndsCarryNoAction'
    BY <2>1, <2>3 DEF TalkInv, EndsCarryNoAction
  <2> QED BY <1>11, <2>1, <2>4, <2>5 DEF TalkInv, AppliedIsFollowed
<1>12. CASE ReceiveNext
  <2>1. CASE ReceiveHello
    BY <1>6, <1>7, <1>9, <2>1 DEF ReceiveHello
  <2>2. CASE ReceiveReady
    BY <1>6, <1>7, <1>9, <2>2 DEF ReceiveReady
  <2>3. CASE ReceiveEpisodeReady
    BY <1>6, <1>7, <1>9, <2>3 DEF ReceiveEpisodeReady
  <2>4. CASE ReceiveInitialObservation
    BY <1>6, <1>7, <1>9, <2>4 DEF ReceiveInitialObservation
  <2>5. CASE ReceiveApplied
    <3>1. /\ toTrainer # <<>> /\ toTrainer[1].type = "action_applied" /\ toTrainer' = Tail(toTrainer)
          /\ toTrainer[1].session = tSession /\ toTrainer[1].action = answered
          /\ AcknowledgementsFollowed'
      BY <1>9, <2>5 DEF ReceiveApplied, AppliedMatches
    <3>2. /\ 1 \in DOMAIN toTrainer /\ Len(toTrainer) \in Nat /\ DOMAIN toTrainer = 1..Len(toTrainer)
          /\ DOMAIN toTrainer' = 1..(Len(toTrainer) - 1)
          /\ \A i \in DOMAIN toTrainer' : toTrainer'[i] = toTrainer[i + 1]
      BY <3>1, AppendTail
    <3>3. /\ <<tSession, answered>> \in heldActions /\ 1 + 1 \in DOMAIN toTrainer
          /\ ActiveObs(toTrainer[1 + 1])
      BY <3>1, <3>2 DEF TalkInv, AcknowledgementsFollowed
    <3>4. 1 \in DOMAIN toTrainer' /\ toTrainer'[1] = toTrainer[1 + 1]
      BY <3>2, <3>3
    <3>5. toTrainer' # <<>>
      <4>1. 1 \notin DOMAIN <<>>
        OBVIOUS
      <4> QED BY <3>4, <4>1
    <3>6. /\ trainer' = "stepping" /\ UNCHANGED <<tSession, answered, exchanges>>
      BY <2>5 DEF ReceiveApplied
    <3>7. AppliedIsFollowed'
      BY <1>1, <3>3, <3>4, <3>5, <3>6 DEF AppliedIsFollowed, ActiveObs
    <3>8. LearntActionsWereHeld' /\ EndsCarryNoAction'
      BY <1>1, <3>6 DEF TalkInv, LearntActionsWereHeld, EndsCarryNoAction
    <3> QED BY <3>1, <3>7, <3>8 DEF TalkInv
  <2>6. CASE ReceiveNextObservation
    BY <1>9, <1>11, <2>6 DEF ReceiveNextObservation
  <2>7. CASE ReceiveTerminalObservation
    <3>1. AcknowledgementsFollowed' /\ ~applied
      BY <1>9, <1>10, <2>7 DEF ReceiveTerminalObservation, TerminalObservation, ActiveObs
    <3> QED BY <1>6, <1>7, <1>11, <2>7, <3>1 DEF ReceiveTerminalObservation
  <2>8. CASE ReceiveResult
    <3>1. AcknowledgementsFollowed' /\ ~applied
      BY <1>9, <1>10, <2>8 DEF ReceiveResult, ActiveObs
    <3> QED BY <1>6, <1>7, <1>11, <2>8, <3>1 DEF ReceiveResult
  <2>9. CASE ReceiveUnexpected \/ ReceiveEnd
    BY <1>8, <2>9 DEF ReceiveUnexpected, ReceiveEnd
  <2> QED BY <1>12, <2>1, <2>2, <2>3, <2>4, <2>5, <2>6, <2>7, <2>8, <2>9
          DEF ReceiveNext, TrainerReceives
<1>13. CASE DialNext
  BY <1>3, <1>6, <1>13 DEF DialNext, Dial, FreshConnection
<1>14. CASE ActNext
  <2>1. CASE CloseLawfully \/ TrainerGone
    BY <1>3, <1>6, <2>1 DEF CloseLawfully, TrainerGone, FreshConnection
  <2>2. CASE TrainerRestarts
    BY <1>5, <1>6, <1>7, <2>2 DEF TrainerRestarts, wireVars
  <2>3. CASE Timeout
    BY <1>8, <2>3 DEF Timeout
  <2>4. CASE \E r \in TrainerRounds, v \in TrainerPolicies : Arm(r, v)
    BY <1>5, <1>6, <1>7, <2>4 DEF Arm
  <2>5. CASE Answer
    BY <1>5, <1>6, <1>7, <2>5 DEF Answer
  <2> QED BY <1>14, <2>1, <2>2, <2>3, <2>4, <2>5 DEF ActNext, TrainerActs
<1> QED BY <1>12, <1>13, <1>14 DEF TrainerNext

-----------------------------------------------------------------------------
(* The theorems *)

\* Nothing is wrong before the first step.
LEMMA BridgeInitInv == BridgeInit => BridgeInv
<1> SUFFICES ASSUME BridgeInit PROVE BridgeInv
  OBVIOUS
<1> USE DEF BridgeInit
<1>1. SequencerInv
  BY InitInv DEF ClientInit
<1>2. WireTypeOK
  BY DEF WireInit, TrainerInit, ClientInit, WireTypeOK
<1>3. TrainerTypeOK /\ ServerTypeOK /\ ClientTypeOK
  BY DEF TrainerInit, ServerInit, ClientInit, TrainerTypeOK, ServerTypeOK, ClientTypeOK, NoRequest,
         NoAnswer
<1>4. PeerOfAcceptor /\ ConnectionsInOrder /\ DisconnectionsFirst /\ SessionBeforeMessages
  BY DEF WireInit, ClientInit, TrainerInit, PeerOfAcceptor, ConnectionsInOrder,
         DisconnectionsFirst, SessionBeforeMessages
<1>5. LiveExcludesPending /\ DownIsIdle /\ NoActionUnannounced /\ TicksAddUp /\ KeysFollowAction
  BY DEF ClientInit, SequencerInit, LiveExcludesPending, DownIsIdle, NoActionUnannounced,
         TicksAddUp, KeysFollowAction, EpisodeLive
<1>6. AcknowledgementsFollowed /\ AppliedIsFollowed /\ LearntActionsWereHeld /\ EndsCarryNoAction
  BY DEF WireInit, TrainerInit, AcknowledgementsFollowed, AppliedIsFollowed,
         LearntActionsWereHeld, EndsCarryNoAction
<1> QED BY <1>1, <1>2, <1>3, <1>4, <1>5, <1>6 DEF BridgeInv, BridgeTypeOK

\* Every step of the client, of the trainer and of the server keeps it.
LEMMA BridgeStepInv == ASSUME BridgeInv, [BridgeNext]_bridgeVars PROVE BridgeInv'
<1>1. /\ SequencerInv /\ SequencerTypeOK /\ BridgeTypeOK /\ PeerOfAcceptor /\ ConnectionsInOrder
      /\ DisconnectionsFirst /\ SessionBeforeMessages /\ KeysInv /\ TalkInv
  BY DEF BridgeInv, SequencerInv, BridgeTypeOK, KeysInv, TalkInv
<1>2. SequencerInv'
  BY <1>1, StepMoves, MovesKeepInv
<1>3. WireTypeOK' /\ TrainerTypeOK' /\ ServerTypeOK'
  BY <1>1, StepWireTypes
<1>4. QueueMoves
  BY <1>1, StepQueues DEF BridgeTypeOK
<1>5. PeerOfAcceptor' /\ ConnectionsInOrder' /\ DisconnectionsFirst'
  BY <1>1, <1>4, StepOrder, StepDisconnections DEF BridgeTypeOK
<1>6. SessionBeforeMessages'
  BY <1>1, StepSession
<1>7. KeysInv'
  BY <1>1, StepKeys
<1>8. TalkInv'
  <2>1. heldActions \subseteq heldActions'
    BY <1>1, HeldGrows DEF BridgeTypeOK
  <2>2. CASE ClientNext
    BY <1>1, <2>1, <2>2, StepTalks, ClientKeepsTalk DEF BridgeTypeOK
  <2>3. CASE TrainerNext
    BY <1>1, <2>3, TrainerKeepsTalk
  <2>4. CASE UNCHANGED bridgeVars
    <3>1. ClientTalks /\ UNCHANGED trainerVars
      BY <2>4 DEF bridgeVars, wireVars, ClientTalks
    <3> QED BY <1>1, <2>1, <3>1, ClientKeepsTalk
  <2> QED BY <2>2, <2>3, <2>4 DEF BridgeNext, ClientNext, TrainerNext
<1> QED BY <1>2, <1>3, <1>5, <1>6, <1>7, <1>8 DEF BridgeInv, BridgeTypeOK, KeysInv, TalkInv

\* The bridge keeps its inductive invariant, for any number of connections, rounds,
\* actions and Paper losses, and whatever fails.
THEOREM BridgeInvariant == BridgeSpec => []BridgeInv
  BY BridgeInitInv, BridgeStepInv, PTL DEF BridgeSpec

\* A player whose action runs on Paper has its keys down with ticks left, and no key
\* is down at any other time: no session, failure, packet or lost connection in
\* YRushClient leaves a key pressed, or lets one go under an action that goes on.
THEOREM KeysFollowTheAction == BridgeSpec => []KeysFollowAction
<1>1. BridgeInv => KeysFollowAction
  BY DEF BridgeInv
<1> QED BY BridgeInvariant, <1>1, PTL

\* A step that YRushEnv.step returns as applied was held for all of its ticks, by
\* the session the trainer sent it in, whatever was lost or reconnected meanwhile.
THEOREM LearntActionsAreHeld == BridgeSpec => []LearntActionsWereHeld
<1>1. BridgeInv => LearntActionsWereHeld
  BY DEF BridgeInv
<1> QED BY BridgeInvariant, <1>1, PTL

\* The step that ends a round carries no applied action: the client writes an
\* acknowledgement and the observation of the round that goes on together.
THEOREM EndsNeverCarryActions == BridgeSpec => []EndsCarryNoAction
<1>1. BridgeInv => EndsCarryNoAction
  BY DEF BridgeInv
<1> QED BY BridgeInvariant, <1>1, PTL

\* The client keeps the contract of its sequencer: failed writes, which abort in
\* the middle of a handler, void it and break nothing.
THEOREM BridgeKeepsContract == BridgeSpec => SequencerKeepsContract
<1>1. BridgeInit => Contract!ContractInit
  BY InitRefines DEF BridgeInit, ClientInit
<1>2. BridgeInv /\ [BridgeNext]_bridgeVars => [Contract!ContractNext]_(Contract!contractVars)
  BY StepMoves, MovesKeepContract DEF BridgeInv
<1> QED
  BY <1>1, <1>2, BridgeInvariant, PTL DEF BridgeSpec, SequencerKeepsContract, Contract!ContractSpec

=============================================================================
