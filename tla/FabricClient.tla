---------------------------- MODULE FabricClient ----------------------------
(***************************************************************************)
(* YRushClient.java and core/LoopbackServer.java: the client process.  Its *)
(* main (render) thread runs the event handlers, each of them one action:  *)
(* client ticks, YRush packets, Paper joins and losses, and the tasks the  *)
(* listener thread queues for it.  The listener thread accepts a trainer,  *)
(* reads its frames and reports its loss, one step at a time between       *)
(* which the main thread may run.                                          *)
(*                                                                         *)
(* Time is left out: while off Paper the client may join at any moment     *)
(* (startTick's connection attempts and their back-off), and an action is  *)
(* late when "late_action" is among the Faults.                            *)
(***************************************************************************)
EXTENDS RoundSequencer, Wire

CONSTANTS
    HoldTicks,          \* ACTION_HOLD_TICKS, 4 in the code
    MaxPaperLosses,     \* bound: times Paper is lost
    Faults              \* the failures this instance lets happen

ASSUME ClientAssumption ==
    /\ HoldTicks \in Nat \ {0, 1}
    /\ MaxPaperLosses \in Nat
    /\ Faults \subseteq {"paper_loss", "late_action", "write_error", "client_stop"}

VARIABLES
    acceptor,           \* where acceptLoop is
    tasks,              \* Minecraft.execute: tasks queued for the main thread
    online,             \* Paper: "down", "up", or "lost" (gone, handler still to run)
    readiness,          \* the readiness file exists
    announced,          \* hello and ready are set
    drawn,              \* session ids drawn so far: UUIDs do not repeat
    ticksLeft,          \* actionTicksRemaining
    pressed,            \* some controlled key may be down
    heldTicks,          \* history: ticks that the keys have been down
    heldActions,        \* history: <<session, action>> held for all their ticks
    paperLosses,        \* counts up to MaxPaperLosses
    threw,              \* history: a handler died on an unchecked exception
    stopped             \* the client is shutting down

inputVars == <<ticksLeft, pressed, heldTicks>>
paperVars == <<online, readiness, paperLosses>>
sessionVars == <<announced, drawn>>
historyVars == <<heldActions, threw>>
clientVars == <<acceptor, tasks, paperVars, sessionVars, inputVars, historyVars,
                stopped>>

ClientInit ==
    /\ SequencerInit
    /\ acceptor = "accepting"
    /\ tasks = <<>>
    /\ online = "down"
    /\ readiness = FALSE
    /\ announced = FALSE
    /\ drawn = {}
    /\ ticksLeft = 0
    /\ pressed = FALSE
    /\ heldTicks = 0
    /\ heldActions = {}
    /\ paperLosses = 0
    /\ threw = FALSE
    /\ stopped = FALSE

-----------------------------------------------------------------------------
(* Pieces of the handlers *)

ReleaseAll == ticksLeft' = 0 /\ pressed' = FALSE /\ heldTicks' = 0

KeepInputs == UNCHANGED inputVars

\* A write may throw once the trainer's end is gone and the listener thread has
\* not noticed: sendTrainer then releases the keys and aborts the sequencer.
WriteMayFail == "write_error" \in Faults /\ peer # 0 /\ ~Linked

\* Mutant: a failure leaves the keys as they are.
ReportFailureHolding ==
    /\ KeepInputs
    /\ ClientWrites(<<ErrorFrame(session)>>)

\* protocolFailure after a refusal or a missed deadline: release, report, abort.
\* The abort is part of the refusing action; hello and the socket stay.
ReportFailure ==
    /\ ReleaseAll
    /\ ClientWrites(<<ErrorFrame(session)>>)

QueueTask(t) == tasks' = Append(tasks, t)

-----------------------------------------------------------------------------
(* The listener thread *)

Accept ==
    /\ acceptor = "accepting"
    /\ backlog # <<>>
    /\ backlog' = Tail(backlog)
    /\ peer' = Head(backlog)
    /\ acceptor' = "accepted"
    /\ UNCHANGED <<seqVars, openConn, toTrainer, toClient, tasks, paperVars,
                   sessionVars, inputVars, historyVars, stopped>>

AnnounceConnected ==
    /\ acceptor = "accepted"
    /\ acceptor' = "reading"
    /\ QueueTask([kind |-> "connected", conn |-> peer])
    /\ UNCHANGED <<seqVars, wireVars, paperVars, sessionVars, inputVars,
                   historyVars, stopped>>

ReadFrame ==
    /\ acceptor = "reading"
    /\ toClient # <<>>
    /\ toClient' = Tail(toClient)
    /\ QueueTask([kind |-> "message", conn |-> peer, frame |-> Head(toClient)])
    /\ UNCHANGED <<seqVars, backlog, openConn, peer, toTrainer, acceptor, paperVars,
                   sessionVars, inputVars, historyVars, stopped>>

\* End of stream, or a reset that loses the frames not read yet.
PeerLost ==
    /\ acceptor = "reading"
    /\ peer # openConn
    /\ peer' = 0
    /\ toClient' = <<>>
    /\ acceptor' = "lost"
    /\ UNCHANGED <<seqVars, backlog, openConn, toTrainer, tasks, paperVars, sessionVars,
                   inputVars, historyVars, stopped>>

AnnounceDisconnected ==
    /\ acceptor = "lost"
    /\ acceptor' = "accepting"
    /\ QueueTask([kind |-> "disconnected"])
    /\ UNCHANGED <<seqVars, wireVars, paperVars, sessionVars, inputVars,
                   historyVars, stopped>>

-----------------------------------------------------------------------------
(* Trainer sessions *)

\* A random UUID: one not drawn before, and which one makes no difference.
FreshSession == CHOOSE s \in Sessions : s \notin drawn

\* Bound: UUIDs do not run out.  The instances have as many session ids as their
\* connections and Paper losses can use.
SessionsLeft == Sessions \ drawn # {}

\* beginTrainerSession, given that the player is (now) on Paper.
SessionBegins ==
    /\ peer # 0
    /\ ~announced
    /\ SessionsLeft
    /\ announced' = TRUE
    /\ drawn' = drawn \cup {FreshSession}
    /\ StartSession(FreshSession)
    /\ ClientWrites(<<Hello(FreshSession), Ready(FreshSession)>>)

\* The same when writing the hello fails: the sequencer is aborted at once.
SessionBeginsUnsent ==
    /\ WriteMayFail
    /\ ~announced
    /\ SessionsLeft
    /\ announced' = TRUE
    /\ drawn' = drawn \cup {FreshSession}
    /\ session' = FreshSession
    /\ NothingKept
    /\ obsSeq' = 0
    /\ actSeq' = 0
    /\ terminalReported' = FALSE
    /\ raceConsumed' = FALSE
    /\ countdownSeen' = FALSE
    /\ skipUntilInactive' = FALSE
    /\ UNCHANGED <<latest, obsAge, completedObs, completedAct, toTrainer>>

SessionNotBegun ==
    /\ peer = 0 \/ announced
    /\ UNCHANGED <<seqVars, sessionVars, toTrainer>>

BeginTrainerSession == SessionBegins \/ SessionBeginsUnsent \/ SessionNotBegun

-----------------------------------------------------------------------------
(* Tasks the listener thread queued *)

TakeTask(kind) ==
    /\ tasks # <<>>
    /\ Head(tasks).kind = kind
    /\ tasks' = Tail(tasks)
    /\ UNCHANGED <<backlog, openConn, peer, toClient, acceptor, paperVars, historyVars,
                   stopped>>

CurrentTask == Head(tasks).conn = peer

HandleConnected ==
    /\ TakeTask("connected")
    /\ \/ CurrentTask /\ online = "up" /\ (SessionBegins \/ SessionNotBegun) /\ KeepInputs
       \/ CurrentTask /\ online = "up" /\ SessionBeginsUnsent /\ ReleaseAll
       \/ /\ ~(CurrentTask /\ online = "up")
          /\ UNCHANGED <<seqVars, sessionVars, toTrainer, inputVars>>

HandleStaleMessage ==
    /\ TakeTask("message")
    /\ ~CurrentTask
    /\ UNCHANGED <<seqVars, sessionVars, toTrainer, inputVars>>

\* receiveTrainer, ARM_EPISODE.
HandleArm ==
    /\ TakeTask("message")
    /\ CurrentTask
    /\ UNCHANGED sessionVars
    /\ LET m == Head(tasks).frame IN
        /\ m.type = "arm_episode"
        /\ \/ /\ ArmAccepted(m.session, m.arm) \/ ArmRepeated(m.session, m.arm)
              /\ ReleaseAll
              /\ UNCHANGED toTrainer
           \/ ArmRefused(m.session, m.arm) /\ ReportFailure

\* receiveTrainer, ACTION_REQUEST.
HandleAction ==
    /\ TakeTask("message")
    /\ CurrentTask
    /\ UNCHANGED sessionVars
    /\ LET m == Head(tasks).frame IN
        /\ m.type = "action_request"
        /\ \/ /\ ActionQueued(m.session, m.action) \/ LateActionDropped(m.session, m.action)
              /\ KeepInputs
              /\ UNCHANGED toTrainer
           \/ ActionRefused(m.session, m.action) /\ ReportFailure

\* receiveTrainer, SHUTDOWN.
HandleShutdown ==
    /\ TakeTask("message")
    /\ CurrentTask
    /\ Head(tasks).frame.type = "shutdown"
    /\ ReleaseAll
    /\ Abort
    /\ UNCHANGED <<sessionVars, toTrainer>>

\* Mutant: the next connection gets no hello.
HandleDisconnectedAnnounced ==
    /\ TakeTask("disconnected")
    /\ ReleaseAll
    /\ Abort
    /\ UNCHANGED <<announced, drawn, toTrainer>>

\* TrainerListener.disconnected: whatever connection it reports, the session that
\* is current now ends.
HandleDisconnected ==
    /\ TakeTask("disconnected")
    /\ ReleaseAll
    /\ Abort
    /\ announced' = FALSE
    /\ UNCHANGED <<drawn, toTrainer>>

HandleTask ==
    \/ HandleConnected
    \/ HandleStaleMessage
    \/ HandleArm
    \/ HandleAction
    \/ HandleShutdown
    \/ HandleDisconnected

-----------------------------------------------------------------------------
(* Paper *)

JoinedPaper ==
    /\ online = "down"
    /\ online' = "up"
    /\ readiness' = TRUE
    /\ ReleaseAll
    /\ BeginTrainerSession
    /\ UNCHANGED <<backlog, openConn, peer, toClient, acceptor, tasks, paperLosses,
                   historyVars, stopped>>

\* The player and the connection are gone; DISCONNECT has not been raised yet.
PaperLost ==
    /\ "paper_loss" \in Faults
    /\ online = "up"
    /\ paperLosses < MaxPaperLosses
    /\ paperLosses' = paperLosses + 1
    /\ online' = "lost"
    /\ UNCHANGED <<seqVars, wireVars, acceptor, tasks, readiness, sessionVars, inputVars,
                   historyVars, stopped>>

DisconnectedPaper ==
    /\ online = "lost"
    /\ online' = "down"
    /\ readiness' = FALSE
    /\ ReportFailure
    /\ Abort
    /\ announced' = FALSE
    /\ UNCHANGED <<backlog, openConn, peer, toClient, acceptor, tasks, paperLosses, drawn,
                   historyVars, stopped>>

-----------------------------------------------------------------------------
(* Client ticks: startTick and endTick, with no other handler of this mod in *)
(* between                                                                   *)

KeepOutsideTick == UNCHANGED <<backlog, openConn, peer, toClient, acceptor, tasks, paperVars,
                               sessionVars, stopped>>

\* The last tick of the wait for an action does not pass unless it may be late.
TickMissesDeadline ==
    /\ "late_action" \in Faults
    /\ DeadlineMissed
    /\ ReportFailure
    /\ UNCHANGED historyVars
    /\ KeepOutsideTick

TickWaits ==
    /\ TickPasses
    /\ IF online = "up" THEN KeepInputs ELSE ReleaseAll
    /\ UNCHANGED <<toTrainer, historyVars>>
    /\ KeepOutsideTick

\* Mutant: one tick short.
PressKeysBriefly == pressed' = TRUE /\ ticksLeft' = HoldTicks - 2 /\ heldTicks' = 1

PressKeys == pressed' = TRUE /\ ticksLeft' = HoldTicks - 1 /\ heldTicks' = 1

\* startTick begins the queued action, endTick counts the first of its ticks.
TickBegins ==
    /\ online = "up"
    /\ BeginAction
    /\ PressKeys
    /\ UNCHANGED <<toTrainer, heldActions, threw>>
    /\ KeepOutsideTick

\* "cannot apply action offline".
TickBeginsOffline ==
    /\ online # "up"
    /\ phase = "ACTION_QUEUED"
    /\ Abort
    /\ ReportFailure
    /\ UNCHANGED historyVars
    /\ KeepOutsideTick

HoldOneTick == ticksLeft' = ticksLeft - 1 /\ heldTicks' = heldTicks + 1 /\ UNCHANGED pressed

\* endTick; off Paper it releases the keys instead.
TickHolds ==
    /\ phase = "ACTION_RUNNING"
    /\ ticksLeft > 0
    /\ online = "up" => ticksLeft > 1
    /\ IF online = "up" THEN HoldOneTick ELSE ReleaseAll
    /\ UNCHANGED <<seqVars, toTrainer, heldActions, threw>>
    /\ KeepOutsideTick

\* History: the action that ends now had its keys down in each of its ticks.
RecordHeld ==
    heldActions' = IF pressed /\ heldTicks = HoldTicks - 1
                   THEN heldActions \cup {<<session, runningAction>>}
                   ELSE heldActions

Holding == phase = "ACTION_RUNNING" /\ ticksLeft = 1 /\ online = "up"

\* Mutant: the observation before the acknowledgement.
HeldFramesSwapped ==
    <<Observation(session, activeArm, actSeq + 1, actSeq + 1, FALSE),
      Applied(session, runningAction)>>

HeldFrames ==
    <<Applied(session, runningAction),
      Observation(session, activeArm, actSeq + 1, actSeq + 1, FALSE)>>

TickCompletes ==
    /\ Holding
    /\ CompleteAction
    /\ ReleaseAll
    /\ ClientWrites(HeldFrames)
    /\ RecordHeld
    /\ UNCHANGED threw
    /\ KeepOutsideTick

\* The same when writing the acknowledgement or the observation fails.
TickCompletesUnsent ==
    /\ Holding
    /\ WriteMayFail
    /\ NothingKept
    /\ obsSeq' = actSeq + 1
    /\ actSeq' = actSeq + 1
    /\ obsAge' = 0
    /\ ReleaseAll
    /\ RecordHeld
    /\ UNCHANGED <<session, latest, completedVars, flagVars, terminalReported, toTrainer, threw>>
    /\ KeepOutsideTick

ClientTick ==
    \/ TickMissesDeadline
    \/ TickWaits
    \/ TickBegins
    \/ TickBeginsOffline
    \/ TickHolds
    \/ TickCompletes
    \/ TickCompletesUnsent

-----------------------------------------------------------------------------
(* receiveYRush: packets from the Paper server *)

KeepOutsidePacket == UNCHANGED <<backlog, openConn, peer, toClient, acceptor, tasks, paperVars,
                                 sessionVars, heldActions, stopped>>

StartEpisode(p) ==
    /\ EpisodeStarted(p)
    /\ ReleaseAll
    /\ ClientWrites(<<EpisodeReady(session, pendingArm),
                      Observation(session, pendingArm, 0, 0, FALSE)>>)
    /\ UNCHANGED threw

\* The same when writing fails: sendTrainer aborts what has just started.
StartEpisodeUnsent(p) ==
    /\ WriteMayFail
    /\ p.phase = "ACTIVE" /\ p.playerActive
    /\ activeArm = NoArm /\ CountdownFollowed
    /\ NothingKept
    /\ latest' = p
    /\ obsSeq' = 0
    /\ actSeq' = 0
    /\ obsAge' = 0
    /\ terminalReported' = FALSE
    /\ ReleaseAll
    /\ UNCHANGED <<session, completedVars, flagVars, toTrainer, threw>>

Ending(p) == IF p.phase = "ACTIVE" THEN "ELIMINATED" ELSE p.outcome

\* Mutant: an action that is cut short is acknowledged.
EndFramesAcknowledging(p) ==
    LET taken == IF runningAction = NoAction THEN actSeq ELSE actSeq + 1
    IN  (IF runningAction = NoAction THEN <<>> ELSE <<Applied(session, runningAction)>>)
          \o <<Observation(session, activeArm, taken, taken, TRUE),
               Result(session, activeArm, taken, Ending(p))>>

\* Mutant: no result.
EndFramesOfRound(p) == <<Observation(session, activeArm, obsSeq, actSeq, TRUE)>>

EndFrames(p) ==
    <<Observation(session, activeArm, obsSeq, actSeq, TRUE),
      Result(session, activeArm, obsSeq, Ending(p))>>

FinishEpisode(p) ==
    /\ PlayerEliminated(p) \/ RoundCompleted(p)
    /\ ReleaseAll
    /\ ClientWrites(EndFrames(p))
    /\ UNCHANGED threw

\* The same when writing fails.  If it is the observation that fails, the abort
\* in sendTrainer has cleared the arm by the time finishEpisode reads its round:
\* a null dereference that no handler catches.
FinishEpisodeUnsent(p) ==
    /\ WriteMayFail
    /\ EpisodeLive
    /\ p.phase = "ROUND_COMPLETE" \/ (p.phase = "ACTIVE" /\ ~p.playerActive)
    /\ NothingKept
    /\ latest' = p
    /\ completedObs' = obsSeq
    /\ completedAct' = actSeq
    /\ raceConsumed' = ActionInFlight
    /\ terminalReported' = TRUE
    /\ ReleaseAll
    /\ threw' \in {threw, TRUE}
    /\ UNCHANGED <<session, counterVars, flagVars, toTrainer>>

CleanUp(p) ==
    /\ ReceiveInactive(p)
    /\ ReleaseAll
    /\ UNCHANGED <<toTrainer, threw>>

FollowRound(p) ==
    /\ \/ ReceiveCountdown(p)
       \/ RoundContinues(p)
       \/ ActiveRoundSkipped(p)
       \/ CompleteRoundSkipped(p)
       \/ CompletionRepeated(p)
    /\ IF p.playerActive THEN KeepInputs ELSE ReleaseAll
    /\ UNCHANGED <<toTrainer, threw>>

RefusePacket(p) ==
    /\ PacketRefused(p)
    /\ ReportFailure
    /\ UNCHANGED threw

ReceiveYRush(p) ==
    /\ \/ StartEpisode(p)
       \/ StartEpisodeUnsent(p)
       \/ FinishEpisode(p)
       \/ FinishEpisodeUnsent(p)
       \/ CleanUp(p)
       \/ FollowRound(p)
       \/ RefusePacket(p)
    /\ KeepOutsidePacket

-----------------------------------------------------------------------------

\* LoopbackServer.close
CloseServer == backlog' = <<>> /\ peer' = 0 /\ toClient' = <<>>

\* CLIENT_STOPPING: the sockets are closed and the process ends.
ShutdownClient ==
    /\ "client_stop" \in Faults
    /\ stopped' = TRUE
    /\ readiness' = FALSE
    /\ ReleaseAll
    /\ Abort
    /\ CloseServer
    /\ acceptor' = "stopped"
    /\ UNCHANGED <<openConn, toTrainer, tasks, online, paperLosses, sessionVars, historyVars>>

Listener == Accept \/ AnnounceConnected \/ ReadFrame \/ PeerLost \/ AnnounceDisconnected

=============================================================================
