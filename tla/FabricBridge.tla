----------------------------- MODULE FabricBridge -----------------------------
(***************************************************************************)
(* One trainer actor, one Fabric client and the YRush server they play on. *)
(* The server is outside the repository: it is modelled by the lifecycle   *)
(* packets that client-mod/README.md says it sends and RoundSequencer      *)
(* expects, delivered in order to a client on Paper and to nobody else.    *)
(***************************************************************************)
EXTENDS FabricClient, TrainerConnection

CONSTANTS
    MaxTurns            \* bound: connections dialled, Paper losses and a stop, together

\* The client's sets hold what the trainer of the instance can send.
ASSUME BridgeAssumption ==
    /\ MaxTurns \in Nat
    /\ TrainerRounds \subseteq Rounds
    /\ TrainerPolicies \subseteq Policies
    /\ 1 \in Requests
    /\ 0..(MaxActions + 1) \subseteq Sequences

VARIABLES
    server,         \* the phase of the server's round
    player,         \* this player's part in it: "out", "in" or "eliminated"
    verdict         \* player_outcome, once the round is complete

serverVars == <<server, player, verdict>>
bridgeVars == <<seqVars, wireVars, clientVars, trainerVars, serverVars>>

ServerInit ==
    /\ server = "INACTIVE"
    /\ player = "out"
    /\ verdict = "NONE"

BridgeInit == WireInit /\ ClientInit /\ TrainerInit /\ ServerInit

-----------------------------------------------------------------------------
(* The YRush server *)

\* The packet that describes the server's state.
Snapshot ==
    [phase |-> server,
     playerActive |-> server = "LOCKED_COUNTDOWN" \/ (server = "ACTIVE" /\ player = "in"),
     outcome |-> verdict]

\* A client on Paper handles each packet, one off Paper none.
Deliver(packet) ==
    IF online = "up"
    THEN ReceiveYRush(packet)
    ELSE UNCHANGED <<seqVars, wireVars, clientVars>>

ServerAnnounces == Deliver(Snapshot') /\ UNCHANGED trainerVars

OpenCountdown ==
    /\ server = "INACTIVE"
    /\ server' = "LOCKED_COUNTDOWN"
    /\ UNCHANGED <<player, verdict>>
    /\ ServerAnnounces

\* Whoever is on the server when the round starts takes part in it.
StartRound ==
    /\ server = "LOCKED_COUNTDOWN"
    /\ server' = "ACTIVE"
    /\ player' = IF online = "up" THEN "in" ELSE "out"
    /\ UNCHANGED verdict
    /\ ServerAnnounces

CancelCountdown ==
    /\ server = "LOCKED_COUNTDOWN"
    /\ server' = "ROUND_COMPLETE"
    /\ verdict' = "STOPPED"
    /\ UNCHANGED player
    /\ ServerAnnounces

Eliminate ==
    /\ server = "ACTIVE"
    /\ player = "in"
    /\ player' = "eliminated"
    /\ UNCHANGED <<server, verdict>>
    /\ ServerAnnounces

\* An eliminated player keeps that outcome.
CompleteRound(o) ==
    /\ server = "ACTIVE"
    /\ (o = "ELIMINATED") <=> (player = "eliminated")
    /\ server' = "ROUND_COMPLETE"
    /\ verdict' = o
    /\ UNCHANGED player
    /\ ServerAnnounces

CleanUpRound ==
    /\ server = "ROUND_COMPLETE"
    /\ server' = "INACTIVE"
    /\ player' = "out"
    /\ verdict' = "NONE"
    /\ ServerAnnounces

\* The server repeats its state, to a client that has just joined among others;
\* not the completed round's, which receiveComplete takes from a survivor once.
RepeatState ==
    /\ online = "up"
    /\ server # "ROUND_COMPLETE"
    /\ ReceiveYRush(Snapshot)
    /\ UNCHANGED <<serverVars, trainerVars>>

\* Nothing here depends on the server any more once the client has stopped.
ServerNext ==
    /\ ~stopped
    /\ \/ OpenCountdown
       \/ StartRound
       \/ CancelCountdown
       \/ Eliminate
       \/ \E o \in Outcomes : CompleteRound(o)
       \/ CleanUpRound
       \/ RepeatState

-----------------------------------------------------------------------------

KeepOutsideClient == UNCHANGED <<trainerVars, serverVars>>

TurnLeft == dials + paperLosses < MaxTurns

ListenerNext == ~stopped /\ Listener /\ KeepOutsideClient
TaskNext == ~stopped /\ HandleTask /\ KeepOutsideClient
TickNext == ~stopped /\ ClientTick /\ KeepOutsideClient
JoinNext == ~stopped /\ JoinedPaper /\ KeepOutsideClient
LossNext == ~stopped /\ TurnLeft /\ PaperLost /\ KeepOutsideClient
DisconnectNext == ~stopped /\ DisconnectedPaper /\ KeepOutsideClient
StopNext == ~stopped /\ TurnLeft /\ ShutdownClient /\ KeepOutsideClient

KeepOutsideTrainer == UNCHANGED <<seqVars, clientVars, serverVars>>

ReceiveNext == TrainerReceives /\ KeepOutsideTrainer
\* A connection to a client that has stopped is refused, and tried again.
DialNext == ~stopped /\ TurnLeft /\ Dial /\ KeepOutsideTrainer
ActNext == TrainerActs /\ KeepOutsideTrainer

BridgeNext ==
    \/ ListenerNext
    \/ TaskNext
    \/ TickNext
    \/ JoinNext
    \/ LossNext
    \/ DisconnectNext
    \/ StopNext
    \/ ReceiveNext
    \/ DialNext
    \/ ActNext
    \/ ServerNext

BridgeSpec == BridgeInit /\ [][BridgeNext]_bridgeVars

\* Threads that can run do run; the server starts rounds again and again.
BridgeFairness ==
    /\ WF_bridgeVars(ListenerNext)
    /\ WF_bridgeVars(TaskNext)
    /\ WF_bridgeVars(TickNext)
    /\ WF_bridgeVars(JoinNext)
    /\ WF_bridgeVars(DisconnectNext)
    /\ WF_bridgeVars(ReceiveNext)
    /\ WF_bridgeVars(DialNext)
    /\ WF_bridgeVars(Answer /\ KeepOutsideTrainer)
    /\ WF_bridgeVars(~stopped /\ OpenCountdown)
    /\ SF_bridgeVars(~stopped /\ StartRound)
    /\ WF_bridgeVars(~stopped /\ \E o \in Outcomes : CompleteRound(o))
    /\ WF_bridgeVars(~stopped /\ CleanUpRound)

FairBridgeSpec == BridgeSpec /\ BridgeFairness

-----------------------------------------------------------------------------
(* Properties *)

\* While the player is on Paper an action that runs is being held: it has ticks
\* left and nothing released it in the meantime; and no key is down otherwise.
KeysFollowAction ==
    /\ pressed => phase = "ACTION_RUNNING" /\ ticksLeft > 0
    /\ phase = "ACTION_RUNNING" /\ online = "up" => pressed /\ ticksLeft > 0

\* A step that the trainer learns from was held to its end by the client that
\* it was sent to, in the session it was sent in.
LearntActionsWereHeld ==
    \A e \in exchanges : e.applied => <<e.session, e.action>> \in heldActions

\* On a link where nothing fails no error is ever reported and no run fails, in
\* whatever order rounds, arms, late actions and reconnections come.
HealthyLinkNeverFails ==
    /\ trainer # "failed"
    /\ \A i \in DOMAIN toTrainer : toTrainer[i].type # "error"

\* Whatever happened on earlier connections, and whatever is lost: as long as
\* both ends are in the same session, all that the trainer is sent, errors
\* apart, is what its state expects.
TalkFollowsSession ==
    trainer \in {"arming", "stepping"} /\ Linked /\ session = tSession
        /\ toTrainer # <<>> /\ Message.type # "error"
    => Expected

\* On a healthy link an armed round is played in the end, whatever the server was
\* doing when the arm arrived, and every action is answered by an observation or
\* by the end of the round.
ArmedRoundIsPlayed == trainer = "arming" ~> trainer = "deciding"
ActionIsAnswered == trainer = "stepping" ~> trainer \in {"deciding", "idle"}

\* Whatever is lost, a trainer never waits for ever: not for a hello, once the
\* client is on Paper, nor for a round or an answer.  No timeout is needed.
NeverLeftWaiting == Receiving ~> ~Receiving

\* What step() returns for the end of an episode never carries an action that was
\* held: the client acknowledges a held action together with an active observation,
\* so the end is met by the next action, which is dropped.
EndsCarryNoAction == \A e \in exchanges : e.terminal => ~e.applied

\* Documented: the transition that ends an episode is one the trainer learns from
\* (pool.py keeps those whose action was applied).
EndsAreLearnt == \A e \in exchanges : e.terminal => e.applied

\* Documented: a handshake gives one session; while it lasts and the client is
\* still on Paper, the client's session is the trainer's.
OneSessionPerConnection ==
    trainer \in {"idle", "arming", "deciding", "stepping"} /\ Linked /\ online = "up"
        /\ announced => session = tSession

\* Documented: losing the trainer leaves the client running.
NoHandlerDies == ~threw

=============================================================================
