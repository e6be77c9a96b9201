-------------------------- MODULE TrainerConnection --------------------------
(***************************************************************************)
(* One trainer actor's end of the link: YRushConnection (wire.py) as       *)
(* YRushEnv (env.py) and the actor thread (pool.py, _Actor._run) drive it. *)
(* The actor connects, retrying until a handshake succeeds; then it arms a *)
(* round, answers each observation with an action, and is idle between two *)
(* rounds.  Any message its state does not expect closes the connection:   *)
(* during the handshake the actor dials again, later its run fails.        *)
(*                                                                         *)
(* `failed' ends a trainer process; TrainerRestarts is the next one.       *)
(***************************************************************************)
EXTENDS Wire, FiniteSets

CONSTANTS
    TrainerRounds,      \* round sequence numbers this trainer arms
    TrainerPolicies,    \* policy versions it arms them with
    MaxActions,         \* bound: actions answered in a round, unless it is over
    MaxDials,           \* bound: connections dialled
    TrainerFaults       \* failures this instance lets happen

ASSUME TrainerAssumption ==
    /\ TrainerRounds \subseteq Nat \ {0}
    /\ TrainerPolicies \subseteq Nat
    /\ MaxActions \in Nat \ {0}
    /\ MaxDials \in Nat
    /\ TrainerFaults \subseteq {"handshake_timeout", "trainer_timeout", "trainer_gone"}

VARIABLES
    trainer,            \* what the actor thread is doing: "closed", "hello", "ready", "idle",
                        \* "arming", "deciding", "stepping" or "failed"
    dials,              \* connections dialled so far
    tSession,           \* session_id of the hello
    armedRound,         \* the arm request in force
    readySeen,          \* arm(): its episode_ready has arrived
    answered,           \* step(): the action request, whose observation is `previous'
    applied,            \* step(): its acknowledgement has arrived
    terminalSeen,       \* step(): the terminal observation has arrived
    tResult,            \* step(): the outcome of the episode result, "NONE" before it
    exchanges           \* history: what step() returned

trainerVars == <<trainer, dials, tSession, armedRound, readySeen, answered, applied,
                 terminalSeen, tResult, exchanges>>

NoRequest == [request |-> 0, round |-> 0, policy |-> 0]
NoAnswer == [round |-> 0, policy |-> 0, obs |-> 0, act |-> 0]

TrainerInit ==
    /\ trainer = "closed"
    /\ dials = 0
    /\ tSession = "NONE"
    /\ armedRound = NoRequest
    /\ readySeen = FALSE
    /\ answered = NoAnswer
    /\ applied = FALSE
    /\ terminalSeen = FALSE
    /\ tResult = "NONE"
    /\ exchanges = {}

-----------------------------------------------------------------------------
(* Connecting and closing *)

\* What a new YRushConnection starts with; the history stays.
FreshConnection ==
    /\ tSession' = "NONE"
    /\ armedRound' = NoRequest
    /\ readySeen' = FALSE
    /\ answered' = NoAnswer
    /\ applied' = FALSE
    /\ terminalSeen' = FALSE
    /\ tResult' = "NONE"

Dial ==
    /\ trainer = "closed"
    /\ dials < MaxDials
    /\ dials' = dials + 1
    /\ trainer' = "hello"
    /\ openConn' = dials + 1
    /\ backlog' = Append(backlog, dials + 1)
    /\ toTrainer' = <<>>
    /\ FreshConnection
    /\ UNCHANGED <<peer, toClient, exchanges>>

\* transport.close(): what has not been read is gone.  A handshake that fails is
\* tried again, a failure after it is the end of the run.
CloseAfterFailure ==
    /\ trainer' = IF trainer \in {"hello", "ready"} THEN "closed" ELSE "failed"
    /\ openConn' = 0
    /\ toTrainer' = <<>>
    /\ FreshConnection
    /\ UNCHANGED <<backlog, peer, toClient, dials, exchanges>>

\* YRushEnv.close at the end of a run: a shutdown message, then the socket.
CloseLawfully ==
    /\ trainer \in {"idle", "deciding"}
    /\ trainer' = "closed"
    /\ TrainerWrites(ShutdownFrame(tSession))
    /\ openConn' = 0
    /\ toTrainer' = <<>>
    /\ FreshConnection
    /\ UNCHANGED <<backlog, peer, dials, exchanges>>

TrainerRestarts ==
    /\ trainer = "failed"
    /\ dials < MaxDials
    /\ trainer' = "closed"
    /\ UNCHANGED <<wireVars, dials, tSession, armedRound, readySeen, answered, applied,
                   terminalSeen, tResult, exchanges>>

-----------------------------------------------------------------------------
(* Receiving *)

Receiving == trainer \in {"hello", "ready", "arming", "stepping"}

Message == Head(toTrainer)

\* The next message, if it is of that type; every handler takes it off the wire.
Receive(type) ==
    /\ Receiving
    /\ toTrainer # <<>>
    /\ Message.type = type
    /\ toTrainer' = Tail(toTrainer)
    /\ UNCHANGED <<backlog, openConn, peer, toClient, dials>>

ReceiveHello ==
    /\ trainer = "hello"
    /\ Receive("connection_hello")
    /\ tSession' = Message.session
    /\ trainer' = "ready"
    /\ UNCHANGED <<armedRound, readySeen, answered, applied, terminalSeen, tResult, exchanges>>

ReceiveReady ==
    /\ trainer = "ready"
    /\ Receive("connection_ready")
    /\ Message.session = tSession
    /\ trainer' = "idle"
    /\ UNCHANGED <<tSession, armedRound, readySeen, answered, applied, terminalSeen, tResult,
                   exchanges>>

\* arm(), without the leftovers of an earlier round that it skips: step() returns
\* once it has the observation and the result of the end, so that none is left, and
\* the runs would report one as an unexpected message.
ReadyForArm ==
    /\ ~readySeen
    /\ Message.session = tSession
    /\ Message.arm = armedRound

ReceiveEpisodeReady ==
    /\ trainer = "arming"
    /\ Receive("episode_ready")
    /\ ReadyForArm
    /\ readySeen' = TRUE
    /\ UNCHANGED <<trainer, tSession, armedRound, answered, applied, terminalSeen, tResult,
                   exchanges>>

InitialObservation ==
    /\ Message.session = tSession
    /\ Message.round = armedRound.round
    /\ Message.policy = armedRound.policy
    /\ Message.obs = 0
    /\ Message.act = 0
    /\ ~Message.complete

ReceiveInitialObservation ==
    /\ trainer = "arming"
    /\ Receive("observation")
    /\ readySeen
    /\ InitialObservation
    /\ trainer' = "deciding"
    /\ answered' = NoAnswer
    /\ UNCHANGED <<tSession, armedRound, readySeen, applied, terminalSeen, tResult, exchanges>>

\* step()
AppliedMatches == ~applied /\ Message.session = tSession /\ Message.action = answered

ReceiveApplied ==
    /\ trainer = "stepping"
    /\ Receive("action_applied")
    /\ AppliedMatches
    /\ applied' = TRUE
    /\ UNCHANGED <<trainer, tSession, armedRound, readySeen, answered, terminalSeen, tResult,
                   exchanges>>

ExpectedSequence == IF applied THEN answered.act ELSE answered.obs

OfThisRound ==
    /\ Message.session = tSession
    /\ Message.round = answered.round
    /\ Message.policy = answered.policy
    /\ Message.obs = ExpectedSequence

StepReturns(terminal) ==
    /\ trainer' = IF terminal THEN "idle" ELSE "deciding"
    /\ exchanges' = exchanges \cup {[session |-> tSession, action |-> answered,
                                     applied |-> applied, terminal |-> terminal]}
    /\ applied' = FALSE
    /\ terminalSeen' = FALSE
    /\ tResult' = "NONE"
    /\ UNCHANGED <<tSession, armedRound, readySeen, answered>>

ActiveObservation == OfThisRound /\ Message.act = ExpectedSequence /\ ~Message.complete /\ applied

ReceiveNextObservation ==
    /\ trainer = "stepping"
    /\ Receive("observation")
    /\ ActiveObservation
    /\ StepReturns(FALSE)

TerminalObservation == OfThisRound /\ Message.act = ExpectedSequence /\ Message.complete

ReceiveTerminalObservation ==
    /\ trainer = "stepping"
    /\ Receive("observation")
    /\ TerminalObservation
    /\ IF tResult # "NONE"
       THEN StepReturns(TRUE)
       ELSE /\ terminalSeen' = TRUE
            /\ UNCHANGED <<trainer, tSession, armedRound, readySeen, answered, applied, tResult,
                           exchanges>>

ReceiveResult ==
    /\ trainer = "stepping"
    /\ Receive("episode_result")
    /\ OfThisRound
    /\ IF terminalSeen
       THEN StepReturns(TRUE)
       ELSE /\ tResult' = Message.outcome
            /\ UNCHANGED <<trainer, tSession, armedRound, readySeen, answered, applied,
                           terminalSeen, exchanges>>

\* Everything else, an error message among it, closes the connection.
Expected ==
    \/ trainer = "hello" /\ Message.type = "connection_hello"
    \/ trainer = "ready" /\ Message.type = "connection_ready" /\ Message.session = tSession
    \/ /\ trainer = "arming"
       /\ \/ Message.type = "episode_ready" /\ ReadyForArm
          \/ Message.type = "observation" /\ readySeen /\ InitialObservation
    \/ /\ trainer = "stepping"
       /\ \/ Message.type = "action_applied" /\ AppliedMatches
          \/ Message.type = "observation" /\ (ActiveObservation \/ TerminalObservation)
          \/ Message.type = "episode_result" /\ OfThisRound

ReceiveUnexpected ==
    /\ Receiving
    /\ toTrainer # <<>>
    /\ ~Expected
    /\ CloseAfterFailure

\* End of stream: the client closed its end, and nothing is left to read.
ReceiveEnd ==
    /\ Receiving
    /\ toTrainer = <<>>
    /\ peer # openConn
    /\ \A i \in DOMAIN backlog : backlog[i] # openConn
    /\ CloseAfterFailure

\* message_timeout and round_timeout; the handshake's is the one that the normal
\* start of a client runs into, while it is not on Paper yet.
Timeout ==
    /\ \/ trainer \in {"hello", "ready"} /\ "handshake_timeout" \in TrainerFaults
       \/ trainer \in {"arming", "stepping"} /\ "trainer_timeout" \in TrainerFaults
    /\ toTrainer = <<>>
    /\ CloseAfterFailure

\* The process is gone, whatever it was doing.
TrainerGone ==
    /\ "trainer_gone" \in TrainerFaults
    /\ openConn # 0
    /\ trainer' = "failed"
    /\ openConn' = 0
    /\ toTrainer' = <<>>
    /\ FreshConnection
    /\ UNCHANGED <<backlog, peer, toClient, dials, exchanges>>

TrainerReceives ==
    \/ ReceiveHello
    \/ ReceiveReady
    \/ ReceiveEpisodeReady
    \/ ReceiveInitialObservation
    \/ ReceiveApplied
    \/ ReceiveNextObservation
    \/ ReceiveTerminalObservation
    \/ ReceiveResult
    \/ ReceiveUnexpected
    \/ ReceiveEnd

-----------------------------------------------------------------------------
(* Sending *)

\* YRushEnv.reset, as the pool calls it: rounds advance, with any policy version.
Arm(r, v) ==
    /\ trainer = "idle"
    /\ r > armedRound.round
    /\ trainer' = "arming"
    /\ armedRound' = [request |-> 1, round |-> r, policy |-> v]
    /\ readySeen' = FALSE
    /\ TrainerWrites(ArmFrame(tSession, [request |-> 1, round |-> r, policy |-> v]))
    /\ UNCHANGED <<backlog, openConn, peer, toTrainer, dials, tSession, answered, applied,
                   terminalSeen, tResult, exchanges>>

\* YRushEnv.step: the answer to the last observation.  Past MaxActions only a
\* round that has ended is answered, once, as the trainer cannot know that it has.
RoundOver == \E i \in DOMAIN toTrainer : toTrainer[i].type = "episode_result"

Answer ==
    /\ trainer = "deciding"
    /\ answered.act < MaxActions \/ (answered.act = MaxActions /\ RoundOver)
    /\ trainer' = "stepping"
    /\ answered' = [round |-> armedRound.round, policy |-> armedRound.policy,
                    obs |-> answered.act, act |-> answered.act + 1]
    /\ TrainerWrites(ActionFrame(tSession, answered'))
    /\ UNCHANGED <<backlog, openConn, peer, toTrainer, dials, tSession, armedRound, readySeen,
                   applied, terminalSeen, tResult, exchanges>>

\* Dialling apart: it needs a client that listens.
TrainerActs ==
    \/ CloseLawfully
    \/ TrainerRestarts
    \/ Timeout
    \/ TrainerGone
    \/ \E r \in TrainerRounds, v \in TrainerPolicies : Arm(r, v)
    \/ Answer

=============================================================================
