-------------------------------- MODULE Wire --------------------------------
(***************************************************************************)
(* The TCP link between one trainer actor and one Fabric client, as both   *)
(* ends use it: protobuf frames in order (FramedProtobuf.java and          *)
(* SocketMessageTransport), one accepted peer at a time (LoopbackServer),  *)
(* the connections numbered in the order in which they are dialled.        *)
(* Frames are records; what they carry beyond what either end compares is  *)
(* left out.                                                               *)
(***************************************************************************)
EXTENDS Naturals, Sequences

VARIABLES
    backlog,        \* connections dialled and not accepted yet, oldest first
    openConn,       \* the connection the trainer holds open, 0 if none
    peer,           \* the connection the client has accepted, 0 if none
    toTrainer,      \* frames the client wrote on openConn, not read yet
    toClient        \* frames the trainer wrote on peer, not read yet

wireVars == <<backlog, openConn, peer, toTrainer, toClient>>

WireInit ==
    /\ backlog = <<>>
    /\ openConn = 0
    /\ peer = 0
    /\ toTrainer = <<>>
    /\ toClient = <<>>

Linked == openConn # 0 /\ peer = openConn

\* What either end writes is lost once the other end is closed.
ClientWrites(frames) == toTrainer' = IF Linked THEN toTrainer \o frames ELSE toTrainer

TrainerWrites(frame) == toClient' = IF Linked THEN Append(toClient, frame) ELSE toClient

\* Frames from the client.
Hello(s) == [type |-> "connection_hello", session |-> s]
Ready(s) == [type |-> "connection_ready", session |-> s]
EpisodeReady(s, a) == [type |-> "episode_ready", session |-> s, arm |-> a]
Observation(s, a, obs, act, done) ==
    [type |-> "observation", session |-> s, round |-> a.round, policy |-> a.policy,
     obs |-> obs, act |-> act, complete |-> done]
Applied(s, x) == [type |-> "action_applied", session |-> s, action |-> x]
Result(s, a, obs, o) ==
    [type |-> "episode_result", session |-> s, round |-> a.round, policy |-> a.policy,
     obs |-> obs, outcome |-> o]
ErrorFrame(s) == [type |-> "error", session |-> s]

\* Frames from the trainer.
ArmFrame(s, a) == [type |-> "arm_episode", session |-> s, arm |-> a]
ActionFrame(s, x) == [type |-> "action_request", session |-> s, action |-> x]
ShutdownFrame(s) == [type |-> "shutdown", session |-> s]

=============================================================================
