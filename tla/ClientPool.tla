----------------------------- MODULE ClientPool -----------------------------
(***************************************************************************)
(* pool.py: the scheduler of a fixed set of clients.  Each client has an   *)
(* actor thread with a queue for one command; what the actors have to say  *)
(* goes into one queue of events that the driving thread reads in batches. *)
(* The environment (env.py) is what its calls may return; FabricBridge     *)
(* models what is behind them.                                             *)
(*                                                                         *)
(* The driving thread is one thread: its steps are separate where an actor *)
(* may run in between and see a difference, or where another module has a  *)
(* part in them.  PoolSpec is the pool of an evaluation (training.py,      *)
(* evaluate_policy); TrainingRun drives the same pool for a training.      *)
(***************************************************************************)
EXTENDS Naturals, Sequences, FiniteSets

CONSTANTS
    Clients,        \* the actors of the pool
    Versions,       \* policy versions
    DriveRounds,    \* drive(rounds): rounds of one evaluation
    MaxRounds,      \* bound: global rounds in all
    PoolFaults      \* what this instance lets go wrong

ASSUME PoolAssumption ==
    /\ Clients # {}
    /\ Versions \subseteq Nat
    /\ DriveRounds \in Nat \ {0}
    /\ MaxRounds \in Nat
    /\ PoolFaults \subseteq {"client_fails", "startup_timeout", "same_player", "optimizer_fails",
                            "split_round"}

VARIABLES
    actor,          \* each actor's thread: "connecting", "running" or "gone"
    command,        \* each actor's command queue, of size one
    task,           \* the command an actor is carrying out
    observing,      \* an actor has an observation of a live episode
    episode,        \* what each environment was last armed with
    split,          \* the last round whose clients play different rounds of the server
    stopping,       \* each actor's stop flag
    events,         \* the actors' output
    driver,         \* where the driving thread is
    awaited,        \* clients not ready, not armed or not stopped yet
    batch,          \* events taken and not handled yet
    available,      \* each client's observation to answer: the first of its episode, a next
                    \* one, or none
    results,        \* info of the clients that have ended the round
    round,          \* current_round
    policy,         \* current_policy.version
    roundsLeft,     \* rounds - len(completed)
    cause           \* why the drive was aborted: "client", "startup", "unexpected", "busy",
                    \* "results", "refused", "mixed", "stale" or "optimizer"; "NONE" if it
                    \* was not

actorVars == <<actor, command, task, observing, episode, split, stopping>>
roundVars == <<round, policy, roundsLeft>>
driverVars == <<driver, awaited, batch, available, results, roundVars, cause>>
poolVars == <<actorVars, events, driverVars>>

Command(kind, r, v, start) == [kind |-> kind, round |-> r, policy |-> v, start |-> start]
NoCommand == Command("none", 0, 0, FALSE)
ArmCommand == Command("arm", round, policy, FALSE)
\* The policy of an action is history: the version that sampled it.
ActionCommand(c) == Command("action", 0, policy, available[c] = "first")
StopCommand == Command("stop", 0, 0, FALSE)

\* What an event and its info say: the environment's round and version, whether
\* the action was applied, whether the episode ended, the command's episode_start;
\* and, as history, who sampled the action.
Event(c, kind, e, valid, ended, cmd) ==
    [client |-> c, kind |-> kind, round |-> e[1], policy |-> e[2],
     valid |-> valid, ended |-> ended, start |-> cmd.start, by |-> cmd.policy]
Plain(c, kind) == Event(c, kind, <<0, 0>>, FALSE, FALSE, NoCommand)

NoneAvailable == [c \in Clients |-> "none"]

PoolInit ==
    /\ actor = [c \in Clients |-> "connecting"]
    /\ command = [c \in Clients |-> NoCommand]
    /\ task = [c \in Clients |-> NoCommand]
    /\ observing = [c \in Clients |-> FALSE]
    /\ episode = [c \in Clients |-> <<0, 0>>]
    /\ split = 0
    /\ stopping = [c \in Clients |-> FALSE]
    /\ events = <<>>
    /\ driver = "starting"
    /\ awaited = Clients
    /\ batch = <<>>
    /\ available = NoneAvailable
    /\ results = {}
    /\ round = 0
    /\ policy = 0
    /\ roundsLeft = 0
    /\ cause = "NONE"

-----------------------------------------------------------------------------
(* An actor's thread (_Actor._run) *)

Put(e) == events' = Append(events, e)

\* After a command the thread goes on unless it has been stopped.
CommandDone(c) ==
    /\ task' = [task EXCEPT ![c] = NoCommand]
    /\ actor' = [actor EXCEPT ![c] = IF stopping[c] THEN "gone" ELSE "running"]

\* An exception ends the thread; it is reported unless the pool is closing.
Dies(c) ==
    /\ actor' = [actor EXCEPT ![c] = "gone"]
    /\ task' = [task EXCEPT ![c] = NoCommand]
    /\ IF stopping[c] THEN UNCHANGED events ELSE Put(Plain(c, "error"))

Connect(c) ==
    /\ actor[c] = "connecting"
    /\ ~stopping[c]
    /\ actor' = [actor EXCEPT ![c] = "running"]
    /\ Put(Plain(c, "ready"))
    /\ UNCHANGED <<command, task, observing, episode, split, stopping, driverVars>>

\* The deadline for the start has passed, or the pool is closing.
GiveUpConnecting(c) ==
    /\ actor[c] = "connecting"
    /\ stopping[c] \/ "startup_timeout" \in PoolFaults
    /\ Dies(c)
    /\ UNCHANGED <<command, observing, episode, split, stopping, driverVars>>

Waiting(c) == actor[c] = "running" /\ task[c] = NoCommand

TakeCommand(c) ==
    /\ Waiting(c)
    /\ command[c].kind \in {"arm", "action"}
    /\ command' = [command EXCEPT ![c] = NoCommand]
    /\ IF command[c].kind = "action" /\ ~observing[c]
       THEN Dies(c)
       ELSE /\ task' = [task EXCEPT ![c] = command[c]]
            /\ UNCHANGED <<actor, events>>
    /\ UNCHANGED <<observing, episode, split, stopping, driverVars>>

TakeStop(c) ==
    /\ Waiting(c)
    /\ command[c].kind = "stop"
    /\ command' = [command EXCEPT ![c] = NoCommand]
    /\ actor' = [actor EXCEPT ![c] = "gone"]
    /\ UNCHANGED <<task, observing, episode, split, stopping, events, driverVars>>

\* The arms are submitted one by one: the server may start its round after the first
\* has arrived, and the other clients play the next.
OthersBegan(c) == \E d \in Clients \ {c} : episode[d][1] = task[c].round
MaySplit(c) == "split_round" \in PoolFaults /\ OthersBegan(c)

\* env.reset: the episode has begun.
ResetReturns(c) ==
    /\ task[c].kind = "arm"
    /\ \/ UNCHANGED split
       \/ MaySplit(c) /\ split' = task[c].round
    /\ episode' = [episode EXCEPT ![c] = <<task[c].round, task[c].policy>>]
    /\ observing' = [observing EXCEPT ![c] = TRUE]
    /\ Put(Event(c, "armed", episode'[c], TRUE, FALSE, task[c]))
    /\ CommandDone(c)
    /\ UNCHANGED <<command, stopping, driverVars>>

\* env.step: an action that was held leads to a next observation, and the end of
\* an episode is met by one that was not (FabricBridge!EndsCarryNoAction).
StepReturns(c, ended) ==
    /\ task[c].kind = "action"
    /\ observing' = [observing EXCEPT ![c] = ~ended]
    /\ Put(Event(c, "step", episode[c], ~ended, ended, task[c]))
    /\ CommandDone(c)
    /\ UNCHANGED <<command, episode, split, stopping, driverVars>>

EnvironmentFails(c) ==
    /\ "client_fails" \in PoolFaults
    /\ task[c] # NoCommand
    /\ Dies(c)
    /\ UNCHANGED <<command, observing, episode, split, stopping, driverVars>>

-----------------------------------------------------------------------------
(* The driving thread *)

\* Whatever is raised reaches close(), which stops every actor.
Fail(why) ==
    /\ driver' = "closing"
    /\ cause' = why
    /\ awaited' = Clients
    /\ UNCHANGED <<batch, available, results, roundVars>>

\* Two clients of the pool play as one.
SamePlayer == "same_player" \in PoolFaults

\* start()
TakeReady ==
    /\ driver = "starting"
    /\ events # <<>>
    /\ events' = Tail(events)
    /\ UNCHANGED actorVars
    /\ LET e == Head(events) IN
        IF e.kind = "ready" /\ e.client \in awaited
        THEN \/ /\ awaited' = awaited \ {e.client}
                /\ driver' = IF awaited' = {} THEN "idle" ELSE "starting"
                /\ UNCHANGED <<batch, available, results, roundVars, cause>>
             \/ awaited = {e.client} /\ SamePlayer /\ Fail("startup")
        ELSE Fail(IF e.kind = "error" THEN "client" ELSE "unexpected")

StartupTimesOut ==
    /\ "startup_timeout" \in PoolFaults
    /\ driver = "starting"
    /\ events = <<>>
    /\ Fail("startup")
    /\ UNCHANGED <<actorVars, events>>

\* The beginning of drive() and of every later round: all clients are to be armed.
BeginRound(v) ==
    /\ round < MaxRounds
    /\ round' = round + 1
    /\ policy' = v
    /\ driver' = "arming"
    /\ awaited' = Clients
    /\ available' = NoneAvailable
    /\ results' = {}
    /\ UNCHANGED <<actorVars, events, batch, cause>>

\* Policies arrive in any order: an evaluation goes back to the untrained one.
Drive(v) ==
    /\ driver = "idle"
    /\ round + DriveRounds <= MaxRounds
    /\ BeginRound(v)
    /\ roundsLeft' = DriveRounds

Submit(c, x) == command' = [command EXCEPT ![c] = x]

\* _arm_all
SubmitArm(c) ==
    /\ driver = "arming"
    /\ c \in awaited
    /\ UNCHANGED <<actor, task, observing, episode, split, stopping, events>>
    /\ IF command[c] # NoCommand
       THEN Fail("busy") /\ UNCHANGED command
       ELSE /\ Submit(c, ArmCommand)
            /\ awaited' = awaited \ {c}
            /\ driver' = IF awaited' = {} THEN "collecting" ELSE "arming"
            /\ UNCHANGED <<batch, available, results, roundVars, cause>>

\* The next event and all that are there with it.
TakeEvents ==
    /\ driver = "collecting"
    /\ events # <<>>
    /\ batch' = events
    /\ events' = <<>>
    /\ driver' = "handling"
    /\ UNCHANGED <<actorVars, awaited, available, results, roundVars, cause>>

Handled == Head(batch)
NextEvent == driver = "handling" /\ batch # <<>>

\* Mutant: the first observation of an episode is one like any other.
HandleArmedUnmarked ==
    /\ NextEvent
    /\ Handled.kind = "armed"
    /\ Handled.round = round
    /\ batch' = Tail(batch)
    /\ available' = [available EXCEPT ![Handled.client] = "next"]
    /\ UNCHANGED <<actorVars, events, driver, awaited, results, roundVars, cause>>

HandleArmed ==
    /\ NextEvent
    /\ Handled.kind = "armed"
    /\ Handled.round = round
    /\ batch' = Tail(batch)
    /\ available' = [available EXCEPT ![Handled.client] = "first"]
    /\ UNCHANGED <<actorVars, events, driver, awaited, results, roundVars, cause>>

HandleStep ==
    /\ NextEvent
    /\ Handled.kind = "step"
    /\ batch' = Tail(batch)
    /\ IF Handled.ended
       THEN results' = results \cup {Handled} /\ UNCHANGED available
       ELSE available' = [available EXCEPT ![Handled.client] = "next"] /\ UNCHANGED results
    /\ UNCHANGED <<actorVars, events, driver, awaited, roundVars, cause>>

HandleFailure ==
    /\ NextEvent
    /\ \/ Handled.kind = "error" /\ Fail("client")
       \/ Handled.kind = "armed" /\ Handled.round # round /\ Fail("unexpected")
       \/ Handled.kind = "ready" /\ Fail("unexpected")
    /\ UNCHANGED <<actorVars, events>>

BatchHandled == driver = "handling" /\ batch = <<>>

\* Mutant: the first client to end ends the round.
AnyEnded == results # {}

AllEnded == {r.client : r \in results} = Clients

\* reconcile_round, what the pool itself has a part in.
ResultsAgree == \A r \in results : r.round = round /\ r.policy = policy

\* Its other refusals are of reports that contradict each other: those of one round of
\* the server do not (TrainingArtifactsProofs!SharedRoundsAreReconciled), those of
\* several may differ in participants, direction, winner or end, or may agree.
MayContradict == split = round

\* Mutant: waits for every client that has not ended.
AllHeard ==
    \A c \in Clients : available[c] # "none" \/ \E r \in results : r.client = c

SomeHeard == available # NoneAvailable

\* Whoever has an observation gets an action now.
FinishBatch ==
    /\ BatchHandled
    /\ ~AllEnded
    /\ driver' = IF SomeHeard THEN "acting" ELSE "collecting"
    /\ UNCHANGED <<actorVars, events, awaited, batch, available, results, roundVars, cause>>

FinishRound ==
    /\ BatchHandled
    /\ AllEnded
    /\ UNCHANGED <<actorVars, events>>
    /\ \/ /\ ResultsAgree
          /\ driver' = "boundary"
          /\ UNCHANGED <<awaited, batch, available, results, roundVars, cause>>
       \/ ~ResultsAgree /\ Fail("results")
       \/ ResultsAgree /\ MayContradict /\ Fail("refused")

\* The actions of one batch of observations, submitted one after the other.
SubmitAction(c) ==
    /\ driver = "acting"
    /\ available[c] # "none"
    /\ UNCHANGED <<actor, task, observing, episode, split, stopping, events>>
    /\ IF command[c] # NoCommand
       THEN Fail("busy") /\ UNCHANGED command
       ELSE /\ Submit(c, ActionCommand(c))
            /\ available' = [available EXCEPT ![c] = "none"]
            /\ driver' = IF available' = NoneAvailable THEN "collecting" ELSE "acting"
            /\ UNCHANGED <<awaited, batch, results, roundVars, cause>>

\* drive() returns.
EndDrive ==
    /\ driver' = "idle"
    /\ UNCHANGED <<actorVars, events, awaited, batch, available, results, roundVars, cause>>

\* The boundary of an evaluation: no callback, a number of rounds.
EvaluationBoundary ==
    /\ driver = "boundary"
    /\ \/ roundsLeft = 1 /\ EndDrive
       \/ roundsLeft > 1 /\ BeginRound(policy) /\ roundsLeft' = roundsLeft - 1

\* close()
Close ==
    /\ driver = "idle"
    /\ driver' = "closing"
    /\ awaited' = Clients
    /\ UNCHANGED <<actorVars, events, batch, available, results, roundVars, cause>>

\* Mutant: the flag alone.
StopUntold(c) == UNCHANGED command

\* The stop command wakes an actor that waits for one; a full queue does as well.
StopTold(c) == command' = [command EXCEPT ![c] = IF @ = NoCommand THEN StopCommand ELSE @]

StopActor(c) ==
    /\ driver = "closing"
    /\ c \in awaited
    /\ stopping' = [stopping EXCEPT ![c] = TRUE]
    /\ StopTold(c)
    /\ awaited' = awaited \ {c}
    /\ driver' = IF awaited' = {} THEN "closed" ELSE "closing"
    /\ UNCHANGED <<actor, task, observing, episode, split, events, batch, available, results,
                   roundVars, cause>>

-----------------------------------------------------------------------------

ThreadStep(c) == Connect(c) \/ GiveUpConnecting(c) \/ TakeCommand(c) \/ TakeStop(c)

CallReturns(c) == ResetReturns(c) \/ \E ended \in BOOLEAN : StepReturns(c, ended)

\* What a drive does whoever asked for it, but for the steps handled.
DriverStep ==
    \/ TakeReady
    \/ \E c \in Clients : SubmitArm(c) \/ SubmitAction(c) \/ StopActor(c)
    \/ TakeEvents
    \/ HandleArmed
    \/ HandleFailure
    \/ FinishBatch
    \/ FinishRound

PoolNext ==
    \/ \E c \in Clients : ThreadStep(c) \/ CallReturns(c) \/ EnvironmentFails(c)
    \/ DriverStep
    \/ HandleStep
    \/ StartupTimesOut
    \/ \E v \in Versions : Drive(v)
    \/ EvaluationBoundary
    \/ Close

PoolSpec == PoolInit /\ [][PoolNext]_poolVars

\* The threads run; nothing is said about the environments' calls.
PoolFairness ==
    /\ \A c \in Clients : WF_poolVars(ThreadStep(c))
    /\ WF_poolVars(DriverStep \/ HandleStep \/ EvaluationBoundary)

FairPoolSpec == PoolSpec /\ PoolFairness

-----------------------------------------------------------------------------
(* Properties *)

Failed(c) == actor[c] = "gone" /\ ~stopping[c]

\* A drive is only ever aborted because a client, the start or the optimiser failed,
\* or because the server has started a round between the arms of the clients and
\* reconcile_round refuses what they report of different rounds: no command meets a
\* full queue, no event comes at the wrong time, the results of a round are of that
\* round and its policy, and a rollout meets one policy only.
AbortsHaveCause ==
    /\ cause \in {"NONE", "client", "startup", "optimizer", "refused"}
    /\ cause = "client" => \E c \in Clients : actor[c] = "gone"
    /\ cause = "refused" => split = round

\* A client has an observation that the driving thread knows of or will.
Pending == {events[i] : i \in DOMAIN events} \cup {batch[i] : i \in DOMAIN batch}
Observed(c) ==
    \/ available[c] # "none"
    \/ \E e \in Pending : e.client = c /\ e.kind \in {"armed", "step"} /\ ~e.ended

\* The observation of a client is answered although other clients never return
\* from their calls, unless the pool fails.
SurvivorsAct ==
    \A c \in Clients :
        Observed(c) ~> (task[c].kind = "action" \/ driver \in {"closing", "closed"})

\* The environments' calls return or time out.
CallsReturn == \A c \in Clients : WF_poolVars(CallReturns(c))

\* If the environments' calls return, one client's failure ends the drive and
\* stops every actor, wherever each of them is.
FailureStopsAll ==
    CallsReturn =>
        ((\E c \in Clients : Failed(c)) ~> (\A c \in Clients : actor[c] = "gone"))

\* A client's part in the current round.
Ended(c) == \E r \in results \cup Pending : r.client = c /\ r.kind = "step" /\ r.ended

Rounds == INSTANCE GlobalRounds WITH
    number <- round,
    version <- policy,
    part <- [c \in Clients |-> IF observing[c] THEN "playing"
                               ELSE IF round = 0 \/ Ended(c) THEN "ended"
                               ELSE "due"],
    played <- episode

\* The pool plays global rounds.
PoolPlaysRounds == Rounds!GlobalSpec

=============================================================================
