# Verification of the YRush client, trainer, server entrypoint and replay renderer

This directory holds TLA+ modules that model the programs in this repository, the TLC
configurations that check them on small instances, and machine-checked proofs of what they
are to be relied on for. Paths below are relative to the repository; Java
sources are under `client-mod/src/main/java/gg/wellplayed/yrush/client/`, Python sources
under `trainer/src/yrush_trainer/`. The server's entrypoint is the shell script in
`yrush-server/nix/packages.nix`; the replay renderer is under `replay-renderer/`.

## 1. The system

Several Minecraft clients play YRush rounds on one Paper server. Each client runs a
Fabric mod that listens on a loopback port; one Python trainer process connects to all
of them, arms a round on each, answers every observation with an action that the mod
holds for four ticks, and learns from what comes back.

```
  Paper + YRush plugin  --lifecycle packets-->  Fabric client mod  <--TCP, protobuf-->  trainer actor
     (not in the repo)                          YRushClient                             YRushConnection
                                                RoundSequencer                          YRushEnv, _Actor
                                                LoopbackServer                              |
                                                                                   SynchronizedClientPool
                                                                                            |
                                                                              RolloutCollector, training, evaluation
                                                                                            |
                                                                                 checkpoints, run directory

  server container: entrypoint script, monitors --RCON, log, files--> Paper + YRush plugin
  replay renderer:  command --launcher script, lock, job directory--> Minecraft with ReplayRendererMod
```

### Inventory

| Component | State it keeps | Operations | What is hard | What makes it correct |
|---|---|---|---|---|
| **Round sequencer** `core/RoundSequencer.java` | session id, three arms (pending, active, completed), queued and running action, last packet, four counters, four flags, phase | `startSession`, `arm`, `receive` (packet), `receiveAction`, `beginAction`, `completeAction`, `checkDeadline`, `abort` | packets, arms and actions arrive in any order; four ways to reset overlapping parts of the state; an action that crosses the end of its round on the wire | only an armed round, seen from its countdown, is played; at most one action, for the current observation; the late action is dropped once; rounds advance |
| **Fabric client** `YRushClient.java`, `core/LoopbackServer.java`, `core/ReadinessFile.java`, `core/ControlledInputs.java` | hello/ready, readiness file, ticks left, keys down, accepted peer, task queue of the main thread, Paper connection | client ticks, packets, join, disconnect, shutdown; the listener's accept, read, loss | two threads and a task queue; a write that fails in the middle of a handler; Paper and the trainer come and go independently | keys are down exactly while an action is held; frames of one session never reach another; losing either side is reported or noticed |
| **Trainer link** `core/FramedProtobuf.java`, `wire.py` | bytes in flight, backlog | connect, write, read, close | a closed end loses frames; the backlog holds connections nobody serves | order; no wait for a frame that cannot come |
| **Trainer connection and environment** `wire.py` `YRushConnection`, `env.py`, `pool.py` `_Actor` | session, armed round, the action being answered, what of the answer has come | handshake, `arm`, `step`, `shutdown`, retry of the handshake, failure | three messages, in several orders, make one `step`; timeouts; a restart against a client that kept running | each exchange is what the code expects; what is learnt from was executed |
| **YRush server** (outside) | phase of the round, its members and who is still active | lifecycle packets | starts rounds whether or not clients are armed, with players the trainer does not control | external |
| **Client pool** `pool.py` | active and ended clients, one command queue (size 1) per actor, event queue | `drive`, `_arm_all`, actor loop | results of several actors in one batch, failures among them | a command is never given to a busy actor; every round arms every client |
| **Rollout and optimisation** `rollout.py`, `training.py` | per-client transitions, behaviour and learner versions, optimiser future | `add`, `complete`, transition, round boundary, optimiser start | the optimiser thread ends at any time between two boundaries | exactly N transitions per client, all of one policy version |
| **Round reconciliation and evaluation** `evaluation.py` | the reports of a global round, the rounds of a policy | `reconcile_round`, `GlobalRound`, means, `promotion_key` | each client reports what it saw before it was out; other players may win; clients may have played different rounds of the server | reports of one round are accepted and merged into the truth; a promotion is earned |
| **Checkpoints and run directory** `checkpoint.py`, `run_directory.py`, `training.py`, `cli.py` | archives, JSON documents, journals | save, copy, append, load, promote, summarise | the process ends between or inside any two file operations | what a later command reads is whole, and says no more than was done |
| **Paper reconnection** `core/ReconnectBackoff.java`, `YRushClient.startTick` | next attempt, delay | schedule, reset | refusals that nobody reports, late answers, an old request after a loss | the pauses grow to a cap, an outage ends |
| **Server entrypoint** `yrush-server/nix/packages.nix` | readiness file, failure file, generation marker, Paper's log, two monitors | start, wait for clients, launch, verify, publish, monitor, trap, exit | files and the log outlive the container; clients leave and return between two looks; the trap runs between any two commands | readiness is earned by this container and ends with the pool it stands for |
| **Replay renderer** `replay-renderer/` | lock, job directory, staged and published videos, manifest | validate, launch, render, copy, probe, publish, time out | the command kills the launcher script only, Minecraft lives on with the lock | one Minecraft at a time; a video is published whole or not at all |
| **Observation and action encoding, policy, command-line parsing, schema, Nix builds** | none, or numerical | pure functions, numerical libraries, build files | | left out, see section 8 |

Every one of them is listed in `PROJECT.json` with its status, together with the hazards
this code is exposed to and the properties that cover them.

## 2. The modules

| Module | Models | Lines of correspondence |
|---|---|---|
| `EpisodeContract` | an abstract specification: what one session promises a trainer (which round may be armed, played, ended; one action outstanding; the late action) | no code; the refinement mapping is `RoundSequencer!Contract` |
| `RoundSequencer` | `RoundSequencer.java` and the packets `YRushPacket.java` lets through | one action for every outcome of every public method |
| `RoundSequencerProofs` | the theorems about it | |
| `Wire` | the TCP link and the protobuf frames of `protocol/proto/yrush/v1/yrush.proto` | `backlog`, `openConn`, `peer`, one queue in each direction |
| `FabricClient` | `YRushClient.java`, `LoopbackServer.java`, `ReadinessFile.java`, `ControlledInputs.java`, on top of `RoundSequencer` | one action per handler of the main thread, one per step of the listener thread |
| `TrainerConnection` | `YRushConnection`, `YRushEnv`, and the connect, reset, step loop of `_Actor._run` | one action per message received, per send, per failure |
| `FabricBridge` | one actor, one client and the YRush server they play on | composition: every step belongs to one of them and the wire |
| `FabricBridgeProofs` | the theorems about it | |
| `BridgeTalkProofs` | the theorems about the conversation of the two ends, on top of `FabricBridgeProofs` | |
| `GlobalRounds` | an abstract specification: what a pool promises whoever drives it | no code; the refinement mapping is `ClientPool!Rounds` |
| `ClientPool` | `pool.py`: the driving thread, the actor threads, their queues, start and close | one action per step of a thread that another thread, or another module, has a part in |
| `TrainingRun` | `training.py` `train()` up to the end of its drive, and `RolloutCollector`, on top of `ClientPool` | one action per callback outcome, one for the optimiser thread |
| `TrainingRunProofs` | the theorems about the pool, the refinement of `GlobalRounds` among them, and about the training | |
| `Reconciliation` | `evaluation.py`: `reconcile_round` check by check, `GlobalRound`, the means and the promotion key | operators, no state |
| `SharedRounds` | the server's rounds as all clients of a pool see them, outsiders among them, and the reports that come of it | `arm`, `finishEpisode` and `_info` of `env.py`, per client; the server external |
| `TrainingArtifacts` | `train()` by its files and its evaluation, on top of `SharedRounds` | one action for the begin and one for the end of a write, one per stage of `train()` |
| `TrainingArtifactsProofs` | the theorems about its files, about the rounds of an evaluation and about the promotion | |
| `PaperConnection` | the connection attempts of `YRushClient.startTick`, `ReconnectBackoff.java`, `joinedPaper` and `disconnectedPaper` by what they do to the attempts | one action per outcome of a tick, one per event of the Paper connection |
| `PaperConnectionProofs` | the theorems about it | |
| `ReplayRenderer` | `cli.py` and `runner.py` of the renderer, the launcher script, the phases of `ReplayRendererMod.java` | one action per step another process can see |
| `ReplayRendererProofs` | the theorems about it | |
| `ServerEntrypoint` | the entrypoint script, `monitor_pool`, `monitor_watchdog`, the trap | one action per command or query that reads or changes shared state |
| `ServerEntrypointProofs` | the theorems about it | |
| `MCRoundSequencer`, `MCFabricBridge`, `MCTrainingArtifacts` | instances for TLC; the other modules are their own instances | |

A definition whose comment begins with "Mutant" is a plausible slip in the code that the
next definition models. No specification uses it; replacing the definition by it makes
the property named in `PROJECT.json` fail, which shows that the property depends on the code.

### State and actions

`RoundSequencer` keeps the Java fields under shorter names (`latest` is `latestPacket`,
`obsSeq` is `observationSequence`, `completedAct` is `completedActionSequence`, ...);
absence (`null`) is the record `NoArm`, `NoAction` or `NoPacket`. A method that throws
`ProtocolViolation` is always followed by `abort()`, on the same thread, by
`YRushClient.protocolFailure`, so a refusal is one step with the abort in it
(`ArmRefused`, `ActionRefused`, `PacketRefused`, `DeadlineMissed`). `receive(packet)`
records the packet before it judges it, and so does `PacketRefused`. `obsAge` replaces the
absolute client tick: only the difference to the tick of the observation is ever read,
and only while an action is awaited.

`FabricClient` treats a handler of the main thread as atomic: Minecraft runs its events,
packets and `execute`d tasks one at a time. The listener thread is not: `Accept`
publishes the peer, and `AnnounceConnected` queues the task for it only in a later step; in the
same way `PeerLost` and `AnnounceDisconnected`. `tasks` is the queue of `Minecraft.execute`.
`protocolFailure` is `ReportFailure` plus the abort; a failed write (`WriteMayFail`)
aborts in the middle of the handler that wrote, and the `...Unsent` actions say what the
rest of that handler does. `online = "lost"` is the time between the loss of the Paper
connection and its `DISCONNECT` event, in which client ticks already see no player.

`TrainerConnection` has the step of the actor thread in `trainer`: dial, wait for hello
and ready, idle, arming, deciding, stepping. A message that its state does not expect, an
error message among them, closes the connection; during the handshake the actor dials again, later the
run fails, and `TrainerRestarts` is the next process. `exchanges` is a history of what
`step()` returned, in the terms the pool decides by: was the action applied, did the round end.

`ClientPool` keeps one `command` per actor (the queue of size one), the command it is carrying out
(`task`), and the queue of `events`. `TakeEvents` takes all that are there, as `drive` does, and the batch is
handled event by event, so that `receive_transition` has its place. Whether the round has ended, and who is to act, is asked
when the batch is empty. Arms and actions are submitted one by one: an actor may already be at work
while the next is being commanded. What is raised anywhere becomes `Fail` with a `cause`, and leads to `close`, which stops
the actors one by one. `env.reset` and `env.step` may return, fail or never return; what a step may return is what
`FabricBridge` shows it does (`EndsCarryNoAction`). Since arms are submitted one by one, a client whose episode begins after another's may be playing a later round of the server; `split` remembers the
last round that this happened in (`MaySplit`). At the end of a round `reconcile_round` checks first that its results are of the round and its policy (`ResultsAgree`, which never fails), and then that the reports do not
contradict each other. Reports of one round of the server pass, which `SharedRounds` shows check by check (`SharedRoundsAreReconciled`); those of a round that is split may pass or be refused (`MayContradict`), and a refusal aborts
the drive although no part has failed. `PoolSpec` is the pool of `evaluate_policy`; `TrainingRun` adds
the collector, the optimiser thread with its queue of one, and the boundary.

`SharedRounds` is the server from the pool's side. A client is `due`, `armed`, `playing` or `ended` within a global
round; the server starts its own rounds with whoever is connected, so an arm that comes late makes that client play a later
round of the server. `ServerEliminates`, `ServerAwards` and `ServerEnds` produce the reports that
`finishEpisode` and `_info` make of the packets, with the counts, time and direction of that moment. `from` is a history.
`Reconciliation` translates `reconcile_round`: each of its refusals is a named predicate, and `Accepted` is their conjunction.

`TrainingArtifacts` keeps the writes that `train()` is about to make in `todo`, in the order of the code. A `replace` (temporary, then
`os.replace`) takes effect at its end; a `copy` (`shutil.copy2`) tears its target from begin to end; an `append` may
leave a torn last line. `Fails` ends the process anywhere, also inside a write; the run directory stays as it is, since a name is never used
again. A boundary either adopts an update or does not, which is what `TrainingRun` shows of it. The evaluation plays its rounds in `SharedRounds`.

`PaperConnection` keeps the differences of ticks that the code compares: `requestAge`, no further than past the timeout, and `ticksLeft`, no further than zero. `connecting` says that Paper may still answer an attempt:
an attempt that is refused ends with no handler called, and one that the client has given up may still join. A long keeps its width in `Long`, and a shift counts modulo that width, as in Java. `idle` and `lastPause` are histories.

`ReplayRenderer` has for each job (a batch and one of its replays) a launcher script and a Minecraft. The lock is a file descriptor that
Minecraft inherits, so it is free when neither is left. `RenderTimesOut` kills the script alone, as `subprocess.run` does.
`OutputsAreWhole` distinguishes a complete video, one that ends early but can be played, and one that cannot: `probe_video` sees only the last difference.

`ServerEntrypoint` has the main script in `script`, one value for each command at which it can be interrupted or at which another process
may come between. A query is two steps (`AsksForClients` and `HearsClients`), and its answer is old when it is used. The trap (`Shutdown`) runs
between commands. `FailStartup` is the whole of `fail_startup`. `unread` is what the monitor has yet to read of the log: departures of required
clients, since it noted the log's end. The generation is the number of starts, the marker file's content.

The server in `FabricBridge` is external: it is the order of lifecycle packets that
`client-mod/README.md` and `RoundSequencer` expect, with cancelled countdowns,
eliminations, repeated packets, and rounds that start with this client absent.

### Abstractions

- Time is left out but in `PaperConnection`. In the bridge the client may join at any moment while it is off Paper, which stands for
  the attempts and the back-off of that module. The deadline for an action is
  counted in ticks by the sequencer, and in the bridge it runs out only where
  `"late_action"` is among the faults: otherwise the trainer answers in time.
- The contents of observations, actions, targets and rewards are left out, and so are the
  framing and the Protobuf encoding: a frame is a record of what either end compares.
- The seven controlled keys are one flag, `pressed`; `ControlledInputs` sets and releases them together.
- Error codes and messages are left out: any error ends the session the same way.
- A new session id is a value not used before (a random UUID); which one makes no
  difference, so one is chosen.
- `arm()` skips the leftovers of an earlier round. None can be left when it is called
  (`step` returns only once it has both messages of the end), so that branch is not modelled, and a leftover
  would show as an unexpected message. `step()` accepts the two messages of the end in either order; the client
  only ever sends the observation first, so the other order is in the model and never happens.
- In `SharedRounds` an elimination is told before the end of its round, as `reconcile_round` relies on,
  and the number of a round's participants does not change while it runs.
- `ServerEntrypoint` assumes that Paper begins a new log when it starts and at no other time. Intervals and deadlines are left out:
  a loop with a deadline may fail at any pass.
- In `ReplayRenderer` discovery, camera paths and encoder settings are left out; the video is the one thing that counts.
- The server does not repeat a `ROUND_COMPLETE` packet to a client that survived the
  round: `receiveComplete` takes it once and refuses the second.

## 3. Runs

| Run | Instance | What it asks |
|---|---|---|
| `sequencer` | 2 sessions, 3 rounds, 2 policy versions, sequence numbers 0 to 2, deadline of 1 tick; symmetric in the sessions | any call in any order: the invariants of the sequencer, and that it implements `EpisodeContract` |
| `bridge-healthy` | 2 rounds, 2 connections, 1 action per round, nothing fails; with fairness | no error, no failed run, whatever order rounds, arms, late actions and reconnections come in; how a terminal exchange looks; an armed round is played, an action is answered |
| `bridge-faults` | 1 round, 3 ticks held, a connection and then a second, a loss of Paper or a stop of the client, every fault; with fairness | keys and learnt actions under every failure; nothing of an old session is taken for the new one; nobody waits for ever, though the trainer goes, Paper is lost or the client stopped |
| `pool` | 3 clients, evaluations of 2 rounds, any client failing anywhere, a start that takes too long or finds one player twice; with fairness | the pool refines `GlobalRounds`; no survivor waits for another client; a failure stops everything |
| `training` | 2 clients, 2 updates, rollouts of 2 transitions per client, 4 rounds, client and optimiser failures, a start that takes too long or finds one player twice, rounds split over two of the server | what aborts a drive; rollouts of one policy, complete, with their episodes marked; the optimiser's result at any moment between two boundaries |
| `artifacts` | 2 symmetric clients and an outsider, 2 updates, 3 training rounds, evaluations of 1 round that may spread over 2 of the server; the process may end anywhere | the files it leaves are whole, backed and true; reports of one round are reconciled; a promotion is earned |
| `renderer` | 2 batches of 2 replays; with fairness | one Minecraft at a time, videos whole, manifest complete, batches end although Minecraft hangs |
| `paper` | first delay 5, longest 12, timeout 12 ticks, longs of 6 bits; with fairness | off Paper the client always tries again soon, never sooner than before, and comes back |
| `server` | 2 required clients, at most 2 players, 1 other, 2 starts of the container; with fairness | readiness is earned, ends with the pool, and is never left behind; a failure ends the container |
| `bridge-handshake`, `bridge-episode-end`, `bridge-trainer-loss` | | counterexamples, see section 5 |

The bounds and why they are enough:

- `Rounds`: three rounds have an ended one, a live one and an armed one, all different, at once.
- `MaxActions` = 1: the round then has the observation before any action, an action, the
  observation after it, and the action that meets the end. The number of an action only enters
  comparisons with its neighbours, and the sequencer run goes one further.
- `HoldTicks` is 2 or 3, `ACTION_HOLD_TICKS` is 4: with 3 there is a first, a middle and a last tick.
- `MaxDials` = 2: the previous connection's leftovers meet the next one; where connections do
  not matter it is 1.
- `MaxPaperLosses` = 1, with the client joining again afterwards. `MaxTurns` = 2 bounds dials, losses and the stop of the client together: a behaviour
  has one of them beside the connection it starts with. The proofs hold for any bound.
- `DeadlineTicks` is 0 or 1: the deadline is met exactly, or missed by one tick.
- `Sessions` has as many ids as connections and Paper losses can use; `SessionsLeft` keeps a client that has drawn them all from
  beginning another session. A real client always draws one more.
- The trainer answers an observation while `answered.act < MaxActions`, and the observation numbered `MaxActions` only if the round is over on the server:
  that last action is the one that meets the end.

- `Clients`: three in the pool, so that one can fail and one be stuck while a third goes on; two in the
  training, where they fill their halves of a rollout at different speeds.
- `RolloutLength` = 2 has a first and a later transition, an episode that ends inside a rollout and a client that is
  full before the other; `Updates` = 2 has a rollout before and one after a change of policy; `MaxRounds` = 4 leaves
  rounds in which the optimiser is not ready.

- `Outsiders` = 1: one other player makes the count differ from the pool's, wins, or outlives it. `MaxClock` = 1 tells an early
  win from a late one. `Distances` has one value: of the distance the promotion key then only sees whether there was a draw to measure, which is
  what `PromotionIsEarned` is about; the comparison of two distances is that of two times.
- `MaxServerRounds` = 2 lets two clients play different rounds of the server for one global round, and the second begin before the first report is used.
- `EvaluationRounds` = 1: a policy's report is then one of the kinds of round; `Updates` = 2 has a latest archive that replaces another.
- `LongBits` = 6 with a first delay of 5: the second delay doubles, the third is cut to 12, the fourth would not fit into a long, and `MaxAttempts` = 5 goes past the last shift. The code has 20, 600 and 64 bits.
  `AttemptTimeoutTicks` is the longest delay, as in the code. `MaxAttempts` ends the counting of failures where all delays are the same, which `BackoffAssumption` asks for.
- Two batches of two replays: a killed launcher's Minecraft meets the next job of its own batch and of the other.
- `MaxPlayers` = 2 with one other player: the server can be full without a required client. `MaxGenerations` = 2: one container finds the files and
  the log of the one before.

All configurations but the sequencer's and `paper` say `CHECK_DEADLOCK FALSE`: a trainer that has used its bounded rounds and connections, a client that
has been stopped, a pool that is closed, a run or a batch that has ended and a container that is not started again really stop.

## 4. Fairness

`BridgeFairness` assumes weak fairness of each thread's steps: the listener thread, the main thread's tasks
and ticks, the actor's receiving, dialling and answering. These are threads blocked in a read, a queue or a tick loop
that wake when there is something to do. It assumes weak fairness of joining Paper
(`startTick` retries for ever), of the disconnect handler, and of the server opening countdowns, completing and cleaning up rounds. `StartRound` is strongly fair because a countdown may be
cancelled: the assumption is that not every countdown is. Nothing is assumed about
arming, eliminations, failures, timeouts, or `CloseLawfully`: these may happen or not.
The pool assumes weak fairness of its threads alone. `SurvivorsAct` holds although no environment call
ever has to return; `FailureStopsAll` assumes in the property itself that calls return, which their timeouts see to.
Not even the trainer's timeouts are used for `NeverLeftWaiting`: the message timeout exists in the
code, the property says that it is not needed.

`RendererSpec` assumes weak fairness of the launcher scripts and of each batch, whose step at a launcher that hangs is the timeout: time passes.
It assumes nothing of Minecraft, so `BatchesEnd` holds when one hangs for ever with the lock. `EntrypointSpec` assumes that the script, the
monitors and Paper's own steps (boot, new log, stopping when asked) are taken, and, strongly, that a Paper that is asked for ever
answers at times. Without the last, a hung Paper keeps the container ready, because the monitor treats an unanswered query as no news
(`MonitorIsNotAnswered`). Nothing is assumed of clients, of Paper's crashes, of termination or of a restart. `TrainingArtifacts` has
safety properties only and no fairness. `PaperConnectionSpec` assumes that the client ticks and handles a loss, and, strongly, that of the attempts which Paper could answer again and again one joins. It does not assume that attempts are made: that
is what `ReturnsToPaper` shows of the timeout and the pauses.

## 5. What the counterexamples show

- **One handshake, two sessions** (`bridge-handshake`). A trainer whose handshake times out while the client is joining Paper dials again
  after at most a second. `LoopbackServer` publishes the new peer before its task, and before the task that reports the old connection's loss, have run;
  `joinedPaper` begins a session with it; then the `disconnected` task, which checks no connection id, ends that session, and the
  `connected` task begins another on the same connection. The trainer that has finished its handshake meets a second hello.
- **Terminal transitions are never learnt from** (`bridge-episode-end`). A held action is acknowledged together with
  an active observation, so the end of a round always meets the *next* action, which is dropped or cut short. That exchange
  has `action_applied` false, `env.py` marks it no valid transition, and the pool discards it, with its
  reward and `terminated`; `trainer/README.md` counts the termination state among what a rollout stores. The invariant
  `EndsCarryNoAction` of `bridge-healthy` states what the code does.
- **A failed last write throws** (`bridge-trainer-loss`). If writing the final observation fails, `sendTrainer` aborts the
  sequencer, and `finishEpisode` then reads the round of an arm that is gone.

What else the models showed, where no line of the repository promises otherwise or the promise is a matter of reading:

- **One global round, two server rounds.** `_arm_all` arms one client after the other; a server
  that starts its round in between starts it for some of them, and the others play the next. `SharedRounds` has it. `SharedRoundIsReconciled` speaks of
  clients that have played one round; of a mixed one, `reconcile_round` refuses what contradicts itself and accepts the rest: when every client was eliminated in its
  own round of the server and one of these ended with nobody left, the global round counts as observed although an outsider may
  still play the other (compare `trainer/README.md`, lines 27 to 29). What is accepted is at least consistent (`AcceptedRoundsHaveOneEnd`).
- **A batch that dies leaves no manifest.** The renderer's `cli.py` catches `ReplayValidationError`, `RenderFailure` and `ValueError`; an `OSError` ends the command after videos may have been published,
  while `replay-renderer/README.md`, lines 28 and 29, has all results and failures recorded (`BatchDies`).
- **A loss that counts twice.** Joining does not renew `connectRequestTick`. If a client tick comes between the loss of the connection and its `DISCONNECT` event, `startTick` takes the old request for one that has timed out, and the event then counts a second failure:
  the first new attempt follows after 40 ticks and not 20. The pauses still only grow (`PausesGrow`).
- **The entrypoint.** Readiness may be published after the trap has run, and stands until the script exits (`ExitsCleanly` shows that it is then removed). A client that leaves and is back
  before the monitor has noted the log's end and asked for the first time is missed. A shutdown may race the monitor into recording a failure, and exit with 1
  instead of 143. When the check of the pool cannot be answered, `fail_startup` runs in a subshell, and the container exits without waiting for Paper to stop
  (`PoolUnanswered`). The watchdog's `wait` for a process that is not its child returns 127 at once, so its message gives no real status.

## 6. What is proved

Every module of proofs has the same shape: an inductive invariant as a conjunction of named parts, a lemma that the initial states have it, one lemma or
step for each action, and temporal theorems whose last step combines them. TLC has checked each of these invariants on the instances of section 3 before it was proved.

### The sequencer

`RoundSequencerProofs` proves, for every set of sessions, rounds, policies, requests and
sequence numbers and every deadline allowed by `SequencerAssumption` (rounds and requests are positive,
the blank session id is not drawn), every invariant and action property that the run `sequencer` checks:

| Theorem | Statement |
|---|---|
| `SequencerTypeCorrect` | `SequencerSpec => []SequencerTypeOK` |
| `KeptActionsAreCurrent` | `[]KeptActionIsCurrent` |
| `PhasesFollowEpisodes` | `[]PhaseFollowsEpisode` |
| `LivesInActiveRound` | `[]LiveOnlyInActiveRound` |
| `EndedEpisodesAreRemembered` | `[]EndedEpisodeRemembered` |
| `RoundsAlwaysAdvance` | `[]RoundsAdvance` |
| `MidRoundArmsSkip` | `[]MidRoundArmSkips` |
| `SequencerRefinesContract` | `SequencerSpec => Contract!ContractSpec` |

The argument. None of the safety invariants is inductive alone. That rounds advance needs to know that the ended episode *is* the
completed one (`EndedEpisodeRemembered`), because an arm is compared with one and clean-up leaves the other; that a
kept action answers the current observation needs the phase to follow the episode, because the phase is what the
code checks; that an episode is live only in an active round needs the completed and the mid-round cases excluded, which are kept out by
the phase of the last packet. Their conjunction `SequencerInv`, with the types and
`ObservationsCountActions` (`CompleteAction` sets both counters from one), is inductive: `InitInv`, `StepInv` (one case per action), `InvariantHolds`.

The refinement maps the armed round, the live round, the highest round an arm must exceed,
the number of completed actions and whether one is outstanding. `StepRefines` shows, from `SequencerInv` before and after the step,
which action of the contract every action of the sequencer is; the ones that stutter are
packets that do not concern an episode, clean-up (the highest round moves from one arm to the other, which
needs `EndedEpisodeRemembered`), the beginning of a queued action, and ticks.

### The bridge

`FabricBridgeProofs` proves of one client, its listener, the wire, the trainer's actor and the server, for every number of connections, rounds,
actions, ticks held and Paper losses, and every set of faults:

| Theorem | Statement |
|---|---|
| `BridgeInvariant` | `BridgeSpec => []BridgeInv` |
| `KeysFollowTheAction` | `[]KeysFollowAction` |
| `LearntActionsAreHeld` | `[]LearntActionsWereHeld` |
| `EndsNeverCarryActions` | `[]EndsCarryNoAction` |
| `BridgeKeepsContract` | `SequencerKeepsContract`: the client's sequencer still refines `EpisodeContract` |

It assumes the assumptions of the modules it composes and `BridgeAssumption`: the sets of the client's instance hold the
rounds, policies, requests and numbers that the trainer of the instance sends. The argument has four parts; the last has a module of its own.

*The sequencer underneath.* A handler of `YRushClient` does to the sequencer what one of its methods does, or, if a write fails in the middle, leaves it
aborted whatever the rest of the handler does (`Unsent`). `StepMoves` shows that every step of the bridge is of these kinds; so `SequencerInv` holds in the bridge as well, and
`UnsentResets` makes such an abort a step of the contract.

*The order of sessions.* Keys are released when a session ends, but the `disconnected` task releases those of whatever session is current, and a new session may
begin on a join before that task has run. That a running action is still being held therefore rests on when actions can be queued at all: no message of a peer is handled before the peer has been announced,
nor between a disconnection and that announcement (`DisconnectionsFirst`, `SessionBeforeMessages`), which in turn rests on the connection numbers growing from the backlog through the
listener to the task queue (`ConnectionsInOrder`, `PeerOfAcceptor`). With them `KeysFollowAction` is inductive.

*What the trainer is told.* An acknowledgement is written together with an active observation, and only for an action whose ticks were counted down with the keys down (`TicksAddUp`).
`AcknowledgementsFollowed` says so of every frame in flight and `AppliedIsFollowed` of the actor that has read the first of the two. From these follow both properties of
`exchanges`: an applied action was held, and the end of an episode, which arrives instead of that observation, never comes with one.

*What the two ends say.* `BridgeTalkProofs` states the whole conversation of a session, on top of `BridgeInv`:

| Theorem | Statement |
|---|---|
| `ConversationIsKept` | `BridgeSpec => []ConversationInv` |
| `TalkFollowsTheSession` | `[]TalkFollowsSession` |
| `HealthyLinksNeverFail` | `NothingFails => (BridgeSpec => []HealthyLinkNeverFails)` |

`Script` says, for each state of the trainer, which frames lie on the wire to it, from the first to the last, and what the client may still add: nothing between two rounds (`Between`), the
start of the armed round (`Awaiting`), the answer to the current action (`Playing`), or nothing any more, since the end of the round is already there (`Ends`). An error may cut it off anywhere; what follows an error is never read. `TalkFollowsSession` is
what it says of the first frame. It is inductive only together with what may disturb it from elsewhere:

- a message still on its way or in the task queue is one the trainer has sent in this round or before (`MessagesFit`), and an arm among them is the one in force or too old to be taken (`ArmsFit`): otherwise the client could answer something the trainer no longer waits for;
- a disconnection that the main thread has yet to handle, which aborts whatever session is current, meets one that has heard nothing yet (`DisconnectionMeetsNothing`);
- a session that begins is known to nobody (`SessionsAreDrawn`), a connection in the backlog has heard nothing (`WaitingIsSilent`), and without a peer nobody is heard (`NobodySends`): so a reconnection begins the script anew;
- the trainer's own variables agree with its state (`TrainerFits`).

The proof reduces the client's handlers to the few things they do to the conversation (`Turns`: take an arm, take an action, start, complete, finish, report, fall silent), and the trainer's to reading the first frame or sending one.

*When nothing fails.* `NothingFails` says that no fault of `Faults` and `TrainerFaults` is allowed: Paper is not lost, no write fails, no process goes, nothing times out. What is left is a trainer that dials, plays, ends its run and dials again, over a
client that joins Paper early or late, and a server that opens, cancels, ends and repeats its rounds as it likes. `HealthyLinksNeverFail` says that no run fails and no error is sent then, which `ConversationInv` does not: it allows an error at any time. `HealthyInv` adds what keeps one away:

- the server's packets never contradict the last one that the client has seen, nor a round that it plays or was eliminated from (`OnPaper`, `ServerTells`), and before Paper the link is silent (`OffPaper`);
- a message on its way to the client is of the current session, and one that it takes or drops (`RequestsFit`): an arm for which it is free, the action of the observation that it waits with, or the one action that the end of a round has overtaken. An arm may be on its way behind such an action, and nothing else behind anything (`RequestsInOrder`);
- the end that the trainer has yet to hear of is the one that the client remembers, and no action has been dropped for it yet unless it is the one of the step that waits (`EndsRemembered`): so the action that answers the last observation before the end is recognised as late, once;
- a connection that is open is accepted or waits to be, with one announcement and no disconnection behind it (`ConnectionHolds`, `AnnouncedOnce`, `SessionHolds`): so no session is aborted under the trainer.

The proof goes through the conversation: `ScriptLive` and `TerminalMeansEnded` read off the script where the trainer is when a round is live or has ended, `ServerTells` shows each packet to be in order, and `HealthyClient` and `HealthyTrainer` reduce a step to the few that remain. `TLC` has checked `HealthyInv` at the bounds of `bridge-healthy` and at larger ones.

### The pool and the training

`TrainingRunProofs`, of the pool for any set of clients, versions, numbers of rounds and faults (`PoolAssumption`), and of the training for any rollout length and number of updates as well (`TrainingAssumption`):

| Theorem | Statement |
|---|---|
| `PoolInvariant` | `PoolSpec => [](PoolInv /\ AbortsHaveCause)` |
| `PoolAbortsHaveCause` | `PoolSpec => []AbortsHaveCause` |
| `PoolImplementsRounds` | `PoolSpec => PoolPlaysRounds`: the pool refines `GlobalRounds` |
| `TrainInvariant` | `TrainSpec => []TrainInv` |
| `TrainingAbortsHaveCause` | `TrainSpec => []AbortsHaveCause` |
| `RolloutsAreOfOnePolicy` | `TrainSpec => []RolloutOfOnePolicy` |
| `RolloutsMarkStarts` | `TrainSpec => []StartsMarkRounds` |
| `TrainingImplementsRounds` | `TrainSpec => PoolPlaysRounds` |

That the driving thread never meets a full queue or an event out of place is a matter of turns: at any time a client is in one place, among connecting, being
awaited, a command, a task, an event, the batch, an available observation and a result (`OneTurn`), and it has said one thing at most (`SpeakOnce`). `CommandsSuit`, `EventsFit`, `ResultsFit` and `EpisodesFit` say that what is in
those places is of the current round and policy; `DriverFits` says what is over by the time the driving thread moves on. So `AbortsHaveCause`: what aborts a drive is a client that is gone, the start, the optimiser's own failure, or a
refusal of `reconcile_round`, and that only in the round that the clients have split. `PoolInv` holds whoever drives the pool, and the training reuses it step by step. The refinement maps each client to the
part that its place tells (`Part`).

Of the training, `PoliciesFit` orders the three owners of a rollout: it is filled, optimised or handed over, and the policy of the round is the active one.
`StartFits` says, for each place a client's turn can be in, whether its next transition begins an episode, which is what `StartsMarkRounds` comes down to.

### The files and the evaluation of a training

`TrainingArtifactsProofs`, for any number of updates (`UpdatesAssumption`, which `config.py` checks), clients, other players and rounds:

| Theorem | Statement |
|---|---|
| `ArtifactInvariant` | `ArtifactSpec => []ArtifactInv` |
| `ArchivesAreWhole` | `[]CheckpointsAreWhole` |
| `UpdatesAreBacked` | `[]JournalIsBacked` |
| `SummariesAreTrue` | `[]SummaryIsTrue` |
| `ArchivesOnlyMoveOn` | `ArchivesMoveOn`, an action property |
| `RoundsAreKept` | `[]SharedInv` |
| `SharedRoundsAreReconciled` | `[]SharedRoundIsReconciled` |
| `AcceptedRoundsHaveOneEnd` | of any reports: those that `Accepted` holds of have one end and one winner |
| `PromotionsAreEarned` | `[]PromotionIsEarned` |

What a write does to these depends on what was written before it and on what is yet to come. `Progress` therefore gives, for each phase of `train()` and each rest of its writes, exactly what the files hold; the four
properties follow from it (`ProgressIsSafe`), and stay true of a process that has ended because nothing writes any more (`Over`).

Of the rounds of an evaluation `SharedInv` says that a report of the server's present round stays true of it while it goes on (`ReportsFit`: a client reported as eliminated is out, the number left active only falls, a report of an end
is of that end), and that the last report saw the state in which the round is left (`LastReport`). The second is what the smallest count of active players, from which `TerminalObserved` concludes, depends on. That `reconcile_round` accepts the reports, check by check, and names the server's winner
follows by cases on that winner: a client (`WonRound`), another player (`LostRound`) or nobody. The theorem needs a finite pool with a player each (`PlayersAssumption`; `pool.py` refuses an empty pool and two endpoints of one player).

`AcceptedRoundsHaveOneEnd` asks the converse, and not only of reports that are true: whatever `reconcile_round` accepts, a pool round that mixes two of the server included, has one end. The cascades of `reconcile_round` and
`GlobalRound.outcome` could be read in any order: a round that is completed is not stopped, everybody who has seen the end names its winner, and it is the pool's completion exactly if a single client has won.

Of the promotion `PromotionFits` says that the untrained policy is the best until the second report is there, and that the trained one is promoted in a run that evaluates only if that report earns it. It needs `Progress` for which policy is
under evaluation and for a run without evaluation. `BetterIsEarned` reads the rest off `promotion_key`: a greater completion rate, and a mean that is less than another, need a round to count, because the mean of nothing is infinite. What the sums are is not needed.

### The connection to Paper

`PaperConnectionProofs`, for any bounds of the back-off, any timeout and any width of a long (`BackoffAssumption`; the constructor of `ReconnectBackoff` refuses other bounds):

| Theorem | Statement |
|---|---|
| `DelaysAreBounded` | `DelayTicks(attempt)` is from `InitialTicks` to `MaximumTicks`, and not greater than `DelayTicks(attempt + 1)` |
| `PaperInvariant` | `PaperConnectionSpec => []PaperInv` |
| `SilencesAreBounded` | `[]SilenceIsBounded` |
| `PausesOnlyGrow` | `PausesGrow`, an action property |

`DelaysDouble` shows that `delayTicks` doubles the first delay until the longest would be exceeded: below the guards, shift and product fit into a long. That powers of two grow is not taken by induction but from the subsets of `1..n`, of which
there are `2^n` (`PowersGrow`). `PaperInv` then says of a pause, the ticks that have passed and those left together, that it lies between the last pause and the delay of one more failure (`PauseFits`), and of a request that only a client off Paper loses it (`RequestFits`).

### The server's entrypoint

`ServerEntrypointProofs`, for any required clients, other players and number of starts:

| Theorem | Statement |
|---|---|
| `EntrypointInvariant` | `EntrypointSpec => []EntrypointInv` |
| `ReadinessIsEarned` | `[]ReadyIsEarned` |
| `ContainerExitsCleanly` | `[]ExitsCleanly` |

The readiness file is published from what the script learnt several steps before. The invariant says for each place of the script what it has learnt by then (`NoEarlyReadiness`, `LaunchKept`, `ReadinessOfGeneration`, `FailureNoted`), and that
the monitors, which write the same files, run only beside a script that waits for Paper (`MonitorsBesideServer`).

### The renderer

`ReplayRendererProofs` proves, for any set of batches and any number of replays (`RendererAssumption`):

| Theorem | Statement |
|---|---|
| `RuntimeHasOneMinecraft` | `RendererSpec => []OneMinecraft` |
| `PublishedVideosAreWhole` | `[]OutputsAreWhole` |
| `ManifestsAreComplete` | `[]ManifestAccounts` |

`RendererInv` is inductive. That videos are whole rests on `SuccessIsEncoded`: a directory that reports success has no video that is still being written, and a
script that has copied the video copies the status from a directory nobody can write to any more, because its Minecraft is gone. That a manifest
accounts for its batch rests on `BatchesAccount`: the replays before the one a batch is at are accounted for, those after it are as they were. A batch that
has died accounts for nothing, and has no manifest. The safety of the lock (`LoneMinecraft`) needs the types only.

## 7. What is only model-checked

All liveness (`ArmedRoundIsPlayed`, `ActionIsAnswered`, `NeverLeftWaiting`, `SurvivorsAct`, `FailureStopsAll`, `BatchesEnd`, `ReturnsToPaper`, the entrypoint's three), which is out of this
prover's reach. Every invariant and every action property of the runs is proved, for all values of the constants.

That a closed rollout is adopted in the end is not stated, as the number of rounds is bounded.

## 8. What is not modelled, and the plan

Left out for good: the encoding of observations and actions (floating-point and bit packing without state), the policy network and PPO
(numerical), GAE (floating-point), argument parsing and configuration, console, metrics, Nix builds. Another process that evaluates a run while it is being trained
is left out as well: nothing in the repository starts one.

Left out of modules that are there:

- Of the entrypoint, a command that fails under `set -e`, a full disk between two of its first writes for example (`packages.nix`, lines 158 to 176), and the death of the watchdog
  process itself: `FailureEndsContainer` speaks of the monitor's.
- Of the renderer, the process tree between the launcher and Minecraft. The lock is inherited by all the launcher's descendants; the model merges them with Minecraft, so the lock is free when the last of them is gone.
- Of the pool, what else may be raised in the driving thread, by the policy, a callback or a disk that is full: `TrainingArtifacts` ends the process at any such point, `ClientPool` does not.
- Of a client that is back on Paper, whether the phase it still knows is the server's: the properties of the sequencer judge an arm by the last packet.
- Of `reconcile_round` in the pool, which of its checks refuses a split round: `Reconciliation` has the checks, `ClientPool` only that one may fail.

Not done yet: the remaining commands of `cli.py` (`smoke`, `evaluate`, `run`) as other users of the pool, where they differ from `train`.
