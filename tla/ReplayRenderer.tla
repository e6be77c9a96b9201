--------------------------- MODULE ReplayRenderer ---------------------------
(***************************************************************************)
(* The replay renderer: batches of replays (cli.py), each rendered in a    *)
(* process of its own (runner.py, render_one), by a launcher script that   *)
(* takes a lock, runs Minecraft with ReplayRendererMod, and copies what it *)
(* has left.  A batch gives up a launcher that takes too long, by killing  *)
(* the script alone: Minecraft lives on, with the lock it has inherited.   *)
(*                                                                         *)
(* Every batch has an output directory of its own; the runtime directory   *)
(* and its lock are shared.  Minecraft may crash or hang at any point.     *)
(***************************************************************************)
EXTENDS Naturals, FiniteSets

CONSTANTS
    Batches,        \* runs of the command
    Replays         \* how many replays each has discovered

ASSUME RendererAssumption == Replays \in Nat

Items == 1..Replays
Jobs == Batches \X Items

VARIABLES
    cli,            \* each batch: "validating", "waiting" for its launcher, "ended" or "dead"
    item,           \* the replay it is at
    launcher,       \* of each job: "none", "queued", "running", "copying", "exited" or "killed"
    minecraft,      \* of each job: "none", "starting", "opening", "rendering", "closing", "gone"
    jobDir,         \* what Minecraft has left: its status, video and exit code
    staged,         \* the status and video copied to render_one's temporary directory
    output,         \* the video of each replay, "old" for what was there before
    successes, failures,
    manifest        \* render-manifest.json of each batch, "old" for what was there before

minecraftVars == <<minecraft, jobDir>>
batchVars == <<cli, item, output, successes, failures, manifest>>
rendererVars == <<minecraftVars, batchVars, launcher, staged>>

Nothing == [status |-> "none", video |-> "none", code |-> 0]

RendererInit ==
    /\ cli = [b \in Batches |-> "validating"]
    /\ item = [b \in Batches |-> 1]
    /\ launcher = [j \in Jobs |-> "none"]
    /\ minecraft = [j \in Jobs |-> "none"]
    /\ jobDir = [j \in Jobs |-> Nothing]
    /\ staged = [j \in Jobs |-> Nothing]
    /\ output = [j \in Jobs |-> "old"]
    /\ successes = [b \in Batches |-> {}]
    /\ failures = [b \in Batches |-> {}]
    /\ manifest = [b \in Batches |-> "old"]

-----------------------------------------------------------------------------
(* ReplayRendererMod.java, and what may become of the process it is in *)

Alive(j) == minecraft[j] \notin {"none", "gone"}

Goes(j, from, to, status, video) ==
    /\ minecraft[j] = from
    /\ minecraft' = [minecraft EXCEPT ![j] = to]
    /\ jobDir' = [jobDir EXCEPT ![j].status = status, ![j].video = video]

\* onEndTick: the replay is opened, then rendered once its scene is there.
OpensReplay(j) == Goes(j, "starting", "opening", "working", "none")
BeginsRender(j) == Goes(j, "opening", "rendering", "working", "partial")

\* The encoder may still have produced something that cannot be played.
CompletesRender(j) ==
    \E video \in {"whole", "broken"} : Goes(j, "rendering", "closing", "success", video)

\* fail(), also for a replay that does not open in time.
ReportsFailure(j) ==
    \E from \in {"starting", "opening", "rendering"} :
        Goes(j, from, "closing", "failure", jobDir[j].video)

\* The exit code is what HeadlessMC makes of it; a crash leaves the files as they
\* are.  Nobody looks into the directory of a script that was killed.
Exits(j) ==
    /\ Alive(j)
    /\ minecraft' = [minecraft EXCEPT ![j] = "gone"]
    /\ IF launcher[j] = "killed"
       THEN jobDir' = [jobDir EXCEPT ![j] = Nothing]
       ELSE \E code \in {0, 1} : jobDir' = [jobDir EXCEPT ![j].code = code]

MinecraftNext ==
    /\ \E j \in Jobs : OpensReplay(j) \/ BeginsRender(j) \/ CompletesRender(j)
                       \/ ReportsFailure(j) \/ Exits(j)
    /\ UNCHANGED <<batchVars, launcher, staged>>

-----------------------------------------------------------------------------
(* The launcher script *)

\* Mutant: Minecraft does not inherit the lock.
LockOfScript == \A j \in Jobs : launcher[j] \notin {"running", "copying"}

\* The descriptor is the script's and, once it runs, Minecraft's.
LockFree == \A j \in Jobs : launcher[j] \notin {"running", "copying"} /\ ~Alive(j)

TakesLock(j) ==
    /\ launcher[j] = "queued"
    /\ LockFree
    /\ launcher' = [launcher EXCEPT ![j] = "running"]
    /\ minecraft' = [minecraft EXCEPT ![j] = "starting"]
    /\ UNCHANGED <<batchVars, jobDir, staged>>

CopiesVideo(j) ==
    /\ launcher[j] = "running"
    /\ minecraft[j] = "gone"
    /\ launcher' = [launcher EXCEPT ![j] = "copying"]
    /\ staged' = [staged EXCEPT ![j].video = jobDir[j].video]
    /\ UNCHANGED <<batchVars, minecraftVars>>

\* The status, and the exit code of Minecraft as its own; the directory is removed.
CopiesStatus(j) ==
    /\ launcher[j] = "copying"
    /\ launcher' = [launcher EXCEPT ![j] = "exited"]
    /\ staged' = [staged EXCEPT ![j].status = jobDir[j].status, ![j].code = jobDir[j].code]
    /\ jobDir' = [jobDir EXCEPT ![j] = Nothing]
    /\ UNCHANGED <<batchVars, minecraft>>

LauncherNext == \E j \in Jobs : TakesLock(j) \/ CopiesVideo(j) \/ CopiesStatus(j)

-----------------------------------------------------------------------------
(* The batch *)

Job(b) == <<b, item[b]>>
Due(b) == item[b] \in Items

NextItem(b) ==
    /\ cli' = [cli EXCEPT ![b] = "validating"]
    /\ item' = [item EXCEPT ![b] = @ + 1]
    /\ UNCHANGED manifest

\* A failure is noted, and the temporary directory removed with what is in it.
NoteFailure(b) ==
    /\ failures' = [failures EXCEPT ![b] = @ \cup {item[b]}]
    /\ staged' = [staged EXCEPT ![Job(b)] = Nothing]
    /\ NextItem(b)
    /\ UNCHANGED <<output, successes>>

\* validate_replay, and the requested end against the replay's duration
RefuseReplay(b) ==
    /\ cli[b] = "validating"
    /\ Due(b)
    /\ NoteFailure(b)
    /\ UNCHANGED <<minecraftVars, launcher>>

LaunchRender(b) ==
    /\ cli[b] = "validating"
    /\ Due(b)
    /\ cli' = [cli EXCEPT ![b] = "waiting"]
    /\ launcher' = [launcher EXCEPT ![Job(b)] = "queued"]
    /\ UNCHANGED <<minecraftVars, item, output, successes, failures, manifest, staged>>

\* Mutant: the time that a launcher waits for the lock is not counted.
TimedInLock(b) == launcher[Job(b)] \in {"running", "copying"}

Timed(b) == launcher[Job(b)] \in {"queued", "running", "copying"}

\* subprocess.run kills the script and nothing else.
RenderTimesOut(b) ==
    /\ cli[b] = "waiting"
    /\ Timed(b)
    /\ launcher' = [launcher EXCEPT ![Job(b)] = "killed"]
    /\ jobDir' = [jobDir EXCEPT ![Job(b)] = IF Alive(Job(b)) THEN @ ELSE Nothing]
    /\ NoteFailure(b)
    /\ UNCHANGED minecraft

\* Mutant: the exit code is taken for the status.
ClaimedByCode(s) == s.code = 0 /\ s.video # "none"

\* parse_status, the exit code, and whether there is a video at all.
Claimed(s) == s.status = "success" /\ s.code = 0 /\ s.video # "none"

\* What probe_video may accept: it sees whether a video can be played, not
\* whether all of it is there.
Playable(s) == s.video \in {"whole", "partial"}

\* Mutant: the video is in its place before it is probed.
PublishUnprobed(b) ==
    /\ output' = [output EXCEPT ![Job(b)] = staged[Job(b)].video]
    /\ successes' = [successes EXCEPT ![b] = @ \cup {item[b]}]
    /\ failures' = [failures EXCEPT ![b] = @ \cup {item[b]}]

\* os.replace
Publish(b) ==
    /\ output' = [output EXCEPT ![Job(b)] = staged[Job(b)].video]
    /\ successes' = [successes EXCEPT ![b] = @ \cup {item[b]}]
    /\ UNCHANGED failures

Rendered(b) == cli[b] = "waiting" /\ launcher[Job(b)] = "exited"

\* A probe may also fail for reasons of its own.
RefuseRender(b) == Rendered(b) /\ NoteFailure(b) /\ UNCHANGED <<minecraftVars, launcher>>

Acceptable(b) == Rendered(b) /\ Claimed(staged[Job(b)]) /\ Playable(staged[Job(b)])

AcceptRender(b) ==
    /\ Acceptable(b)
    /\ Publish(b)
    /\ staged' = [staged EXCEPT ![Job(b)] = Nothing]
    /\ NextItem(b)
    /\ UNCHANGED <<minecraftVars, launcher>>

WriteManifest(b) ==
    /\ cli[b] = "validating"
    /\ ~Due(b)
    /\ cli' = [cli EXCEPT ![b] = "ended"]
    /\ manifest' = [manifest EXCEPT ![b] = "new"]
    /\ UNCHANGED <<minecraftVars, launcher, staged, item, output, successes, failures>>

\* An OSError is nobody's failure: it ends the command, without a manifest, and
\* perhaps after the video has been published.
BatchDies(b) ==
    /\ cli[b] = "validating" \/ Rendered(b)
    /\ cli' = [cli EXCEPT ![b] = "dead"]
    /\ \/ UNCHANGED output
       \/ Acceptable(b) /\ output' = [output EXCEPT ![Job(b)] = staged[Job(b)].video]
    /\ UNCHANGED <<minecraftVars, launcher, staged, item, successes, failures, manifest>>

BatchStep(b) ==
    \/ RefuseReplay(b)
    \/ LaunchRender(b)
    \/ RenderTimesOut(b)
    \/ RefuseRender(b)
    \/ AcceptRender(b)
    \/ WriteManifest(b)

BatchNext == \E b \in Batches : BatchStep(b) \/ BatchDies(b)

RendererNext == MinecraftNext \/ LauncherNext \/ BatchNext

\* The scripts and the batches run, and time passes; Minecraft may hang.
RendererSpec ==
    /\ RendererInit
    /\ [][RendererNext]_rendererVars
    /\ WF_rendererVars(LauncherNext)
    /\ \A b \in Batches : WF_rendererVars(BatchStep(b))

-----------------------------------------------------------------------------
(* Properties *)

\* A video is replaced by a complete one or left as it was, however a render ends.
OutputsAreWhole == \A j \in Jobs : output[j] \in {"old", "whole"}

\* However many launchers are killed, no two instances of Minecraft use the runtime
\* directory at a time.
OneMinecraft == Cardinality({j \in Jobs : Alive(j)}) <= 1

\* A new manifest names each replay once: as rendered if its video is new, as
\* failed if it is the old one.
ManifestAccounts ==
    \A b \in Batches : manifest[b] = "new" =>
        /\ successes[b] = {i \in Items : output[<<b, i>>] # "old"}
        /\ failures[b] = Items \ successes[b]

\* A batch ends although Minecraft hangs, its own or another batch's.
BatchesEnd == \A b \in Batches : <>(cli[b] \in {"ended", "dead"})

=============================================================================
