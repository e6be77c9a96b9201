------------------------ MODULE ReplayRendererProofs ------------------------
(***************************************************************************)
(* The renderer's invariants, for any number of batches and replays: one   *)
(* Minecraft at a time, whole videos, and manifests that account for them. *)
(***************************************************************************)
EXTENDS ReplayRenderer, FiniteSetTheorems, TLAPS

Videos == {"none", "partial", "whole", "broken"}
Left == [status : {"none", "working", "success", "failure"}, video : Videos, code : {0, 1}]

\* The domains of the renderer's variables, on which the other parts of the
\* inductive invariant rest.
RendererTypeOK ==
    /\ cli \in [Batches -> {"validating", "waiting", "ended", "dead"}]
    /\ item \in [Batches -> Nat \ {0}]
    /\ launcher \in [Jobs -> {"none", "queued", "running", "copying", "exited", "killed"}]
    /\ minecraft \in [Jobs -> {"none", "starting", "opening", "rendering", "closing", "gone"}]
    /\ jobDir \in [Jobs -> Left]
    /\ staged \in [Jobs -> Left]
    /\ output \in [Jobs -> Videos \cup {"old"}]
    /\ successes \in [Batches -> SUBSET Items]
    /\ failures \in [Batches -> SUBSET Items]
    /\ manifest \in [Batches -> {"old", "new"}]

\* A batch that waits for a launcher is at one of its replays.
WaitsAtItem == \A b \in Batches : cli[b] = "waiting" => Due(b)

\* Whoever holds the lock is alone with the runtime directory.
LoneMinecraft == \A i, j \in Jobs : Alive(i) /\ Alive(j) => i = j

\* A directory that reports success has no video that the encoder is still writing,
\* nor has the copy of it, although video and status are copied one by one.
Closed(d) == d.status = "success" => d.video # "partial"

SuccessIsEncoded ==
    \A j \in Jobs :
        /\ Closed(jobDir[j])
        /\ launcher[j] = "copying" =>
            minecraft[j] = "gone" /\ staged[j].video \in {jobDir[j].video, "none"}
        /\ launcher[j] = "exited" => Closed(staged[j])

\* While a batch lives, the replays before the one it is at are accounted for and
\* those after it are untouched.
AccountsFor(b) ==
    /\ successes[b] = {i \in Items : output[<<b, i>>] # "old"}
    /\ failures[b] = {i \in Items : i < item[b]} \ successes[b]
    /\ \A i \in Items : i >= item[b] => output[<<b, i>>] = "old"
    /\ cli[b] = "ended" => ~Due(b)

BatchesAccount ==
    \A b \in Batches :
        /\ cli[b] # "dead" => AccountsFor(b)
        /\ manifest[b] = "new" => cli[b] = "ended"

RendererInv ==
    /\ RendererTypeOK
    /\ WaitsAtItem
    /\ LoneMinecraft
    /\ SuccessIsEncoded
    /\ OutputsAreWhole
    /\ BatchesAccount

-----------------------------------------------------------------------------
(* What a batch is at *)

\* Two jobs are the same when their batches and replays are.
LEMMA JobsArePairs ==
    /\ \A b \in Batches, i \in Items : <<b, i>> \in Jobs
    /\ \A j \in Jobs : j[1] \in Batches /\ j[2] \in Items /\ j = <<j[1], j[2]>>
  BY DEF Jobs

\* The job of a batch that is at one of its replays.
LEMMA JobIsDue == \A b \in Batches : Due(b) => Job(b) \in Jobs
  BY JobsArePairs DEF Due, Job

\* Nothing is what an empty directory holds.
LEMMA NothingIsLeft == Nothing \in Left /\ Closed(Nothing) /\ Nothing.video = "none"
  BY DEF Nothing, Left, Videos, Closed

-----------------------------------------------------------------------------
(* Types *)

\* The initial state has the types.
LEMMA InitTypeOK == RendererInit => RendererTypeOK
  BY NothingIsLeft DEF RendererInit, RendererTypeOK

\* Minecraft's steps keep the types.
LEMMA MinecraftTypeOK ==
    ASSUME RendererTypeOK, MinecraftNext
    PROVE  RendererTypeOK'
<1> USE DEF RendererTypeOK, MinecraftNext, batchVars
<1>1. PICK j \in Jobs : OpensReplay(j) \/ BeginsRender(j) \/ CompletesRender(j)
                        \/ ReportsFailure(j) \/ Exits(j)
  BY DEF MinecraftNext
<1>2. jobDir[j] \in Left
  OBVIOUS
<1>3. ASSUME NEW from, NEW to \in {"opening", "rendering", "closing"},
             NEW status \in {"working", "success", "failure"}, NEW video \in Videos,
             Goes(j, from, to, status, video)
      PROVE  RendererTypeOK'
  <2>1. jobDir' = [jobDir EXCEPT ![j] = [jobDir[j] EXCEPT !.status = status, !.video = video]]
    BY <1>2, <1>3 DEF Goes, Left
  <2>2. [jobDir[j] EXCEPT !.status = status, !.video = video] \in Left
    BY <1>2, <1>3 DEF Left
  <2> QED BY <1>3, <2>1, <2>2 DEF Goes
<1>4. CASE OpensReplay(j)
  BY <1>3, <1>4 DEF OpensReplay, Videos
<1>5. CASE BeginsRender(j)
  BY <1>3, <1>5 DEF BeginsRender, Videos
<1>6. CASE CompletesRender(j)
  BY <1>3, <1>6 DEF CompletesRender, Videos
<1>7. CASE ReportsFailure(j)
  BY <1>2, <1>3, <1>7 DEF ReportsFailure, Left
<1>8. CASE Exits(j)
  <2>1. \A code \in {0, 1} : [jobDir[j] EXCEPT !.code = code] \in Left
    BY <1>2 DEF Left
  <2>2. jobDir' \in [Jobs -> Left]
    BY <1>2, <1>8, <2>1, NothingIsLeft DEF Exits
  <2> QED BY <1>8, <2>2 DEF Exits
<1> QED BY <1>1, <1>4, <1>5, <1>6, <1>7, <1>8

\* The launcher's steps keep the types.
LEMMA LauncherTypeOK ==
    ASSUME RendererTypeOK, LauncherNext
    PROVE  RendererTypeOK'
<1> USE DEF RendererTypeOK, batchVars, minecraftVars
<1>1. PICK j \in Jobs : TakesLock(j) \/ CopiesVideo(j) \/ CopiesStatus(j)
  BY DEF LauncherNext
<1>2. jobDir[j] \in Left /\ staged[j] \in Left
  OBVIOUS
<1>3. CASE TakesLock(j)
  BY <1>3 DEF TakesLock
<1>4. CASE CopiesVideo(j)
  <2>1. [staged[j] EXCEPT !.video = jobDir[j].video] \in Left
    BY <1>2 DEF Left
  <2>2. staged' = [staged EXCEPT ![j] = [staged[j] EXCEPT !.video = jobDir[j].video]]
    BY <1>2, <1>4 DEF CopiesVideo
  <2> QED BY <1>4, <2>1, <2>2 DEF CopiesVideo
<1>5. CASE CopiesStatus(j)
  <2> DEFINE copy == [staged[j] EXCEPT !.status = jobDir[j].status, !.code = jobDir[j].code]
  <2>1. copy \in Left
    BY <1>2 DEF Left
  <2>2. staged' = [staged EXCEPT ![j] = copy]
    BY <1>2, <1>5 DEF CopiesStatus
  <2>3. staged' \in [Jobs -> Left]
    BY <2>1, <2>2
  <2>4. jobDir' \in [Jobs -> Left]
    BY <1>5, NothingIsLeft DEF CopiesStatus
  <2>5. /\ launcher' = [launcher EXCEPT ![j] = "exited"]
        /\ UNCHANGED <<batchVars, minecraft>>
    BY <1>5 DEF CopiesStatus
  <2> QED BY <2>3, <2>4, <2>5
<1> QED BY <1>1, <1>3, <1>4, <1>5

\* The batches' steps keep the types.
LEMMA BatchTypeOK ==
    ASSUME RendererTypeOK, WaitsAtItem, BatchNext
    PROVE  RendererTypeOK'
<1> USE NothingIsLeft DEF RendererTypeOK, minecraftVars
<1>1. PICK b \in Batches : BatchStep(b) \/ BatchDies(b)
  BY DEF BatchNext
<1>2. Due(b) => Job(b) \in Jobs /\ item[b] \in Items
  BY JobIsDue DEF Due
<1>3. cli[b] = "waiting" => Due(b)
  BY DEF WaitsAtItem
<1>4. CASE RefuseReplay(b)
  BY <1>2, <1>4 DEF RefuseReplay, NoteFailure, NextItem
<1>5. CASE LaunchRender(b)
  BY <1>2, <1>5 DEF LaunchRender
<1>6. CASE RenderTimesOut(b)
  BY <1>2, <1>3, <1>6 DEF RenderTimesOut, NoteFailure, NextItem
<1>7. CASE RefuseRender(b)
  BY <1>2, <1>3, <1>7 DEF RefuseRender, Rendered, NoteFailure, NextItem
<1>8. CASE AcceptRender(b)
  <2>1. Job(b) \in Jobs /\ item[b] \in Items
    BY <1>2, <1>3, <1>8 DEF AcceptRender, Acceptable, Rendered
  <2>2. staged[Job(b)].video \in Videos
    BY <2>1 DEF Left
  <2> QED BY <1>8, <2>1, <2>2 DEF AcceptRender, Publish, NextItem
<1>9. CASE WriteManifest(b)
  BY <1>9 DEF WriteManifest
<1>10. CASE BatchDies(b)
  <2>1. Acceptable(b) => staged[Job(b)].video \in Videos
    BY <1>2, <1>3 DEF Acceptable, Rendered, Left
  <2> QED BY <1>10, <2>1 DEF BatchDies
<1> QED BY <1>1, <1>4, <1>5, <1>6, <1>7, <1>8, <1>9, <1>10 DEF BatchStep

\* Every step keeps the types.
LEMMA StepTypeOK ==
    ASSUME RendererTypeOK, WaitsAtItem, [RendererNext]_rendererVars
    PROVE  RendererTypeOK'
<1>1. CASE UNCHANGED rendererVars
  BY <1>1 DEF RendererTypeOK, rendererVars, minecraftVars, batchVars
<1> QED BY <1>1, MinecraftTypeOK, LauncherTypeOK, BatchTypeOK DEF RendererNext

-----------------------------------------------------------------------------
(* One Minecraft *)

\* Minecraft is started by the holder of a lock that no other instance holds.
LEMMA StepLoneMinecraft ==
    ASSUME RendererTypeOK, LoneMinecraft, [RendererNext]_rendererVars
    PROVE  LoneMinecraft'
<1> USE DEF LoneMinecraft, Alive, RendererTypeOK
<1>1. CASE \E j \in Jobs : TakesLock(j)
  <2>1. PICK j \in Jobs : TakesLock(j)
    BY <1>1
  <2>2. \A k \in Jobs : ~Alive(k)
    BY <2>1 DEF TakesLock, LockFree
  <2>3. \A k \in Jobs : Alive(k)' => k = j
    BY <2>1, <2>2 DEF TakesLock
  <2> QED BY <2>3
<1>2. CASE MinecraftNext
  <2>1. PICK j \in Jobs : OpensReplay(j) \/ BeginsRender(j) \/ CompletesRender(j)
                          \/ ReportsFailure(j) \/ Exits(j)
    BY <1>2 DEF MinecraftNext
  <2>2. Alive(j)
    BY <2>1 DEF OpensReplay, BeginsRender, CompletesRender, ReportsFailure, Exits, Goes
  <2>3. \A k \in Jobs : Alive(k)' => Alive(k)
    BY <2>1, <2>2 DEF OpensReplay, BeginsRender, CompletesRender, ReportsFailure, Exits, Goes
  <2> QED BY <2>3
<1>3. CASE BatchNext
  BY <1>3 DEF BatchNext, BatchStep, RefuseReplay, LaunchRender, RenderTimesOut, RefuseRender,
              AcceptRender, WriteManifest, BatchDies, minecraftVars
<1>4. CASE LauncherNext
  BY <1>1, <1>4 DEF LauncherNext, CopiesVideo, CopiesStatus, minecraftVars
<1>5. CASE UNCHANGED rendererVars
  BY <1>5 DEF rendererVars, minecraftVars
<1> QED BY <1>2, <1>3, <1>4, <1>5 DEF RendererNext

\* A set of which all elements are equal has at most one.
LEMMA AtMostOne ==
    ASSUME NEW S, \A x, y \in S : x = y
    PROVE  Cardinality(S) <= 1
<1>1. CASE S = {}
  BY <1>1, FS_EmptySet
<1>2. CASE S # {}
  <2>1. PICK x \in S : TRUE
    BY <1>2
  <2>2. S = {x}
    BY <2>1
  <2> QED BY <2>2, FS_Singleton
<1> QED BY <1>1, <1>2

\* Counted, that is one Minecraft at most.
LEMMA LoneIsOne == LoneMinecraft => OneMinecraft
<1> SUFFICES ASSUME LoneMinecraft PROVE OneMinecraft
  OBVIOUS
<1> DEFINE S == {j \in Jobs : Alive(j)}
<1>1. \A x, y \in S : x = y
  BY DEF LoneMinecraft
<1> HIDE DEF S
<1>2. Cardinality(S) <= 1
  BY <1>1, AtMostOne
<1> QED BY <1>2 DEF S, OneMinecraft

-----------------------------------------------------------------------------
(* Whole videos *)

\* Minecraft's steps keep the directories honest; none is left for a script that copies.
LEMMA MinecraftEncodes ==
    ASSUME RendererTypeOK, SuccessIsEncoded, MinecraftNext
    PROVE  SuccessIsEncoded'
<1> USE DEF SuccessIsEncoded
<1>1. PICK j \in Jobs : OpensReplay(j) \/ BeginsRender(j) \/ CompletesRender(j)
                        \/ ReportsFailure(j) \/ Exits(j)
  BY DEF MinecraftNext
<1>2. launcher' = launcher /\ staged' = staged
  BY DEF MinecraftNext
<1>3. minecraft[j] # "gone"
  BY <1>1 DEF OpensReplay, BeginsRender, CompletesRender, ReportsFailure, Exits, Goes, Alive
<1>4. \A k \in Jobs \ {j} : minecraft'[k] = minecraft[k] /\ jobDir'[k] = jobDir[k]
  BY <1>1 DEF RendererTypeOK, OpensReplay, BeginsRender, CompletesRender, ReportsFailure, Exits, Goes
<1>5. jobDir[j] \in Left
  BY DEF RendererTypeOK
<1>6. ASSUME NEW from, NEW to, NEW status, NEW video, Goes(j, from, to, status, video)
      PROVE  jobDir'[j].status = status /\ jobDir'[j].video = video
  BY <1>5, <1>6 DEF Goes, RendererTypeOK, Left
<1>7. Closed(jobDir'[j])
  <2>1. CASE OpensReplay(j)
    BY <1>6, <2>1 DEF OpensReplay, Closed
  <2>2. CASE BeginsRender(j)
    BY <1>6, <2>2 DEF BeginsRender, Closed
  <2>3. CASE CompletesRender(j)
    BY <1>6, <2>3 DEF CompletesRender, Closed
  <2>4. CASE ReportsFailure(j)
    BY <1>6, <2>4 DEF ReportsFailure, Closed
  <2>5. CASE Exits(j)
    <3>1. CASE launcher[j] = "killed"
      BY <2>5, <3>1, NothingIsLeft DEF Exits, RendererTypeOK
    <3>2. CASE launcher[j] # "killed"
      <4>1. jobDir'[j].status = jobDir[j].status /\ jobDir'[j].video = jobDir[j].video
        BY <1>5, <2>5, <3>2 DEF Exits, RendererTypeOK, Left
      <4> QED BY <4>1 DEF Closed
    <3> QED BY <3>1, <3>2
  <2> QED BY <1>1, <2>1, <2>2, <2>3, <2>4, <2>5
<1> QED BY <1>2, <1>3, <1>4, <1>7 DEF Closed

\* The script copies from a directory that nobody writes to.
LEMMA LauncherEncodes ==
    ASSUME RendererTypeOK, SuccessIsEncoded, LauncherNext
    PROVE  SuccessIsEncoded'
<1> USE DEF SuccessIsEncoded, RendererTypeOK, minecraftVars
<1>1. PICK j \in Jobs : TakesLock(j) \/ CopiesVideo(j) \/ CopiesStatus(j)
  BY DEF LauncherNext
<1>2. jobDir[j] \in Left /\ staged[j] \in Left
  OBVIOUS
<1>3. CASE TakesLock(j)
  BY <1>3 DEF TakesLock, LockFree, Closed
<1>4. CASE CopiesVideo(j)
  <2>1. staged'[j].video = jobDir[j].video
    BY <1>2, <1>4 DEF CopiesVideo, Left
  <2>2. \A k \in Jobs \ {j} : staged'[k] = staged[k] /\ launcher'[k] = launcher[k]
    BY <1>4 DEF CopiesVideo
  <2> QED BY <1>4, <2>1, <2>2 DEF CopiesVideo, Closed
<1>5. CASE CopiesStatus(j)
  <2>1. staged'[j].video = staged[j].video /\ staged'[j].status = jobDir[j].status
    BY <1>2, <1>5 DEF CopiesStatus, Left
  <2>2. \A k \in Jobs \ {j} : /\ staged'[k] = staged[k] /\ launcher'[k] = launcher[k]
                              /\ jobDir'[k] = jobDir[k]
    BY <1>5 DEF CopiesStatus
  <2>3. launcher'[j] = "exited" /\ jobDir'[j] = Nothing /\ minecraft' = minecraft
    BY <1>5 DEF CopiesStatus
  <2>4. Closed(staged'[j])
    BY <1>5, <2>1 DEF CopiesStatus, Closed
  <2> QED BY <2>2, <2>3, <2>4, NothingIsLeft
<1> QED BY <1>1, <1>3, <1>4, <1>5

\* A batch clears what is staged, and lets a script go on copying or kills it.
LEMMA BatchEncodes ==
    ASSUME RendererTypeOK, WaitsAtItem, SuccessIsEncoded, BatchNext
    PROVE  SuccessIsEncoded'
<1> USE NothingIsLeft DEF SuccessIsEncoded, RendererTypeOK, minecraftVars
<1>1. PICK b \in Batches : BatchStep(b) \/ BatchDies(b)
  BY DEF BatchNext
<1>2. Due(b) => Job(b) \in Jobs
  BY JobIsDue
<1>3. cli[b] = "waiting" => Due(b)
  BY DEF WaitsAtItem
<1>4. CASE RefuseReplay(b)
  BY <1>2, <1>4 DEF RefuseReplay, NoteFailure
<1>5. CASE LaunchRender(b)
  BY <1>2, <1>5 DEF LaunchRender
<1>6. CASE RenderTimesOut(b)
  <2>1. Job(b) \in Jobs
    BY <1>2, <1>3, <1>6 DEF RenderTimesOut
  <2>2. \A j \in Jobs \ {Job(b)} : /\ staged'[j] = staged[j] /\ jobDir'[j] = jobDir[j]
                                   /\ launcher'[j] = launcher[j]
    BY <1>6, <2>1 DEF RenderTimesOut, NoteFailure
  <2>3. /\ launcher'[Job(b)] = "killed" /\ minecraft' = minecraft
        /\ jobDir'[Job(b)] \in {jobDir[Job(b)], Nothing}
    BY <1>6, <2>1 DEF RenderTimesOut
  <2> QED BY <2>1, <2>2, <2>3
<1>7. CASE RefuseRender(b)
  BY <1>2, <1>3, <1>7 DEF RefuseRender, Rendered, NoteFailure
<1>8. CASE AcceptRender(b)
  BY <1>2, <1>3, <1>8 DEF AcceptRender, Acceptable, Rendered
<1>9. CASE WriteManifest(b)
  BY <1>9 DEF WriteManifest
<1>10. CASE BatchDies(b)
  BY <1>10 DEF BatchDies
<1> QED BY <1>1, <1>4, <1>5, <1>6, <1>7, <1>8, <1>9, <1>10 DEF BatchStep

\* Every step keeps status and video together.
LEMMA StepEncodes ==
    ASSUME RendererTypeOK, WaitsAtItem, SuccessIsEncoded, [RendererNext]_rendererVars
    PROVE  SuccessIsEncoded'
<1>1. CASE UNCHANGED rendererVars
  BY <1>1 DEF SuccessIsEncoded, rendererVars, minecraftVars
<1> QED BY <1>1, MinecraftEncodes, LauncherEncodes, BatchEncodes DEF RendererNext

\* What a batch accepts and the probe can play is whole.
LEMMA AcceptableIsWhole ==
    ASSUME RendererTypeOK, WaitsAtItem, SuccessIsEncoded, NEW b \in Batches, Acceptable(b)
    PROVE  Job(b) \in Jobs /\ Due(b) /\ staged[Job(b)].video = "whole"
<1>1. Due(b) /\ Job(b) \in Jobs
  BY JobIsDue DEF WaitsAtItem, Acceptable, Rendered
<1>2. Closed(staged[Job(b)])
  BY <1>1 DEF SuccessIsEncoded, Acceptable, Rendered
<1> QED BY <1>1, <1>2 DEF Closed, Acceptable, Claimed, Playable

\* Nothing but a whole video replaces the old one.
LEMMA StepWhole ==
    ASSUME RendererTypeOK, WaitsAtItem, SuccessIsEncoded, OutputsAreWhole,
           [RendererNext]_rendererVars
    PROVE  OutputsAreWhole'
<1> USE DEF RendererTypeOK, OutputsAreWhole
<1>1. CASE BatchNext
  <2>1. PICK b \in Batches : BatchStep(b) \/ BatchDies(b)
    BY <1>1 DEF BatchNext
  <2>2. \/ output' = output
        \/ Acceptable(b) /\ output' = [output EXCEPT ![Job(b)] = staged[Job(b)].video]
    BY <2>1 DEF BatchStep, RefuseReplay, LaunchRender, RenderTimesOut, RefuseRender, AcceptRender,
                WriteManifest, BatchDies, NoteFailure, Publish
  <2> QED BY <2>2, AcceptableIsWhole
<1>2. CASE MinecraftNext \/ LauncherNext \/ UNCHANGED rendererVars
  BY <1>2 DEF MinecraftNext, LauncherNext, TakesLock, CopiesVideo, CopiesStatus, batchVars,
              rendererVars
<1> QED BY <1>1, <1>2 DEF RendererNext

-----------------------------------------------------------------------------
(* Manifests that account for the outputs *)

\* Only a batch moves its own counters and outputs, and waits only at a replay.
LEMMA StepWaits ==
    ASSUME RendererTypeOK, WaitsAtItem, [RendererNext]_rendererVars
    PROVE  WaitsAtItem'
<1> USE DEF RendererTypeOK, WaitsAtItem, Due
<1>1. CASE BatchNext
  BY <1>1 DEF BatchNext, BatchStep, RefuseReplay, LaunchRender, RenderTimesOut, RefuseRender,
              AcceptRender, WriteManifest, BatchDies, NoteFailure, NextItem
<1>2. CASE MinecraftNext \/ LauncherNext \/ UNCHANGED rendererVars
  BY <1>2 DEF MinecraftNext, LauncherNext, TakesLock, CopiesVideo, CopiesStatus, batchVars,
              rendererVars
<1> QED BY <1>1, <1>2 DEF RendererNext

\* The batches that do not move keep their account.
LEMMA OthersAccount ==
    ASSUME RendererTypeOK, BatchesAccount, NEW b \in Batches, NEW c \in Batches, c # b,
           cli'[c] = cli[c], item'[c] = item[c], manifest'[c] = manifest[c],
           successes'[c] = successes[c], failures'[c] = failures[c],
           \A i \in Items : output'[<<c, i>>] = output[<<c, i>>]
    PROVE  /\ (cli[c] # "dead" => AccountsFor(c))'
           /\ (manifest[c] = "new" => cli[c] = "ended")'
  BY DEF BatchesAccount, AccountsFor, Due

\* A batch that notes a failure accounts for the replay it was at.
LEMMA FailureAccounts ==
    ASSUME RendererTypeOK, BatchesAccount, NEW b \in Batches, Due(b), NoteFailure(b),
           cli[b] \in {"validating", "waiting"}
    PROVE  BatchesAccount'
<1> USE DEF RendererTypeOK, NoteFailure, NextItem
<1>1. AccountsFor(b) /\ item[b] \in Nat /\ item[b] \in Items /\ manifest[b] # "new"
  BY DEF BatchesAccount, Due
<1>2. /\ item'[b] = item[b] + 1 /\ cli'[b] = "validating" /\ manifest' = manifest
      /\ failures'[b] = failures[b] \cup {item[b]}
      /\ successes' = successes /\ output' = output
  OBVIOUS
<1>3. AccountsFor(b)'
  <2>1. \A i \in Items : i < item[b] + 1 <=> i < item[b] \/ i = item[b]
    BY <1>1 DEF Items
  <2>2. item[b] \notin successes[b]
    BY <1>1 DEF AccountsFor
  <2>3. failures'[b] = {i \in Items : i < item'[b]} \ successes'[b]
    BY <1>1, <1>2, <2>1, <2>2 DEF AccountsFor
  <2>4. \A i \in Items : i >= item'[b] => output'[<<b, i>>] = "old"
    BY <1>1, <1>2 DEF AccountsFor, Items
  <2> QED BY <1>1, <1>2, <2>3, <2>4 DEF AccountsFor
<1>4. ASSUME NEW c \in Batches, c # b
      PROVE  (cli[c] # "dead" => AccountsFor(c))' /\ (manifest[c] = "new" => cli[c] = "ended")'
  BY <1>4, OthersAccount
<1> QED BY <1>1, <1>2, <1>3, <1>4 DEF BatchesAccount

\* A batch that publishes a video accounts for its replay.
LEMMA SuccessAccounts ==
    ASSUME RendererTypeOK, WaitsAtItem, SuccessIsEncoded, BatchesAccount, NEW b \in Batches,
           AcceptRender(b)
    PROVE  BatchesAccount'
<1> USE DEF RendererTypeOK, AcceptRender, Publish, NextItem
<1>1. /\ AccountsFor(b) /\ item[b] \in Nat /\ item[b] \in Items /\ manifest[b] # "new"
      /\ Job(b) = <<b, item[b]>> /\ Job(b) \in Jobs /\ staged[Job(b)].video = "whole"
  BY AcceptableIsWhole DEF BatchesAccount, Due, Job, Acceptable, Rendered
<1>2. /\ item'[b] = item[b] + 1 /\ cli'[b] = "validating" /\ manifest' = manifest
      /\ successes'[b] = successes[b] \cup {item[b]} /\ failures' = failures
  OBVIOUS
<1>3. \A c \in Batches, i \in Items :
        output'[<<c, i>>] = IF c = b /\ i = item[b] THEN "whole" ELSE output[<<c, i>>]
  <2>1. \A j \in Jobs : output'[j] = IF j = Job(b) THEN "whole" ELSE output[j]
    BY <1>1
  <2>2. \A c \in Batches, i \in Items : <<c, i>> = Job(b) <=> c = b /\ i = item[b]
    BY <1>1
  <2> HIDE DEF RendererTypeOK, AcceptRender, Publish, NextItem
  <2> QED BY <2>1, <2>2, JobsArePairs
<1>4. AccountsFor(b)'
  <2>1. \A i \in Items : i < item[b] + 1 <=> i < item[b] \/ i = item[b]
    BY <1>1 DEF Items
  <2>2. item[b] \notin failures[b]
    BY <1>1 DEF AccountsFor
  <2>3. successes'[b] = {i \in Items : output'[<<b, i>>] # "old"}
    BY <1>1, <1>2, <1>3 DEF AccountsFor
  <2>4. failures'[b] = {i \in Items : i < item'[b]} \ successes'[b]
    BY <1>1, <1>2, <2>1, <2>2 DEF AccountsFor
  <2>5. \A i \in Items : i >= item'[b] => output'[<<b, i>>] = "old"
    BY <1>1, <1>2, <1>3 DEF AccountsFor, Items
  <2> QED BY <1>2, <2>3, <2>4, <2>5 DEF AccountsFor
<1>5. ASSUME NEW c \in Batches, c # b
      PROVE  (cli[c] # "dead" => AccountsFor(c))' /\ (manifest[c] = "new" => cli[c] = "ended")'
  BY <1>3, <1>5, OthersAccount
<1> QED BY <1>1, <1>2, <1>4, <1>5 DEF BatchesAccount

\* Every step keeps the accounts of all batches.
LEMMA StepAccounts ==
    ASSUME RendererTypeOK, WaitsAtItem, SuccessIsEncoded, BatchesAccount,
           [RendererNext]_rendererVars
    PROVE  BatchesAccount'
<1> USE DEF RendererTypeOK
<1>1. ASSUME NEW b \in Batches, BatchStep(b) \/ BatchDies(b) PROVE BatchesAccount'
  <2>1. CASE RefuseReplay(b)
    BY <2>1, FailureAccounts DEF RefuseReplay
  <2>2. CASE LaunchRender(b)
    BY <2>2 DEF LaunchRender, BatchesAccount, AccountsFor, Due
  <2>3. CASE RenderTimesOut(b)
    BY <2>3, FailureAccounts DEF RenderTimesOut, WaitsAtItem
  <2>4. CASE RefuseRender(b)
    BY <2>4, FailureAccounts DEF RefuseRender, Rendered, WaitsAtItem
  <2>5. CASE AcceptRender(b)
    BY <2>5, SuccessAccounts
  <2>6. CASE WriteManifest(b)
    BY <2>6 DEF WriteManifest, BatchesAccount, AccountsFor, Due
  <2>7. CASE BatchDies(b)
    <3>1. cli'[b] = "dead" /\ manifest' = manifest /\ manifest[b] # "new"
      BY <2>7 DEF BatchDies, Rendered, BatchesAccount
    <3>2. \A c \in Batches, i \in Items : c # b => output'[<<c, i>>] = output[<<c, i>>]
      BY <2>7, AcceptableIsWhole, JobsArePairs DEF BatchDies, Job
    <3>3. ASSUME NEW c \in Batches, c # b
          PROVE  /\ (cli[c] # "dead" => AccountsFor(c))'
                 /\ (manifest[c] = "new" => cli[c] = "ended")'
      BY <2>7, <3>2, <3>3, OthersAccount DEF BatchDies
    <3> QED BY <3>1, <3>3 DEF BatchesAccount
  <2> QED BY <1>1, <2>1, <2>2, <2>3, <2>4, <2>5, <2>6, <2>7 DEF BatchStep
<1>2. CASE MinecraftNext \/ LauncherNext \/ UNCHANGED rendererVars
  <2>1. UNCHANGED batchVars
    BY <1>2 DEF MinecraftNext, LauncherNext, TakesLock, CopiesVideo, CopiesStatus, batchVars,
                rendererVars
  <2> QED BY <2>1 DEF batchVars, BatchesAccount, AccountsFor, Due
<1> QED BY <1>1, <1>2 DEF RendererNext, BatchNext

-----------------------------------------------------------------------------
(* The theorems *)

\* The initial state satisfies the invariant.
LEMMA InitRendererInv == RendererInit => RendererInv
<1> SUFFICES ASSUME RendererInit PROVE RendererInv
  OBVIOUS
<1>1. RendererTypeOK
  BY InitTypeOK
<1>2. WaitsAtItem /\ LoneMinecraft /\ OutputsAreWhole
  BY DEF RendererInit, WaitsAtItem, LoneMinecraft, Alive, OutputsAreWhole
<1>3. SuccessIsEncoded
  BY NothingIsLeft DEF RendererInit, SuccessIsEncoded
<1>4. BatchesAccount
  <2>1. \A b \in Batches, i \in Items : output[<<b, i>>] = "old"
    BY JobsArePairs DEF RendererInit
  <2>2. \A i \in Items : ~(i < 1)
    BY RendererAssumption DEF Items
  <2> QED BY <2>1, <2>2 DEF RendererInit, BatchesAccount, AccountsFor
<1> QED BY <1>1, <1>2, <1>3, <1>4 DEF RendererInv

\* The invariant is inductive.
LEMMA RendererInvariant == RendererSpec => []RendererInv
<1>1. RendererInv /\ [RendererNext]_rendererVars => RendererInv'
  BY StepTypeOK, StepWaits, StepLoneMinecraft, StepEncodes, StepWhole, StepAccounts
     DEF RendererInv
<1> QED BY InitRendererInv, <1>1, PTL DEF RendererSpec

\* However many launchers a batch gives up, in whatever order scripts, batches and
\* crashes come, the shared runtime directory has one Minecraft at most.
THEOREM RuntimeHasOneMinecraft == RendererSpec => []OneMinecraft
<1>1. RendererInv => OneMinecraft
  BY LoneIsOne DEF RendererInv
<1> QED BY RendererInvariant, <1>1, PTL

\* A published video is the old one or a complete one, although status, video and
\* exit code are left and copied separately and Minecraft may die between them.
THEOREM PublishedVideosAreWhole == RendererSpec => []OutputsAreWhole
<1>1. RendererInv => OutputsAreWhole
  BY DEF RendererInv
<1> QED BY RendererInvariant, <1>1, PTL

\* A manifest that is written accounts for every replay of its batch, once.
THEOREM ManifestsAreComplete == RendererSpec => []ManifestAccounts
<1>1. ASSUME RendererInv PROVE ManifestAccounts
  <2> SUFFICES ASSUME NEW b \in Batches, manifest[b] = "new"
               PROVE  /\ successes[b] = {i \in Items : output[<<b, i>>] # "old"}
                      /\ failures[b] = Items \ successes[b]
    BY DEF ManifestAccounts
  <2>1. AccountsFor(b) /\ ~Due(b) /\ item[b] \in Nat \ {0}
    BY <1>1 DEF RendererInv, BatchesAccount, AccountsFor, RendererTypeOK
  <2>2. \A i \in Items : i < item[b]
    BY <2>1, RendererAssumption DEF Due, Items
  <2> QED BY <2>1, <2>2 DEF AccountsFor
<1> QED BY RendererInvariant, <1>1, PTL

=============================================================================
