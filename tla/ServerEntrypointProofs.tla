----------------------- MODULE ServerEntrypointProofs -----------------------
(***************************************************************************)
(* Proofs about the container of the YRush server: a readiness file is     *)
(* earned by this very generation, and a container that is not killed      *)
(* leaves none behind and hides no failure, for any number of required     *)
(* clients, other players and restarts.                                    *)
(*                                                                         *)
(* Neither property is inductive.  The file is published from what the     *)
(* script learnt several steps before, so the invariant says, for each     *)
(* place the script can be at, what it has learnt by then; and it says     *)
(* that the monitors, which write the same files, run only beside a script *)
(* that waits for Paper.                                                   *)
(***************************************************************************)
EXTENDS ServerEntrypoint, TLAPS

\* The files of the container before are gone, and no new one is out.
Unready == {"booting", "polling", "asking", "counting", "launching", "verifying", "verified",
            "failing"}

\* A launch with enough participants has been seen.
Launched == {"verifying", "verified", "published", "serving"}

\* Between the end of the cleaning and the first publication there is no readiness.
NoEarlyReadiness == script \in Unready => ready = 0

\* What SeesLaunch has seen stays true of the Paper that is served.
LaunchKept == script \in Launched => launch >= Cardinality(Required)

\* A readiness file there is bears the generation of the container.
ReadinessOfGeneration == script \in {"published", "serving"} => ready \in {0, marker}

\* The monitors write the files and run only while the script waits for Paper.
MonitorsBesideServer == (monitor # "off" \/ watchdog # "off") => script = "serving"

\* The places the script can be at.
ScriptPlaces == script \in {"marking", "preparing", "exited"} \cup Unready \cup Launched

\* fail_startup has noted what it ends for.
FailureNoted == script = "failing" => fatal

EntrypointInv ==
    /\ ScriptPlaces
    /\ NoEarlyReadiness
    /\ LaunchKept
    /\ ReadinessOfGeneration
    /\ MonitorsBesideServer
    /\ FailureNoted
    /\ ReadyIsEarned
    /\ ExitsCleanly

-----------------------------------------------------------------------------

\* EntrypointInit: nothing is there before the first container.
LEMMA EntrypointStarts == EntrypointInit => EntrypointInv
BY DEF EntrypointInit, EntrypointInv, ScriptPlaces, NoEarlyReadiness, LaunchKept, ReadinessOfGeneration,
    MonitorsBesideServer, FailureNoted, ReadyIsEarned, ExitsCleanly, IsReady, Unready, Launched

\* Paper and the players touch none of the files; a launch is only asked for, and
\* counted, before the script has seen one.
LEMMA WorldKeepsInv ==
    ASSUME EntrypointInv, WorldNext
    PROVE  EntrypointInv'
<1>1. UNCHANGED <<script, terminating, code, monitor, watchdog, ready, fatal, marker>>
  BY DEF WorldNext, scriptVars, monitorVars
<1>2. launch' = launch \/ script = "launching"
  BY DEF WorldNext, PaperStep, PaperBoots, PaperBeginsLog, PaperStops, PaperDies, YRushLaunches,
    OtherComesOrGoes, ClientJoins, ClientLeaves, paperVars
<1> QED
  BY <1>1, <1>2 DEF EntrypointInv, ScriptPlaces, NoEarlyReadiness, LaunchKept, ReadinessOfGeneration,
    MonitorsBesideServer, FailureNoted, ReadyIsEarned, ExitsCleanly, IsReady, Unready, Launched

\* Every command of the main script: the files are cleaned before anything is
\* published, and a place that follows a query is reached by an answer only.
LEMMA ScriptKeepsInv ==
    ASSUME EntrypointInv, ScriptStep \/ Shutdown \/ Killed \/ Restart
    PROVE  EntrypointInv'
<1> USE DEF EntrypointInv, ScriptPlaces, NoEarlyReadiness, LaunchKept, ReadinessOfGeneration,
    MonitorsBesideServer, FailureNoted, ReadyIsEarned, ExitsCleanly, IsReady, Unready, Launched,
    scriptVars, worldVars, paperVars, monitorVars
<1>1. CASE Mark
  BY <1>1 DEF Mark, At
<1>2. CASE Prepare
  BY <1>2 DEF Prepare, At, ClearFiles
<1>3. CASE SeesDone
  BY <1>3 DEF SeesDone, Moves, At
<1>4. CASE AsksForClients
  BY <1>4 DEF AsksForClients, Moves, At
<1>5. CASE HearsClients
  BY <1>5 DEF HearsClients, Moves, At
<1>6. CASE KeepsWaiting
  BY <1>6 DEF KeepsWaiting, Moves, At
<1>7. CASE StartsTraining
  BY <1>7 DEF StartsTraining, Moves, At
<1>8. CASE SeesLaunch
  BY <1>8 DEF SeesLaunch, Moves, At
<1>9. CASE HearsPool
  BY <1>9 DEF HearsPool, Moves, At
<1>10. CASE StartupFails
  BY <1>10 DEF StartupFails, FailStartup
<1>11. CASE PoolUnanswered
  BY <1>11 DEF PoolUnanswered, Exits
<1>12. CASE FailureExits
  BY <1>12 DEF FailureExits, Exits
<1>13. CASE Publish
  BY <1>13 DEF Publish, At
<1>14. CASE StartMonitors
  BY <1>14 DEF StartMonitors, At
<1>15. CASE Serves
  BY <1>15 DEF Serves, Exits, RemoveReady
<1>16. CASE Shutdown
  BY <1>16 DEF Shutdown
<1>17. CASE Killed
  BY <1>17 DEF Killed, Exits
<1>18. CASE Restart
  BY <1>18 DEF Restart, Moves, At
<1> QED
  BY <1>1, <1>2, <1>3, <1>4, <1>5, <1>6, <1>7, <1>8, <1>9, <1>10, <1>11, <1>12, <1>13, <1>14, <1>15, <1>16, <1>17, <1>18 DEF ScriptStep

\* The monitors: they remove the readiness file and note failures, beside a script
\* that is serving.
LEMMA MonitorsKeepInv ==
    ASSUME EntrypointInv, MonitorNext
    PROVE  EntrypointInv'
<1> USE DEF EntrypointInv, ScriptPlaces, NoEarlyReadiness, LaunchKept, ReadinessOfGeneration,
    MonitorsBesideServer, FailureNoted, ReadyIsEarned, ExitsCleanly, IsReady, Unready, Launched,
    scriptVars, worldVars, paperVars
<1>1. CASE MonitorStarts
  BY <1>1 DEF MonitorStarts, Monitors, MonitorQuiet
<1>2. CASE MonitorIsAnswered
  BY <1>2 DEF MonitorIsAnswered, Monitors, MonitorQuiet
<1>3. CASE MonitorIsNotAnswered
  BY <1>3 DEF MonitorIsNotAnswered, Monitors
<1>4. CASE MonitorReads
  BY <1>4 DEF MonitorReads
<1>5. CASE MonitorRemovesReady
  BY <1>5 DEF MonitorRemovesReady, Monitors
<1>6. CASE MonitorStopsServer
  BY <1>6 DEF MonitorStopsServer, Monitors
<1>7. CASE MonitorWakes
  BY <1>7 DEF MonitorWakes, MonitorQuiet
<1>8. CASE MonitorDies
  BY <1>8 DEF MonitorDies, MonitorQuiet
<1>9. CASE WatchdogActs
  BY <1>9 DEF WatchdogActs
<1> QED
  BY <1>1, <1>2, <1>3, <1>4, <1>5, <1>6, <1>7, <1>8, <1>9 DEF MonitorNext, MonitorStep

\* A step of the whole, or none.
LEMMA EntrypointKeepsInv ==
    ASSUME EntrypointInv, [EntrypointNext]_entrypointVars
    PROVE  EntrypointInv'
<1>1. CASE UNCHANGED entrypointVars
  BY <1>1 DEF EntrypointInv, ScriptPlaces, NoEarlyReadiness, LaunchKept, ReadinessOfGeneration,
    MonitorsBesideServer, FailureNoted, ReadyIsEarned, ExitsCleanly, IsReady, Unready, Launched,
    entrypointVars, scriptVars, paperVars, monitorVars
<1> QED
  BY <1>1, WorldKeepsInv, ScriptKeepsInv, MonitorsKeepInv DEF EntrypointNext

\* The invariant holds throughout.
THEOREM EntrypointInvariant == EntrypointSpec => []EntrypointInv
BY EntrypointStarts, EntrypointKeepsInv, PTL DEF EntrypointSpec

-----------------------------------------------------------------------------

\* A readiness file that a probe can find, once the old files are gone, is of this
\* generation, and YRush has launched a round of enough participants in this Paper
\* (entrypoint.sh publishes what the queries before have told it).
THEOREM ReadinessIsEarned == EntrypointSpec => []ReadyIsEarned
<1>1. EntrypointInv => ReadyIsEarned
  BY DEF EntrypointInv
<1> QED
  BY <1>1, EntrypointInvariant, PTL

\* A container that ends by itself, or is told to end, leaves no readiness file
\* and no failure that its exit code does not show.
THEOREM ContainerExitsCleanly == EntrypointSpec => []ExitsCleanly
<1>1. EntrypointInv => ExitsCleanly
  BY DEF EntrypointInv
<1> QED
  BY <1>1, EntrypointInvariant, PTL

=============================================================================
