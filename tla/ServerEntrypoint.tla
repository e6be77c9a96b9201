-------------------------- MODULE ServerEntrypoint --------------------------
(***************************************************************************)
(* The container of the YRush server: the entrypoint script, the Paper     *)
(* process it runs, and the two monitors it leaves in the background.  The *)
(* runtime directory outlives the container: the readiness file, the       *)
(* failure file, the generation marker and Paper's log.                    *)
(*                                                                         *)
(* Clients come and go, Paper may crash, the container may be terminated   *)
(* or killed and is started again, and the first monitor may die.  Paper   *)
(* begins a new log when it starts and at no other time.                   *)
(***************************************************************************)
EXTENDS Integers, FiniteSets

CONSTANTS
    Required,       \* the required clients
    MaxPlayers,
    MaxOthers,      \* how many other players there are
    MaxGenerations  \* how often the container is started

VARIABLES
    script,         \* what the main script is at
    seen,           \* the answer to its last query: the required clients among its players
    terminating,
    code,           \* the exit code, once there is one
    ready, fatal, marker, done,     \* ready holds a generation, or 0 if there is no file; done: the log says so
    paper,          \* "dead", "booting" or "up"
    stop,           \* it has been told to stop
    launch,         \* participants of the launch: -1 for none yet, 0 for a refusal
    here, others,   \* the required clients on the server, the number of others
    monitor,        \* "off", "starting", "asking", "reading", "failing", "removing", "sleeping", "gone"
    unread,         \* the required clients in the lines of the log it has yet to read
    answer,         \* the roster it has been told
    watchdog        \* "off", "on" or "done"

scriptVars == <<script, seen, terminating, code>>
paperVars == <<paper, stop, launch, done>>
playerVars == <<here, others, unread>>
monitorVars == <<monitor, answer, watchdog>>
entrypointVars == <<scriptVars, paperVars, playerVars, monitorVars, ready, fatal, marker>>

Players == Cardinality(here) + others

Nobody == [roster |-> {}, count |-> 0]
Snapshot == [roster |-> here, count |-> Players]

EntrypointInit ==
    /\ script = "marking" /\ seen = Nobody /\ terminating = FALSE /\ code = 0
    /\ ready = 0 /\ fatal = FALSE /\ marker = 0 /\ done = FALSE
    /\ paper = "dead" /\ stop = FALSE /\ launch = -1
    /\ here = {} /\ others = 0 /\ unread = {}
    /\ monitor = "off" /\ answer = {} /\ watchdog = "off"

-----------------------------------------------------------------------------
(* Paper, YRush and the players *)

\* The monitor has noted where the log ends.
Watches == monitor \notin {"off", "starting", "gone"}

Log(departed) == unread' = IF Watches THEN unread \cup departed ELSE {}

PaperBoots ==
    /\ paper = "booting"
    /\ ~done
    /\ paper' = "up"
    /\ done' = TRUE
    /\ UNCHANGED <<stop, launch, playerVars>>

\* Until it begins its own log, the script reads that of the Paper before.
PaperBeginsLog ==
    /\ paper = "booting"
    /\ done
    /\ done' = FALSE
    /\ UNCHANGED <<paper, stop, launch, playerVars>>

\* Everyone leaves, and is logged as leaving.
PaperStops ==
    /\ paper = "up"
    /\ stop
    /\ paper' = "dead"
    /\ here' = {}
    /\ others' = 0
    /\ Log(here)
    /\ UNCHANGED <<stop, launch, done>>

PaperDies ==
    /\ paper # "dead"
    /\ paper' = "dead"
    /\ here' = {}
    /\ others' = 0
    /\ UNCHANGED <<stop, launch, done, unread>>

\* The command to start training; others count like required clients.
YRushLaunches ==
    /\ paper = "up"
    /\ script = "launching"
    /\ launch = -1
    /\ launch' = Players
    /\ UNCHANGED <<paper, stop, done, playerVars>>

ClientJoins(c) ==
    /\ paper = "up"
    /\ Players < MaxPlayers
    /\ here' = here \cup {c}
    /\ UNCHANGED <<paperVars, others, unread>>

ClientLeaves(c) ==
    /\ c \in here
    /\ here' = here \ {c}
    /\ Log({c})
    /\ UNCHANGED <<paperVars, others>>

OtherComesOrGoes ==
    /\ \/ paper = "up" /\ Players < MaxPlayers /\ others < MaxOthers /\ others' = others + 1
       \/ others > 0 /\ others' = others - 1
    /\ UNCHANGED <<paperVars, here, unread>>

PaperStep == PaperBoots \/ PaperBeginsLog \/ PaperStops

WorldNext ==
    /\ \/ PaperStep \/ PaperDies \/ YRushLaunches \/ OtherComesOrGoes
       \/ \E c \in Required : ClientJoins(c) \/ ClientLeaves(c)
    /\ UNCHANGED <<scriptVars, monitorVars, ready, fatal, marker>>

-----------------------------------------------------------------------------
(* The main script *)

worldVars == <<paperVars, playerVars>>

At(from, to) == script = from /\ script' = to

\* The generation of this container, written beside the old one and moved over it.
Mark ==
    /\ At("marking", "preparing")
    /\ marker' = marker + 1
    /\ UNCHANGED <<seen, terminating, code, worldVars, monitorVars, ready, fatal>>

\* Mutant: a readiness file is left for the server to overwrite.
ClearFailure == fatal' = FALSE /\ UNCHANGED ready

ClearFiles == fatal' = FALSE /\ ready' = 0

Prepare ==
    /\ At("preparing", "booting")
    /\ ClearFiles
    /\ paper' = "booting"
    /\ stop' = FALSE
    /\ launch' = -1
    /\ terminating' = FALSE
    /\ UNCHANGED <<seen, code, done, playerVars, monitorVars, marker>>

\* fail_startup: it waits for Paper to stop.
FailStartup ==
    /\ script' = "failing"
    /\ fatal' = TRUE
    /\ ready' = 0
    /\ stop' = TRUE
    /\ UNCHANGED <<seen, terminating, code, paper, launch, done, playerVars, monitorVars, marker>>

\* Only the script moves.
Moves(from, to) ==
    /\ At(from, to)
    /\ UNCHANGED <<terminating, code, worldVars, monitorVars, ready, fatal, marker>>

SeesDone == done /\ Moves("booting", "polling") /\ UNCHANGED seen

AsksForClients == paper # "dead" /\ Moves("polling", "asking") /\ UNCHANGED seen

\* A query that is not answered in time counts as nobody.
HearsClients ==
    /\ Moves("asking", "counting")
    /\ \/ seen' = Nobody
       \/ paper = "up" /\ seen' = Snapshot

Complete == Required \subseteq seen.roster

KeepsWaiting == ~Complete /\ Moves("counting", "polling") /\ UNCHANGED seen
StartsTraining == Complete /\ Moves("counting", "launching") /\ UNCHANGED seen

\* The launch is judged by the number of its participants.
SeesLaunch ==
    /\ launch >= Cardinality(Required)
    /\ Moves("launching", "verifying")
    /\ UNCHANGED seen

HearsPool ==
    /\ paper = "up"
    /\ Moves("verifying", "verified")
    /\ seen' = Snapshot

\* The loops and the check of the roster: Paper is gone, the deadline is over, the
\* server is full, the launch is refused or too small, a client is missing.
StartupFails ==
    /\ \/ script \in {"booting", "polling", "launching"}
       \/ script = "counting" /\ ~Complete /\ seen.count = MaxPlayers
       \/ script = "verified" /\ ~Complete
    /\ FailStartup

\* The container is gone with its first process, and the players with Paper.
Exits(status) ==
    /\ script' = "exited"
    /\ code' = status
    /\ paper' = "dead"
    /\ here' = {}
    /\ others' = 0
    /\ unread' = {}
    /\ monitor' = "off"
    /\ watchdog' = "off"
    /\ UNCHANGED <<seen, terminating, stop, launch, done, answer, marker>>

\* Here fail_startup runs in a subshell, which has no Paper to wait for.
PoolUnanswered ==
    /\ script = "verifying"
    /\ fatal' = TRUE
    /\ ready' = 0
    /\ Exits(1)

FailureExits ==
    /\ script = "failing"
    /\ paper = "dead"
    /\ Exits(1)
    /\ UNCHANGED <<ready, fatal>>

Publish ==
    /\ Complete
    /\ At("verified", "published")
    /\ ready' = marker
    /\ UNCHANGED <<seen, terminating, code, worldVars, monitorVars, fatal, marker>>

StartMonitors ==
    /\ At("published", "serving")
    /\ monitor' = "starting"
    /\ watchdog' = "on"
    /\ UNCHANGED <<seen, terminating, code, worldVars, answer, ready, fatal, marker>>

\* Mutant: the readiness file is taken to be gone when the server has ended.
LeaveFiles == UNCHANGED ready

RemoveReady == ready' = 0

\* wait has returned; the monitors are killed and the files removed.
Serves ==
    /\ script = "serving"
    /\ paper = "dead"
    /\ RemoveReady
    /\ \E status \in {0, 2} :
          Exits(IF fatal THEN 1 ELSE IF terminating THEN 143 ELSE status)
    /\ UNCHANGED fatal

\* shutdown, the trap: between two commands and while the script waits, not while
\* it has a query under way.
Shutdown ==
    /\ script \in {"booting", "polling", "counting", "launching", "verified",
                   "published", "serving", "failing"}
    /\ ~terminating
    /\ terminating' = TRUE
    /\ ready' = 0
    /\ stop' = TRUE
    /\ UNCHANGED <<script, seen, code, paper, launch, done, playerVars, monitorVars, fatal, marker>>

\* Killed without a chance to clean up.
Killed ==
    /\ script # "exited"
    /\ Exits(137)
    /\ UNCHANGED <<ready, fatal>>

Restart ==
    /\ marker < MaxGenerations
    /\ Moves("exited", "marking")
    /\ UNCHANGED seen

ScriptStep ==
    \/ Mark \/ Prepare \/ SeesDone \/ AsksForClients \/ HearsClients \/ KeepsWaiting
    \/ StartsTraining \/ SeesLaunch \/ HearsPool \/ StartupFails \/ PoolUnanswered
    \/ FailureExits \/ Publish \/ StartMonitors \/ Serves

-----------------------------------------------------------------------------
(* monitor_pool and monitor_watchdog *)

Monitors(from, to) == monitor = from /\ monitor' = to

MonitorQuiet == UNCHANGED <<scriptVars, worldVars, watchdog, ready, fatal, marker>>

\* The world is measured before the end of the log is noted.
MonitorStarts == Monitors("starting", "asking") /\ UNCHANGED answer /\ MonitorQuiet

MonitorIsAnswered ==
    /\ paper = "up"
    /\ Monitors("asking", "reading")
    /\ answer' = here
    /\ MonitorQuiet

\* Mutant: the log is read and forgotten.
SkipLog == unread' = {}

LeaveLog == UNCHANGED unread

\* The query has timed out: readiness is kept until the next one.
MonitorIsNotAnswered ==
    /\ Monitors("asking", "sleeping")
    /\ LeaveLog
    /\ UNCHANGED <<scriptVars, paperVars, here, others, answer, watchdog, ready, fatal, marker>>

\* Mutant: only the log is trusted.
ChangeInLog == unread # {}

PoolChanged == unread # {} \/ ~(Required \subseteq answer)

MonitorReads ==
    /\ monitor = "reading"
    /\ monitor' = IF PoolChanged THEN "failing" ELSE "sleeping"
    /\ fatal' = (fatal \/ PoolChanged)
    /\ unread' = {}
    /\ UNCHANGED <<scriptVars, paperVars, here, others, answer, watchdog, ready, marker>>

MonitorRemovesReady ==
    /\ Monitors("failing", "removing")
    /\ ready' = 0
    /\ UNCHANGED <<scriptVars, worldVars, answer, watchdog, fatal, marker>>

MonitorStopsServer ==
    /\ Monitors("removing", "gone")
    /\ stop' = TRUE
    /\ UNCHANGED <<scriptVars, paper, launch, done, playerVars, answer, watchdog, ready, fatal, marker>>

MonitorWakes ==
    /\ monitor = "sleeping"
    /\ monitor' = IF paper = "dead" THEN "gone" ELSE "asking"
    /\ UNCHANGED answer
    /\ MonitorQuiet

MonitorDies ==
    /\ monitor \notin {"off", "gone"}
    /\ monitor' = "gone"
    /\ UNCHANGED answer
    /\ MonitorQuiet

MonitorStep ==
    MonitorStarts \/ MonitorReads \/ MonitorRemovesReady \/ MonitorStopsServer \/ MonitorWakes

\* Mutant: a monitor that has noted a failure is taken to have seen to it.
FailureUnnoted == monitor = "gone" /\ ~fatal

MonitorLost == monitor = "gone"

WatchdogActs ==
    /\ watchdog = "on"
    /\ paper # "dead"
    /\ MonitorLost
    /\ watchdog' = "done"
    /\ fatal' = TRUE
    /\ ready' = 0
    /\ stop' = TRUE
    /\ UNCHANGED <<scriptVars, paper, launch, done, playerVars, monitor, answer, marker>>

MonitorNext ==
    MonitorStep \/ MonitorIsAnswered \/ MonitorIsNotAnswered \/ MonitorDies \/ WatchdogActs

EntrypointNext == WorldNext \/ ScriptStep \/ Shutdown \/ Killed \/ Restart \/ MonitorNext

\* The processes run and Paper obeys; a Paper that is asked for ever answers at times.
EntrypointSpec ==
    /\ EntrypointInit
    /\ [][EntrypointNext]_entrypointVars
    /\ WF_entrypointVars(PaperStep /\ WorldNext)
    /\ WF_entrypointVars(ScriptStep)
    /\ WF_entrypointVars(MonitorStep \/ MonitorIsNotAnswered)
    /\ SF_entrypointVars(MonitorIsAnswered)
    /\ WF_entrypointVars(WatchdogActs)

-----------------------------------------------------------------------------
(* Properties *)

\* What a probe of a container that runs would find.
IsReady == ready # 0 /\ script # "exited"

\* Once the old files are gone, a readiness file is this generation's, and YRush has
\* launched a large enough round in this very Paper, whatever the log of the one
\* before says.
ReadyIsEarned ==
    IsReady /\ script \notin {"marking", "preparing"} =>
        /\ ready = marker
        /\ launch >= Cardinality(Required)

\* Unless it is killed, a container leaves no readiness behind, not even one that
\* was published while it was being terminated, and it hides no failure.
ExitsCleanly ==
    script = "exited" /\ code # 137 =>
        /\ ready = 0
        /\ fatal => code = 1
        /\ code = 143 => terminating

\* A pool that lacks a client does not stay ready, whenever the client left.
AbsenceEndsReadiness == \A c \in Required : ~<>[](IsReady /\ c \notin here)

\* A client that leaves while the log is watched ends readiness, also if it is
\* back before anybody looks, and whatever becomes of the monitor.
DepartureEndsReadiness == unread # {} ~> ~IsReady

\* A failure that has been noted ends the container, so that it is started again.
FailureEndsContainer == fatal ~> script \in {"exited", "marking", "preparing"}

=============================================================================
