-------------------------- MODULE TrainingArtifacts --------------------------
(***************************************************************************)
(* training.py, train(), by the files it leaves in its run directory       *)
(* (run_directory.py, checkpoint.py) and the policy it promotes.  A file   *)
(* is written in two steps and the process may end between any two: it is  *)
(* killed or interrupted, a write fails, a client is lost.  A run's name   *)
(* is never used again, so its files stay as they were left.               *)
(*                                                                         *)
(* The pool that trains is TrainingRun's; a training round is here what    *)
(* its boundary makes of it.  The rounds of the evaluation are those of    *)
(* SharedRounds.                                                           *)
(***************************************************************************)
EXTENDS SharedRounds

CONSTANTS
    Updates,                \* updates
    MaxTrainingRounds,      \* bound: training rounds of a run
    EvaluationRounds        \* evaluation_rounds, of a run that evaluates

\* config.py: "updates must be positive".
ASSUME UpdatesAssumption == Updates \in Nat \ {0}

VARIABLES
    phase,          \* of train(), "ended" for a process that has failed
    todo,           \* the writes it is about to make, in order
    writing,        \* the first of them has begun
    files,          \* a policy version, or what a JSON document says of one; Absent or Torn
    journal,        \* metrics/ppo-updates.jsonl
    rounds,         \* metrics/rounds.jsonl, the number of its lines
    active,         \* active.version, which is completed_updates
    evaluates,      \* config.evaluation_rounds > 0
    loaded,         \* the version of the policy under evaluation, Absent between two
    played,         \* its global rounds
    evaluated,      \* reports: those of the policies evaluated
    best            \* best_checkpoint and best_policy_version

fileVars == <<files, journal, rounds>>
runVars == <<phase, active, evaluates, loaded, played, evaluated, best>>
artifactVars == <<sharedVars, fileVars, runVars, todo, writing>>

Absent == -1
Torn == -2

Untrained == <<"untrained", 0>>
Latest == <<"latest", 0>>
Best == <<"best", 0>>
Candidate(v) == <<"candidates", v>>
Promoted(v) == <<"promoted", v>>
EvaluationReport(v) == <<"evaluation-policy", v>>
Summary == <<"summary", 0>>

Documents == {<<"config", 0>>, <<"versions", 0>>, Untrained, Latest, Best, Summary}
    \cup {"candidates", "promoted", "evaluation-policy"} \X (0..Updates)

\* The kinds of write: "replace" writes a temporary that then replaces the document
\* (save_checkpoint, atomic_write_json), "copy" writes the document itself
\* (shutil.copy2), "append" adds a line to a journal.
Write(kind, name, content) == [kind |-> kind, name |-> name, content |-> content]

Save(name, version) == Write("replace", name, version)
WriteJson(name, version) == Write("replace", name, version)
Copy(source, name) == Write("copy", name, files[source])
AppendLine(journalName, version) == Write("append", <<journalName, 0>>, version)

\* Mutant: best.zip is written before the copy that is kept.
BestFirst(checkpoint, version) ==
    <<Copy(checkpoint, Best), Copy(checkpoint, Promoted(version))>>

\* Mutant: best.zip is left as it was.
KeptOnly(checkpoint, version) == <<Copy(checkpoint, Promoted(version))>>

Promotion(checkpoint, version) ==
    <<Copy(checkpoint, Promoted(version)), Copy(checkpoint, Best)>>

Creation ==
    <<WriteJson(<<"config", 0>>, 0), WriteJson(<<"versions", 0>>, 0), Save(Untrained, 0),
      Write("copy", Best, 0), Save(Latest, 0)>>

\* Mutant: the update is journalled before its archives are there.
JournalFirst(v) == <<AppendLine("updates", v), Save(Candidate(v), v), Save(Latest, v)>>

\* Mutant: the latest archive is replaced before the candidate is kept.
LatestFirst(v) == <<Save(Latest, v), Save(Candidate(v), v), AppendLine("updates", v)>>

UpdateWrites(v) == <<Save(Candidate(v), v), Save(Latest, v), AppendLine("updates", v)>>

ArtifactInit ==
    /\ SharedInit
    /\ phase = "creating"
    /\ todo = Creation
    /\ writing = FALSE
    /\ files = [n \in Documents |-> Absent]
    /\ journal = <<>>
    /\ rounds = 0
    /\ active = 0
    /\ evaluates \in BOOLEAN
    /\ loaded = Absent
    /\ played = <<>>
    /\ evaluated = <<>>
    /\ best = [checkpoint |-> Untrained, version |-> 0]

-----------------------------------------------------------------------------
(* Writing, and what ends it *)

Current == Head(todo)
JournalsUpdate == Current.name = <<"updates", 0>>

BeginWrite ==
    /\ todo # <<>>
    /\ ~writing
    /\ writing' = TRUE
    /\ files' = IF Current.kind = "copy" THEN [files EXCEPT ![Current.name] = Torn] ELSE files
    /\ journal' = IF JournalsUpdate THEN Append(journal, Torn) ELSE journal
    /\ UNCHANGED <<sharedVars, runVars, todo, rounds>>

EndWrite ==
    /\ writing
    /\ writing' = FALSE
    /\ todo' = Tail(todo)
    /\ files' = IF Current.kind = "append" THEN files
                ELSE [files EXCEPT ![Current.name] = Current.content]
    /\ journal' = IF JournalsUpdate THEN [journal EXCEPT ![Len(journal)] = Current.content]
                  ELSE journal
    /\ rounds' = IF Current.name = <<"rounds", 0>> THEN rounds + 1 ELSE rounds
    /\ UNCHANGED <<sharedVars, runVars>>

\* The process ends, and its pool with the round that it played.
Ends ==
    /\ phase' = "ended"
    /\ todo' = <<>>
    /\ writing' = FALSE
    /\ loaded' = Absent
    /\ played' = <<>>
    /\ game' = NoGame
    /\ NoReports
    /\ UNCHANGED <<fileVars, active, evaluates, evaluated, best>>

Fails == phase \notin {"passed", "rejected", "ended"} /\ Ends

-----------------------------------------------------------------------------
(* train() *)

Idle(p) == phase = p /\ todo = <<>>

StartTraining ==
    /\ Idle("creating")
    /\ phase' = "training"
    /\ UNCHANGED <<sharedVars, fileVars, todo, writing, active, evaluates, loaded, played,
                   evaluated, best>>

\* boundary(): a round has ended, and the optimiser has a result or not yet.
Boundary(optimized) ==
    /\ Idle("training")
    /\ active < Updates
    /\ rounds < MaxTrainingRounds
    /\ active' = IF optimized THEN active + 1 ELSE active
    /\ todo' = <<AppendLine("rounds", 0)>> \o IF optimized THEN UpdateWrites(active') ELSE <<>>
    /\ UNCHANGED <<sharedVars, fileVars, phase, writing, evaluates, loaded, played, evaluated, best>>

Promote(checkpoint, version) ==
    /\ phase' = "promoting"
    /\ best' = [checkpoint |-> checkpoint, version |-> version]
    /\ todo' = Promotion(checkpoint, version)

EndTraining ==
    /\ Idle("training")
    /\ active = Updates
    /\ IF evaluates
       THEN phase' = "evaluating" /\ UNCHANGED <<todo, best>>
       ELSE Promote(Latest, active)
    /\ UNCHANGED <<sharedVars, fileVars, writing, active, evaluates, loaded, played, evaluated>>

\* evaluation_checkpoints, and load_checkpoint, which refuses what is not whole.
Evaluated == IF evaluated = <<>> THEN Untrained ELSE Latest

LoadCheckpoint ==
    /\ Idle("evaluating")
    /\ loaded = Absent
    /\ IF files[Evaluated] \in {Absent, Torn}
       THEN Ends
       ELSE /\ loaded' = files[Evaluated]
            /\ UNCHANGED <<sharedVars, fileVars, todo, writing, phase, active, evaluates, played,
                           evaluated, best>>

Evaluating == loaded # Absent /\ Len(played) < EvaluationRounds

PlayRound == Evaluating /\ RoundMoves /\ UNCHANGED <<fileVars, runVars, todo, writing>>

\* reconcile_round
RoundReported ==
    /\ Evaluating
    /\ AllReported
    /\ IF Accepted(reports)
       THEN /\ played' = Append(played, GlobalRound(reports))
            /\ NextGlobalRound
            /\ UNCHANGED <<fileVars, todo, writing, phase, active, evaluates, loaded, evaluated, best>>
       ELSE Ends

\* The report of a policy is written, and compared with the best there is.
PolicyEvaluated ==
    /\ loaded # Absent
    /\ Len(played) = EvaluationRounds
    /\ evaluated' = Append(evaluated, played)
    /\ best' = IF evaluated = <<>> \/ Better(played, evaluated[1])
               THEN [checkpoint |-> Evaluated, version |-> loaded] ELSE best
    /\ todo' = <<WriteJson(EvaluationReport(loaded), loaded)>>
    /\ phase' = IF Len(evaluated') = 2 THEN "evaluated" ELSE phase
    /\ loaded' = Absent
    /\ played' = <<>>
    /\ UNCHANGED <<sharedVars, fileVars, writing, active, evaluates>>

EndEvaluation ==
    /\ Idle("evaluated")
    /\ Promote(best.checkpoint, best.version)
    /\ UNCHANGED <<sharedVars, fileVars, writing, active, evaluates, loaded, played, evaluated>>

Summarise ==
    /\ Idle("promoting")
    /\ phase' = "summarising"
    /\ todo' = <<WriteJson(Summary, best.version)>>
    /\ UNCHANGED <<sharedVars, fileVars, writing, active, evaluates, loaded, played, evaluated, best>>

\* cli.py: a bounded stage may still reject the run.
Finish ==
    /\ Idle("summarising")
    /\ phase' \in {"passed", "rejected"}
    /\ UNCHANGED <<sharedVars, fileVars, todo, writing, active, evaluates, loaded, played, evaluated,
                   best>>

ArtifactNext ==
    \/ BeginWrite
    \/ EndWrite
    \/ Fails
    \/ StartTraining
    \/ \E optimized \in BOOLEAN : Boundary(optimized)
    \/ EndTraining
    \/ LoadCheckpoint
    \/ PlayRound
    \/ RoundReported
    \/ PolicyEvaluated
    \/ EndEvaluation
    \/ Summarise
    \/ Finish

ArtifactSpec == ArtifactInit /\ [][ArtifactNext]_artifactVars

-----------------------------------------------------------------------------
(* Properties *)

\* Whenever the process ends, the archives that a later command is pointed at are
\* whole; best.zip alone may be torn, and what was being copied there is kept.
CheckpointsAreWhole ==
    /\ \A n \in {Untrained, Latest} \cup {Candidate(v) : v \in 1..Updates} : files[n] # Torn
    /\ files[Best] = Torn =>
        \/ files[Untrained] = 0 /\ files[Latest] = Absent
        \/ files[Promoted(best.version)] = best.version

\* Every update in the journal has its candidate, and the latest archive is not
\* older; updates are journalled in order and only the last line may be torn.
JournalIsBacked ==
    \A i \in DOMAIN journal :
        \/ journal[i] = i /\ files[Candidate(i)] = i /\ files[Latest] >= i
        \/ journal[i] = Torn /\ i = Len(journal)

\* latest.zip only moves on, to a version whose candidate is there, and an archive
\* that is kept by its version never changes.
ArchivesMoveOn ==
    [][/\ files'[Latest] # files[Latest] =>
            /\ files'[Latest] = files[Latest] + 1
            /\ files[Latest] # Absent => files[Candidate(files'[Latest])] = files'[Latest]
       /\ \A v \in 0..Updates : \A n \in {Candidate(v), Promoted(v)} :
            files[n] >= 0 => files'[n] = files[n]]_files

\* A run that has a summary has done all that its summary says, whatever becomes of
\* the process: its updates, their archives, the evaluations and the promotion.
SummaryIsTrue ==
    files[Summary] # Absent =>
        /\ files[Best] = files[Summary]
        /\ files[Promoted(files[Summary])] = files[Summary]
        /\ files[Latest] = Updates
        /\ journal = [i \in 1..Updates |-> i]
        /\ evaluates => \A v \in {0, Updates} : files[EvaluationReport(v)] = v

\* A trained policy is promoted over the untrained one only for rounds that its own
\* clients have won, or whose end they have seen when neither policy won any: not
\* for the wins of other players, nor for rounds that were stopped.
PromotionIsEarned ==
    Len(evaluated) = 2 /\ best.checkpoint = Latest =>
        /\ CreditedIn(evaluated[2]) \cup DrawnIn(evaluated[2]) # {}
        /\ CreditedIn(evaluated[1]) # {} => CreditedIn(evaluated[2]) # {}

=============================================================================
