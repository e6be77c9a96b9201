----------------------- MODULE TrainingArtifactsProofs -----------------------
(***************************************************************************)
(* Proofs about the files of a run directory: whenever the process ends,   *)
(* between any two steps of any write, the archives a later command is     *)
(* pointed at are whole, the journal is backed by archives, the archives   *)
(* have moved on version by version, and a summary is true.  They hold for *)
(* any number of updates, clients and evaluation rounds.                   *)
(*                                                                         *)
(* None of this is inductive: what a write does to the promise depends on  *)
(* what was written before it and on what is still to be written.  The     *)
(* invariant says, for each phase of train() and each rest of its writes,  *)
(* exactly what the files hold; the promises follow from it, and stay true *)
(* of a process that has ended because nothing writes any more.            *)
(*                                                                         *)
(* The second part is about the rounds of an evaluation: what the clients  *)
(* report of one round of the server is the truth, and is accepted; what   *)
(* is accepted has one end; and a promotion is earned by such rounds.      *)
(***************************************************************************)
EXTENDS TrainingArtifacts, FiniteSetTheorems, SequenceTheorems, TLAPS

\* What the files hold: the archives, the candidates kept up to c, the summary.
FilesAre(untrained, bestZip, latest, c, summary) ==
    /\ files[Untrained] = untrained
    /\ files[Best] = bestZip
    /\ files[Latest] = latest
    /\ \A v \in 0..Updates : files[Candidate(v)] = IF v \in 1..c THEN v ELSE Absent
    /\ files[Summary] = summary

\* No policy is promoted but the best, whose archive holds x.
PromotedIs(x) ==
    \A v \in 0..Updates : files[Promoted(v)] = IF v = best.version THEN x ELSE Absent

\* A journal of n updates, and perhaps a torn line.
Lines(n, torn) == [i \in 1..(IF torn THEN n + 1 ELSE n) |-> IF i = n + 1 THEN Torn ELSE i]

Reported(v) == files[EvaluationReport(v)] = v

UntrainedIsBest == best = [checkpoint |-> Untrained, version |-> 0]

BestIsEvaluated == UntrainedIsBest \/ best = [checkpoint |-> Latest, version |-> Updates]

WritesRound == <<AppendLine("rounds", 0)>>

-----------------------------------------------------------------------------
(* The phases of train() *)

Created(untrained, bestZip, latest) == FilesAre(untrained, bestZip, latest, 0, Absent)

Creates ==
    /\ phase = "creating"
    /\ active = 0 /\ evaluated = <<>> /\ loaded = Absent /\ UntrainedIsBest
    /\ journal = Lines(0, FALSE)
    /\ PromotedIs(Absent)
    /\ \/ /\ \/ todo = Creation
             \/ todo = <<WriteJson(<<"versions", 0>>, 0), Save(Untrained, 0), Write("copy", Best, 0),
                         Save(Latest, 0)>>
             \/ todo = <<Save(Untrained, 0), Write("copy", Best, 0), Save(Latest, 0)>>
          /\ Created(Absent, Absent, Absent)
       \/ /\ todo = <<Write("copy", Best, 0), Save(Latest, 0)>>
          /\ Created(0, IF writing THEN Torn ELSE Absent, Absent)
       \/ todo = <<Save(Latest, 0)>> /\ Created(0, 0, Absent)
       \/ todo = <<>> /\ Created(0, 0, 0)

Trains ==
    /\ phase = "training"
    /\ evaluated = <<>> /\ loaded = Absent /\ UntrainedIsBest
    /\ PromotedIs(Absent)
    /\ \/ /\ todo = <<>> \/ todo = WritesRound
          /\ FilesAre(0, 0, active, active, Absent)
          /\ journal = Lines(active, FALSE)
       \/ /\ active > 0
          /\ todo = WritesRound \o UpdateWrites(active) \/ todo = UpdateWrites(active)
          /\ FilesAre(0, 0, active - 1, active - 1, Absent)
          /\ journal = Lines(active - 1, FALSE)
       \/ /\ active > 0
          /\ todo = <<Save(Latest, active), AppendLine("updates", active)>>
          /\ FilesAre(0, 0, active - 1, active, Absent)
          /\ journal = Lines(active - 1, FALSE)
       \/ /\ active > 0
          /\ todo = <<AppendLine("updates", active)>>
          /\ FilesAre(0, 0, active, active, Absent)
          /\ journal = Lines(active - 1, writing)

\* All updates are made, journalled and archived.
Trained(bestZip, summary) ==
    /\ active = Updates
    /\ FilesAre(0, bestZip, Updates, Updates, summary)
    /\ journal = Lines(Updates, FALSE)

Evaluates ==
    /\ phase = "evaluating"
    /\ evaluates /\ UntrainedIsBest
    /\ Trained(0, Absent) /\ PromotedIs(Absent)
    /\ \/ loaded = Absent
       \/ todo = <<>> /\ loaded = IF evaluated = <<>> THEN 0 ELSE Updates
    /\ \/ evaluated = <<>> /\ todo = <<>>
       \/ /\ \E report : evaluated = <<report>>
          /\ \/ todo = <<>> /\ Reported(0)
             \/ todo = <<WriteJson(EvaluationReport(0), 0)>>

HasEvaluated ==
    /\ phase = "evaluated"
    /\ loaded = Absent
    /\ evaluates /\ BestIsEvaluated
    /\ Trained(0, Absent) /\ PromotedIs(Absent)
    /\ Reported(0)
    /\ \/ todo = <<>> /\ Reported(Updates)
       \/ todo = <<WriteJson(EvaluationReport(Updates), Updates)>>

\* What is asked of every run that is past its evaluation.
Judged ==
    /\ loaded = Absent
    /\ BestIsEvaluated
    /\ evaluates => Reported(0) /\ Reported(Updates)

Promotes ==
    /\ phase = "promoting"
    /\ Judged
    /\ \/ /\ todo = <<Write("copy", Promoted(best.version), best.version),
                      Write("copy", Best, best.version)>>
          /\ Trained(0, Absent) /\ PromotedIs(IF writing THEN Torn ELSE Absent)
       \/ /\ todo = <<Write("copy", Best, best.version)>>
          /\ Trained(IF writing THEN Torn ELSE 0, Absent) /\ PromotedIs(best.version)
       \/ todo = <<>> /\ Trained(best.version, Absent) /\ PromotedIs(best.version)

Summarises ==
    /\ phase = "summarising"
    /\ Judged
    /\ PromotedIs(best.version)
    /\ \/ todo = <<WriteJson(Summary, best.version)>> /\ Trained(best.version, Absent)
       \/ todo = <<>> /\ Trained(best.version, best.version)

Finished ==
    /\ phase \in {"passed", "rejected"}
    /\ Judged
    /\ PromotedIs(best.version)
    /\ todo = <<>> /\ Trained(best.version, best.version)

\* A process that has ended: nothing writes, and what it has left keeps the promises.
Over ==
    /\ phase = "ended"
    /\ todo = <<>> /\ loaded = Absent
    /\ CheckpointsAreWhole /\ JournalIsBacked /\ SummaryIsTrue

\* A document holds a version, nothing, or half of one.
Contents == 0..Updates \cup {Absent, Torn}

ArtifactTypeOK ==
    /\ files \in [Documents -> Contents]
    /\ active \in 0..Updates
    /\ evaluates \in BOOLEAN
    /\ writing \in BOOLEAN
    /\ writing => todo # <<>>

Progress ==
    \/ Creates \/ Trains \/ Evaluates \/ HasEvaluated \/ Promotes \/ Summarises \/ Finished
    \/ Over

ArtifactInv == ArtifactTypeOK /\ Progress

-----------------------------------------------------------------------------
(* The names of the documents, and the sequences of writes *)

\* The documents of the run directory are told apart by their names
\* (run_directory.py gives each its own path), and no journal is one of them.
LEMMA Names ==
    /\ Untrained \in Documents /\ Latest \in Documents /\ Best \in Documents
    /\ Summary \in Documents /\ <<"config", 0>> \in Documents /\ <<"versions", 0>> \in Documents
    /\ \A v \in 0..Updates :
        Candidate(v) \in Documents /\ Promoted(v) \in Documents /\ EvaluationReport(v) \in Documents
    /\ <<"updates", 0>> \notin Documents /\ <<"rounds", 0>> \notin Documents
    /\ <<"updates", 0>> # <<"rounds", 0>>
BY DEF Documents, Untrained, Latest, Best, Summary, Candidate, Promoted, EvaluationReport

\* No two of the names that the promises speak of are the same.
LEMMA NamesDiffer ==
    /\ Untrained # Latest /\ Untrained # Best /\ Untrained # Summary /\ Latest # Best
    /\ Latest # Summary /\ Best # Summary
    /\ <<"config", 0>> \notin {Untrained, Latest, Best, Summary}
    /\ <<"versions", 0>> \notin {Untrained, Latest, Best, Summary}
    /\ \A v :
        /\ Candidate(v) \notin {Untrained, Latest, Best, Summary, <<"config", 0>>, <<"versions", 0>>}
        /\ Promoted(v) \notin {Untrained, Latest, Best, Summary, <<"config", 0>>, <<"versions", 0>>}
        /\ EvaluationReport(v) \notin {Untrained, Latest, Best, Summary}
    /\ \A v, w : /\ Candidate(v) # Promoted(w)
                 /\ Candidate(v) # EvaluationReport(w)
                 /\ Promoted(v) # EvaluationReport(w)
                 /\ Candidate(v) = Candidate(w) => v = w
                 /\ Promoted(v) = Promoted(w) => v = w
                 /\ EvaluationReport(v) = EvaluationReport(w) => v = w
BY DEF Untrained, Latest, Best, Summary, Candidate, Promoted, EvaluationReport

\* The first of some writes, and what is left after it.
LEMMA Heads ==
    /\ \A a : Head(<<a>>) = a /\ Tail(<<a>>) = <<>> /\ <<a>> # <<>>
    /\ \A a, b : Head(<<a, b>>) = a /\ Tail(<<a, b>>) = <<b>> /\ <<a, b>> # <<>>
    /\ \A a, b, c : Head(<<a, b, c>>) = a /\ Tail(<<a, b, c>>) = <<b, c>> /\ <<a, b, c>> # <<>>
    /\ \A a, b, c, d : /\ Head(<<a, b, c, d>>) = a /\ Tail(<<a, b, c, d>>) = <<b, c, d>>
                      /\ <<a, b, c, d>> # <<>>
    /\ \A a, b, c, d, e : /\ Head(<<a, b, c, d, e>>) = a
                         /\ Tail(<<a, b, c, d, e>>) = <<b, c, d, e>>
                         /\ <<a, b, c, d, e>> # <<>>
OBVIOUS

\* The four writes of a boundary with an update, and the one of a boundary without.
LEMMA Joined ==
    ASSUME NEW a, NEW b, NEW c, NEW d
    PROVE  <<a>> \o <<b, c, d>> = <<a, b, c, d>> /\ <<a>> \o <<>> = <<a>>
<1> DEFINE S == {a, b, c, d}
<1>1. <<a>> \in Seq(S) /\ <<b, c, d>> \in Seq(S) /\ <<a, b, c, d>> \in Seq(S)
  OBVIOUS
<1>2. <<a>> \o <<b, c, d>> \in Seq(S) /\ Len(<<a>> \o <<b, c, d>>) = 4
  BY <1>1, ConcatProperties
<1>3. \A i \in 1..4 : (<<a>> \o <<b, c, d>>)[i] = <<a, b, c, d>>[i]
  BY <1>1, ConcatProperties
<1>4. <<a>> \o <<b, c, d>> = <<a, b, c, d>>
  BY <1>1, <1>2, <1>3, SeqEqual
<1>5. <<a>> \o <<>> = <<a>>
  BY <1>1, ConcatEmptySeq
<1> QED
  BY <1>4, <1>5

\* A line is begun, and completed, at the end of a journal of whole lines.
LEMMA LinesGrow ==
    ASSUME NEW n \in Nat
    PROVE  /\ Lines(0, FALSE) = <<>>
           /\ Append(Lines(n, FALSE), Torn) = Lines(n, TRUE)
           /\ [Lines(n, TRUE) EXCEPT ![Len(Lines(n, TRUE))] = n + 1] = Lines(n + 1, FALSE)
<1>1. Lines(0, FALSE) = <<>>
  BY DEF Lines
<1>2. Lines(n, FALSE) \in Seq(Int) /\ Len(Lines(n, FALSE)) = n
  BY DEF Lines
<1>3. Lines(n, TRUE) \in Seq(Int) /\ Len(Lines(n, TRUE)) = n + 1
  BY DEF Lines, Torn
<1>4. Append(Lines(n, FALSE), Torn) = Lines(n, TRUE)
  BY <1>2, <1>3 DEF Lines, Torn
<1>5. [Lines(n, TRUE) EXCEPT ![n + 1] = n + 1] = Lines(n + 1, FALSE)
  <2>1. Lines(n, TRUE) = [i \in 1..n + 1 |-> IF i = n + 1 THEN Torn ELSE i]
    BY DEF Lines
  <2>2. Lines(n + 1, FALSE) = [i \in 1..n + 1 |-> i]
    BY DEF Lines
  <2> QED
    BY <2>1, <2>2
<1> QED
  BY <1>1, <1>3, <1>4, <1>5

-----------------------------------------------------------------------------
(* What a write does *)

\* What every write leaves alone.
LEMMA WritesKeep ==
    ASSUME BeginWrite \/ EndWrite
    PROVE  UNCHANGED <<phase, active, evaluates, loaded, played, evaluated, best>>
BY DEF BeginWrite, EndWrite, runVars

\* Beginning to replace a document changes nothing: what is written is a temporary.
LEMMA ReplaceBegins ==
    ASSUME BeginWrite, NEW n \in Documents, NEW x, Current = Write("replace", n, x)
    PROVE  files' = files /\ journal' = journal /\ todo' = todo /\ writing' = TRUE
<1>1. Current.kind = "replace" /\ Current.name = n
  BY DEF Write
<1> QED
  BY <1>1, Names DEF BeginWrite, JournalsUpdate

\* Beginning to copy over a document tears it.
LEMMA CopyBegins ==
    ASSUME BeginWrite, NEW n \in Documents, NEW x, Current = Write("copy", n, x)
    PROVE  /\ files' = [files EXCEPT ![n] = Torn]
           /\ journal' = journal /\ todo' = todo /\ writing' = TRUE
<1>1. Current.kind = "copy" /\ Current.name = n
  BY DEF Write
<1> QED
  BY <1>1, Names DEF BeginWrite, JournalsUpdate

\* When either is done the document holds what was written.
LEMMA DocumentEnds ==
    ASSUME EndWrite, NEW n \in Documents, NEW x,
           Current = Write("replace", n, x) \/ Current = Write("copy", n, x)
    PROVE  /\ files' = [files EXCEPT ![n] = x]
           /\ journal' = journal /\ todo' = Tail(todo) /\ writing' = FALSE
<1>1. Current.kind # "append" /\ Current.name = n /\ Current.content = x
  BY DEF Write
<1> QED
  BY <1>1, Names DEF EndWrite, JournalsUpdate

\* A line of the journal of rounds is no line of that of updates.
LEMMA RoundLine ==
    ASSUME BeginWrite \/ EndWrite, Current = AppendLine("rounds", 0)
    PROVE  /\ files' = files /\ journal' = journal
           /\ BeginWrite => todo' = todo
           /\ EndWrite => todo' = Tail(todo) /\ writing' = FALSE
           /\ writing' \in BOOLEAN
<1>1. Current.kind = "append" /\ Current.name = <<"rounds", 0>>
  BY DEF AppendLine, Write
<1> QED
  BY <1>1, Names DEF BeginWrite, EndWrite, JournalsUpdate

\* A line of the journal of updates is torn until it is whole.
LEMMA UpdateLineBegins ==
    ASSUME BeginWrite, NEW v, Current = AppendLine("updates", v)
    PROVE  files' = files /\ journal' = Append(journal, Torn) /\ todo' = todo /\ writing' = TRUE
<1>1. Current.kind = "append" /\ Current.name = <<"updates", 0>>
  BY DEF AppendLine, Write
<1> QED
  BY <1>1 DEF BeginWrite, JournalsUpdate

\* When it is whole it names the update.
LEMMA UpdateLineEnds ==
    ASSUME EndWrite, NEW v, Current = AppendLine("updates", v)
    PROVE  /\ files' = files /\ journal' = [journal EXCEPT ![Len(journal)] = v]
           /\ todo' = Tail(todo) /\ writing' = FALSE
<1>1. Current.kind = "append" /\ Current.name = <<"updates", 0>> /\ Current.content = v
  BY DEF AppendLine, Write
<1> QED
  BY <1>1 DEF EndWrite, JournalsUpdate

-----------------------------------------------------------------------------
(* Every write keeps the progress of its phase *)

\* What ArchivesMoveOn asks of a step.
MovesOn ==
    /\ files'[Latest] # files[Latest] =>
        /\ files'[Latest] = files[Latest] + 1
        /\ files[Latest] # Absent => files[Candidate(files'[Latest])] = files'[Latest]
    /\ \A v \in 0..Updates : \A n \in {Candidate(v), Promoted(v)} :
        files[n] >= 0 => files'[n] = files[n]

\* The documents that are created with the run: best.zip is torn while untrained.zip
\* is copied to it, and latest.zip is not there yet.
LEMMA CreatesWrites ==
    ASSUME ArtifactTypeOK, Creates, BeginWrite \/ EndWrite
    PROVE  Creates' /\ MovesOn /\ files' \in [Documents -> Contents] /\ writing' \in BOOLEAN
           /\ (writing' => todo' # <<>>)
<1> USE UpdatesAssumption
<1>a. UNCHANGED <<phase, active, evaluates, loaded, evaluated, best>>
  BY WritesKeep
<1>b. 0 \in Contents /\ Torn \in Contents
  BY DEF Contents
<1>0. /\ UNCHANGED <<phase, active, evaluates, loaded, evaluated, best>>
      /\ files \in [Documents -> Contents] /\ 0 \in Contents /\ Torn \in Contents
  BY <1>a, <1>b DEF ArtifactTypeOK
<1> DEFINE W1 == <<Save(Latest, 0)>>
           W2 == <<Write("copy", Best, 0), Save(Latest, 0)>>
           W3 == <<Save(Untrained, 0), Write("copy", Best, 0), Save(Latest, 0)>>
           W4 == <<WriteJson(<<"versions", 0>>, 0), Save(Untrained, 0), Write("copy", Best, 0),
                   Save(Latest, 0)>>
<1>1. CASE todo = Creation /\ Created(Absent, Absent, Absent)
  <2>1. Current = Write("replace", <<"config", 0>>, 0) /\ Tail(todo) = W4 /\ todo # <<>>
    BY <1>1, Heads DEF Current, Creation, WriteJson, Save
  <2>2. CASE BeginWrite
    <3>1. files' = files /\ journal' = journal /\ todo' = todo /\ writing' = TRUE
      BY <1>0, <2>1, <2>2, ReplaceBegins, Names
    <3>2. MovesOn
      BY <1>0, <1>1, <3>1, Names, NamesDiffer DEF Creates, Created, FilesAre, PromotedIs, UntrainedIsBest, MovesOn, Absent, Torn
    <3> QED
      BY <1>0, <1>1, <2>1, <3>1, <3>2, Names, NamesDiffer DEF Creates, Created, FilesAre, PromotedIs, UntrainedIsBest
  <2>3. CASE EndWrite
    <3>1. files' = [files EXCEPT ![<<"config", 0>>] = 0] /\ journal' = journal /\ todo' = W4
          /\ writing' = FALSE
      BY <1>0, <2>1, <2>3, DocumentEnds, Names
    <3>2. MovesOn
      BY <1>0, <1>1, <3>1, Names, NamesDiffer DEF Creates, Created, FilesAre, PromotedIs, UntrainedIsBest, MovesOn, Absent, Torn
    <3> QED
      BY <1>0, <1>1, <2>3, <3>1, <3>2, Names, NamesDiffer DEF Creates, Created, FilesAre, PromotedIs, UntrainedIsBest
  <2> QED
    BY <2>2, <2>3
<1>2. CASE todo = W4 /\ Created(Absent, Absent, Absent)
  <2>1. Current = Write("replace", <<"versions", 0>>, 0) /\ Tail(todo) = W3 /\ todo # <<>>
    BY <1>2, Heads DEF Current, Creation, WriteJson, Save
  <2>2. CASE BeginWrite
    <3>1. files' = files /\ journal' = journal /\ todo' = todo /\ writing' = TRUE
      BY <1>0, <2>1, <2>2, ReplaceBegins, Names
    <3>2. MovesOn
      BY <1>0, <1>2, <3>1, Names, NamesDiffer DEF Creates, Created, FilesAre, PromotedIs, UntrainedIsBest, MovesOn, Absent, Torn
    <3> QED
      BY <1>0, <1>2, <2>1, <3>1, <3>2, Names, NamesDiffer DEF Creates, Created, FilesAre, PromotedIs, UntrainedIsBest
  <2>3. CASE EndWrite
    <3>1. files' = [files EXCEPT ![<<"versions", 0>>] = 0] /\ journal' = journal /\ todo' = W3
          /\ writing' = FALSE
      BY <1>0, <2>1, <2>3, DocumentEnds, Names
    <3>2. MovesOn
      BY <1>0, <1>2, <3>1, Names, NamesDiffer DEF Creates, Created, FilesAre, PromotedIs, UntrainedIsBest, MovesOn, Absent, Torn
    <3> QED
      BY <1>0, <1>2, <2>3, <3>1, <3>2, Names, NamesDiffer DEF Creates, Created, FilesAre, PromotedIs, UntrainedIsBest
  <2> QED
    BY <2>2, <2>3
<1>3. CASE todo = W3 /\ Created(Absent, Absent, Absent)
  <2>1. Current = Write("replace", Untrained, 0) /\ Tail(todo) = W2 /\ todo # <<>>
    BY <1>3, Heads DEF Current, Creation, WriteJson, Save
  <2>2. CASE BeginWrite
    <3>1. files' = files /\ journal' = journal /\ todo' = todo /\ writing' = TRUE
      BY <1>0, <2>1, <2>2, ReplaceBegins, Names
    <3>2. MovesOn
      BY <1>0, <1>3, <3>1, Names, NamesDiffer DEF Creates, Created, FilesAre, PromotedIs, UntrainedIsBest, MovesOn, Absent, Torn
    <3> QED
      BY <1>0, <1>3, <2>1, <3>1, <3>2, Names, NamesDiffer DEF Creates, Created, FilesAre, PromotedIs, UntrainedIsBest
  <2>3. CASE EndWrite
    <3>1. files' = [files EXCEPT ![Untrained] = 0] /\ journal' = journal /\ todo' = W2
          /\ writing' = FALSE
      BY <1>0, <2>1, <2>3, DocumentEnds, Names
    <3>2. MovesOn
      BY <1>0, <1>3, <3>1, Names, NamesDiffer DEF Creates, Created, FilesAre, PromotedIs, UntrainedIsBest, MovesOn, Absent, Torn
    <3> QED
      BY <1>0, <1>3, <2>3, <3>1, <3>2, Names, NamesDiffer DEF Creates, Created, FilesAre, PromotedIs, UntrainedIsBest
  <2> QED
    BY <2>2, <2>3
<1>4. CASE todo = W2 /\ Created(0, IF writing THEN Torn ELSE Absent, Absent)
  <2>1. Current = Write("copy", Best, 0) /\ Tail(todo) = W1 /\ todo # <<>>
    BY <1>4, Heads DEF Current, Creation, WriteJson, Save
  <2>2. CASE BeginWrite
    <3>1. files' = [files EXCEPT ![Best] = Torn] /\ journal' = journal /\ todo' = todo /\ writing' = TRUE
      BY <1>0, <2>1, <2>2, CopyBegins, Names
    <3>2. MovesOn
      BY <1>0, <1>4, <3>1, Names, NamesDiffer DEF Creates, Created, FilesAre, PromotedIs, UntrainedIsBest, MovesOn, Absent, Torn
    <3> QED
      BY <1>0, <1>4, <2>1, <3>1, <3>2, Names, NamesDiffer DEF Creates, Created, FilesAre, PromotedIs, UntrainedIsBest
  <2>3. CASE EndWrite
    <3>1. files' = [files EXCEPT ![Best] = 0] /\ journal' = journal /\ todo' = W1
          /\ writing' = FALSE
      BY <1>0, <2>1, <2>3, DocumentEnds, Names
    <3>2. MovesOn
      BY <1>0, <1>4, <3>1, Names, NamesDiffer DEF Creates, Created, FilesAre, PromotedIs, UntrainedIsBest, MovesOn, Absent, Torn
    <3> QED
      BY <1>0, <1>4, <2>3, <3>1, <3>2, Names, NamesDiffer DEF Creates, Created, FilesAre, PromotedIs, UntrainedIsBest
  <2> QED
    BY <2>2, <2>3
<1>5. CASE todo = W1 /\ Created(0, 0, Absent)
  <2>1. Current = Write("replace", Latest, 0) /\ Tail(todo) = <<>> /\ todo # <<>>
    BY <1>5, Heads DEF Current, Creation, WriteJson, Save
  <2>2. CASE BeginWrite
    <3>1. files' = files /\ journal' = journal /\ todo' = todo /\ writing' = TRUE
      BY <1>0, <2>1, <2>2, ReplaceBegins, Names
    <3>2. MovesOn
      BY <1>0, <1>5, <3>1, Names, NamesDiffer DEF Creates, Created, FilesAre, PromotedIs, UntrainedIsBest, MovesOn, Absent, Torn
    <3> QED
      BY <1>0, <1>5, <2>1, <3>1, <3>2, Names, NamesDiffer DEF Creates, Created, FilesAre, PromotedIs, UntrainedIsBest
  <2>3. CASE EndWrite
    <3>1. files' = [files EXCEPT ![Latest] = 0] /\ journal' = journal /\ todo' = <<>>
          /\ writing' = FALSE
      BY <1>0, <2>1, <2>3, DocumentEnds, Names
    <3>2. MovesOn
      BY <1>0, <1>5, <3>1, Names, NamesDiffer DEF Creates, Created, FilesAre, PromotedIs, UntrainedIsBest, MovesOn, Absent, Torn
    <3> QED
      BY <1>0, <1>5, <2>3, <3>1, <3>2, Names, NamesDiffer DEF Creates, Created, FilesAre, PromotedIs, UntrainedIsBest
  <2> QED
    BY <2>2, <2>3
<1>6. todo # <<>>
  BY DEF BeginWrite, EndWrite, ArtifactTypeOK
<1> QED
  BY <1>1, <1>2, <1>3, <1>4, <1>5, <1>6 DEF Creates

\* A boundary: the round is journalled, and for an update the candidate is kept and
\* the latest archive replaced before its own line is written.
LEMMA TrainsWrites ==
    ASSUME ArtifactTypeOK, Trains, BeginWrite \/ EndWrite
    PROVE  Trains' /\ MovesOn /\ files' \in [Documents -> Contents] /\ writing' \in BOOLEAN
           /\ (writing' => todo' # <<>>)
<1> USE UpdatesAssumption
<1>a. UNCHANGED <<phase, active, evaluates, loaded, evaluated, best>>
  BY WritesKeep
<1>b. active \in Contents /\ active \in 0..Updates
  BY DEF ArtifactTypeOK, Contents
<1>0. /\ UNCHANGED <<phase, active, evaluates, loaded, evaluated, best>>
      /\ files \in [Documents -> Contents] /\ active \in Contents /\ active \in 0..Updates
  BY <1>a, <1>b DEF ArtifactTypeOK
<1> DEFINE W1 == <<AppendLine("updates", active)>>
           W2 == <<Save(Latest, active), AppendLine("updates", active)>>
           W4 == <<AppendLine("rounds", 0), Save(Candidate(active), active), Save(Latest, active),
                   AppendLine("updates", active)>>
           Before == FilesAre(0, 0, active - 1, active - 1, Absent)
<1>1. CASE /\ todo = WritesRound
           /\ FilesAre(0, 0, active, active, Absent) /\ journal = Lines(active, FALSE)
  <2>1. Current = AppendLine("rounds", 0) /\ Tail(todo) = <<>> /\ todo # <<>>
    BY <1>1, Heads DEF Current, WritesRound
  <2> QED
    BY <1>0, <1>1, <2>1, RoundLine DEF Trains, FilesAre, PromotedIs, UntrainedIsBest, MovesOn
<1>2. CASE todo = WritesRound \o UpdateWrites(active) /\ Before /\ active > 0
           /\ journal = Lines(active - 1, FALSE)
  <2>0. todo = W4
    BY <1>2, Joined DEF WritesRound, UpdateWrites
  <2>1. Current = AppendLine("rounds", 0) /\ Tail(todo) = UpdateWrites(active) /\ todo # <<>>
    BY <2>0, Heads DEF Current, UpdateWrites
  <2>2. UpdateWrites(active) # <<>>
    BY Heads DEF UpdateWrites
  <2> QED
    BY <1>0, <1>2, <2>1, <2>2, RoundLine DEF Trains, FilesAre, PromotedIs, UntrainedIsBest, MovesOn
<1>3. CASE todo = UpdateWrites(active) /\ Before /\ active > 0
           /\ journal = Lines(active - 1, FALSE)
  <2>1. Current = Write("replace", Candidate(active), active) /\ Tail(todo) = W2 /\ todo # <<>>
    BY <1>3, Heads DEF Current, UpdateWrites, Save
  <2>2. CASE BeginWrite
    <3>1. files' = files /\ journal' = journal /\ todo' = todo /\ writing' = TRUE
      BY <1>0, <2>1, <2>2, ReplaceBegins, Names
    <3>2. MovesOn
      BY <1>0, <1>3, <3>1, Names, NamesDiffer DEF Trains, FilesAre, PromotedIs, UntrainedIsBest, MovesOn, Absent, Torn
    <3> QED
      BY <1>0, <1>3, <2>1, <3>1, <3>2, Names, NamesDiffer DEF Trains, FilesAre, PromotedIs, UntrainedIsBest
  <2>3. CASE EndWrite
    <3>1. files' = [files EXCEPT ![Candidate(active)] = active] /\ journal' = journal /\ todo' = W2
          /\ writing' = FALSE
      BY <1>0, <2>1, <2>3, DocumentEnds, Names
    <3>2. MovesOn
      BY <1>0, <1>3, <3>1, Names, NamesDiffer DEF Trains, FilesAre, PromotedIs, UntrainedIsBest, MovesOn, Absent, Torn
    <3>3. FilesAre(0, 0, active - 1, active, Absent)'
      BY <1>0, <1>3, <3>1, Names, NamesDiffer DEF Trains, FilesAre, PromotedIs, UntrainedIsBest
    <3>4. PromotedIs(Absent)' /\ UntrainedIsBest'
      BY <1>0, <1>3, <3>1, Names, NamesDiffer DEF Trains, FilesAre, PromotedIs, UntrainedIsBest
    <3>5. Trains'
      BY <1>0, <1>3, <3>1, <3>3, <3>4 DEF Trains
    <3>6. files' \in [Documents -> Contents]
      BY <1>0, <3>1
    <3> QED
      BY <1>0, <1>3, <2>3, <3>1, <3>2, <3>5, <3>6
  <2> QED
    BY <2>2, <2>3
<1>4. CASE todo = W2 /\ FilesAre(0, 0, active - 1, active, Absent) /\ active > 0
           /\ journal = Lines(active - 1, FALSE)
  <2>1. Current = Write("replace", Latest, active) /\ Tail(todo) = W1 /\ todo # <<>>
    BY <1>4, Heads DEF Current, Save
  <2>2. CASE BeginWrite
    <3>1. files' = files /\ journal' = journal /\ todo' = todo /\ writing' = TRUE
      BY <1>0, <2>1, <2>2, ReplaceBegins, Names
    <3>2. MovesOn
      BY <1>0, <1>4, <3>1, Names, NamesDiffer DEF Trains, FilesAre, PromotedIs, UntrainedIsBest, MovesOn, Absent, Torn
    <3> QED
      BY <1>0, <1>4, <2>1, <3>1, <3>2, Names, NamesDiffer DEF Trains, FilesAre, PromotedIs, UntrainedIsBest
  <2>3. CASE EndWrite
    <3>1. files' = [files EXCEPT ![Latest] = active] /\ journal' = journal /\ todo' = W1
          /\ writing' = FALSE
      BY <1>0, <2>1, <2>3, DocumentEnds, Names
    <3>2. MovesOn
      BY <1>0, <1>4, <3>1, Names, NamesDiffer DEF Trains, FilesAre, PromotedIs, UntrainedIsBest, MovesOn, Absent, Torn
    <3>3. FilesAre(0, 0, active, active, Absent)'
      BY <1>0, <1>4, <3>1, Names, NamesDiffer DEF Trains, FilesAre, PromotedIs, UntrainedIsBest
    <3>4. PromotedIs(Absent)' /\ UntrainedIsBest'
      BY <1>0, <1>4, <3>1, Names, NamesDiffer DEF Trains, FilesAre, PromotedIs, UntrainedIsBest
    <3>5. Trains'
      BY <1>0, <1>4, <3>1, <3>3, <3>4 DEF Trains
    <3>6. files' \in [Documents -> Contents]
      BY <1>0, <3>1
    <3> QED
      BY <1>0, <1>4, <2>3, <3>1, <3>2, <3>5, <3>6
  <2> QED
    BY <2>2, <2>3
<1>5. CASE todo = W1 /\ FilesAre(0, 0, active, active, Absent) /\ active > 0
           /\ journal = Lines(active - 1, writing)
  <2>1. Current = AppendLine("updates", active) /\ Tail(todo) = <<>> /\ todo # <<>>
    BY <1>5, Heads DEF Current
  <2>2. active - 1 \in Nat /\ (active - 1) + 1 = active
    BY <1>0, <1>5
  <2>3. CASE BeginWrite
    <3>1. files' = files /\ journal' = Append(journal, Torn) /\ todo' = todo /\ writing' = TRUE
          /\ writing = FALSE
      BY <2>1, <2>3, UpdateLineBegins DEF BeginWrite, ArtifactTypeOK
    <3>2. journal' = Lines(active - 1, TRUE)
      BY <1>5, <2>2, <3>1, LinesGrow
    <3> QED
      BY <1>0, <1>5, <2>1, <3>1, <3>2 DEF Trains, FilesAre, PromotedIs, UntrainedIsBest, MovesOn
  <2>4. CASE EndWrite
    <3>1. files' = files /\ journal' = [journal EXCEPT ![Len(journal)] = active] /\ todo' = <<>>
          /\ writing' = FALSE /\ writing = TRUE
      BY <2>1, <2>4, UpdateLineEnds DEF EndWrite, ArtifactTypeOK
    <3>2. journal = Lines(active - 1, TRUE)
      BY <1>5, <3>1
    <3>3. journal' = Lines(active, FALSE)
      BY <2>2, <3>1, <3>2, LinesGrow
    <3> QED
      BY <1>0, <1>5, <3>1, <3>3 DEF Trains, FilesAre, PromotedIs, UntrainedIsBest, MovesOn
  <2> QED
    BY <2>3, <2>4
<1>6. todo # <<>>
  BY DEF BeginWrite, EndWrite, ArtifactTypeOK
<1> QED
  BY <1>1, <1>2, <1>3, <1>4, <1>5, <1>6 DEF Trains

\* The report of the untrained policy; that of the trained one.
LEMMA EvaluatesWrites ==
    ASSUME ArtifactTypeOK, Evaluates, BeginWrite \/ EndWrite
    PROVE  Evaluates' /\ MovesOn /\ files' \in [Documents -> Contents] /\ writing' \in BOOLEAN
           /\ (writing' => todo' # <<>>)
<1> USE UpdatesAssumption
<1>a. UNCHANGED <<phase, active, evaluates, loaded, evaluated, best>>
  BY WritesKeep
<1>b. 0 \in Contents /\ Updates \in Contents /\ 0 \in 0..Updates /\ Updates \in 0..Updates
      /\ Torn \in Contents
  BY DEF Contents
<1>0. /\ UNCHANGED <<phase, active, evaluates, loaded, evaluated, best>>
      /\ files \in [Documents -> Contents] /\ 0 \in Contents /\ Updates \in Contents
      /\ 0 \in 0..Updates /\ Updates \in 0..Updates /\ Torn \in Contents
  BY <1>a, <1>b DEF ArtifactTypeOK
<1>1. CASE todo = <<WriteJson(EvaluationReport(0), 0)>>
  <2>1. Current = Write("replace", EvaluationReport(0), 0) /\ Tail(todo) = <<>> /\ todo # <<>>
    BY <1>1, Heads DEF Current, WriteJson
  <2>2. CASE BeginWrite
    <3>1. files' = files /\ journal' = journal /\ todo' = todo /\ writing' = TRUE
      BY <1>0, <2>1, <2>2, ReplaceBegins, Names
    <3>2. MovesOn
      BY <1>0, <1>1, <3>1, Names, NamesDiffer DEF Evaluates, Trained, FilesAre, PromotedIs, UntrainedIsBest, Reported, MovesOn, Absent, Torn
    <3> QED
      BY <1>0, <1>1, <2>1, <3>1, <3>2, Names, NamesDiffer DEF Evaluates, Trained, FilesAre, PromotedIs, UntrainedIsBest, Reported
  <2>3. CASE EndWrite
    <3>1. files' = [files EXCEPT ![EvaluationReport(0)] = 0] /\ journal' = journal /\ todo' = <<>>
          /\ writing' = FALSE
      BY <1>0, <2>1, <2>3, DocumentEnds, Names
    <3>2. MovesOn
      BY <1>0, <1>1, <3>1, Names, NamesDiffer DEF Evaluates, Trained, FilesAre, PromotedIs, UntrainedIsBest, Reported, MovesOn, Absent, Torn
    <3> QED
      BY <1>0, <1>1, <2>3, <3>1, <3>2, Names, NamesDiffer DEF Evaluates, Trained, FilesAre, PromotedIs, UntrainedIsBest, Reported
  <2> QED
    BY <2>2, <2>3
<1>2. todo # <<>>
  BY DEF BeginWrite, EndWrite, ArtifactTypeOK
<1> QED
  BY <1>1, <1>2 DEF Evaluates

\* The second report leaves the first alone.
LEMMA HasEvaluatedWrites ==
    ASSUME ArtifactTypeOK, HasEvaluated, BeginWrite \/ EndWrite
    PROVE  HasEvaluated' /\ MovesOn /\ files' \in [Documents -> Contents] /\ writing' \in BOOLEAN
           /\ (writing' => todo' # <<>>)
<1> USE UpdatesAssumption
<1>a. UNCHANGED <<phase, active, evaluates, loaded, evaluated, best>>
  BY WritesKeep
<1>b. 0 \in Contents /\ Updates \in Contents /\ 0 \in 0..Updates /\ Updates \in 0..Updates
      /\ Torn \in Contents
  BY DEF Contents
<1>0. /\ UNCHANGED <<phase, active, evaluates, loaded, evaluated, best>>
      /\ files \in [Documents -> Contents] /\ 0 \in Contents /\ Updates \in Contents
      /\ 0 \in 0..Updates /\ Updates \in 0..Updates /\ Torn \in Contents
  BY <1>a, <1>b DEF ArtifactTypeOK
<1>1. CASE todo = <<WriteJson(EvaluationReport(Updates), Updates)>>
  <2>1. Current = Write("replace", EvaluationReport(Updates), Updates) /\ Tail(todo) = <<>> /\ todo # <<>>
    BY <1>1, Heads DEF Current, WriteJson
  <2>2. CASE BeginWrite
    <3>1. files' = files /\ journal' = journal /\ todo' = todo /\ writing' = TRUE
      BY <1>0, <2>1, <2>2, ReplaceBegins, Names
    <3>2. MovesOn
      BY <1>0, <1>1, <3>1, Names, NamesDiffer DEF HasEvaluated, BestIsEvaluated, Trained, FilesAre, PromotedIs, UntrainedIsBest, Reported, MovesOn, Absent, Torn
    <3> QED
      BY <1>0, <1>1, <2>1, <3>1, <3>2, Names, NamesDiffer DEF HasEvaluated, BestIsEvaluated, Trained, FilesAre, PromotedIs, UntrainedIsBest, Reported
  <2>3. CASE EndWrite
    <3>1. files' = [files EXCEPT ![EvaluationReport(Updates)] = Updates] /\ journal' = journal /\ todo' = <<>>
          /\ writing' = FALSE
      BY <1>0, <2>1, <2>3, DocumentEnds, Names
    <3>2. MovesOn
      BY <1>0, <1>1, <3>1, Names, NamesDiffer DEF HasEvaluated, BestIsEvaluated, Trained, FilesAre, PromotedIs, UntrainedIsBest, Reported, MovesOn, Absent, Torn
    <3> QED
      BY <1>0, <1>1, <2>3, <3>1, <3>2, Names, NamesDiffer DEF HasEvaluated, BestIsEvaluated, Trained, FilesAre, PromotedIs, UntrainedIsBest, Reported
  <2> QED
    BY <2>2, <2>3
<1>2. todo # <<>>
  BY DEF BeginWrite, EndWrite, ArtifactTypeOK
<1> QED
  BY <1>1, <1>2 DEF HasEvaluated

\* The copy that is kept under its version is made before best.zip is torn.
LEMMA PromotesWrites ==
    ASSUME ArtifactTypeOK, Promotes, BeginWrite \/ EndWrite
    PROVE  Promotes' /\ MovesOn /\ files' \in [Documents -> Contents] /\ writing' \in BOOLEAN
           /\ (writing' => todo' # <<>>)
<1> USE UpdatesAssumption
<1>a. UNCHANGED <<phase, active, evaluates, loaded, evaluated, best>>
  BY WritesKeep
<1>b. 0 \in Contents /\ Updates \in Contents /\ 0 \in 0..Updates /\ Updates \in 0..Updates
      /\ Torn \in Contents
  BY DEF Contents
<1>c. best.version \in 0..Updates /\ best.version \in Contents
  BY <1>b DEF Promotes, Judged, BestIsEvaluated, UntrainedIsBest
<1>0. /\ UNCHANGED <<phase, active, evaluates, loaded, evaluated, best>>
      /\ files \in [Documents -> Contents] /\ 0 \in Contents /\ Updates \in Contents
      /\ 0 \in 0..Updates /\ Updates \in 0..Updates /\ Torn \in Contents
      /\ best.version \in 0..Updates /\ best.version \in Contents
  BY <1>a, <1>b, <1>c DEF ArtifactTypeOK
<1>1. CASE /\ todo = <<Write("copy", Promoted(best.version), best.version),
                       Write("copy", Best, best.version)>>
           /\ Trained(0, Absent) /\ PromotedIs(IF writing THEN Torn ELSE Absent)
  <2>1. Current = Write("copy", Promoted(best.version), best.version) /\ Tail(todo) = <<Write("copy", Best, best.version)>> /\ todo # <<>>
    BY <1>1, Heads DEF Current
  <2>2. CASE BeginWrite
    <3>1. files' = [files EXCEPT ![Promoted(best.version)] = Torn] /\ journal' = journal /\ todo' = todo /\ writing' = TRUE
      BY <1>0, <2>1, <2>2, CopyBegins, Names
    <3>2. MovesOn
      BY <1>0, <1>1, <3>1, Names, NamesDiffer DEF Promotes, Judged, Trained, FilesAre, PromotedIs, BestIsEvaluated, UntrainedIsBest, Reported, MovesOn, Absent, Torn
    <3> QED
      BY <1>0, <1>1, <2>1, <3>1, <3>2, Names, NamesDiffer DEF Promotes, Judged, Trained, FilesAre, PromotedIs, BestIsEvaluated, UntrainedIsBest, Reported
  <2>3. CASE EndWrite
    <3>1. files' = [files EXCEPT ![Promoted(best.version)] = best.version] /\ journal' = journal /\ todo' = <<Write("copy", Best, best.version)>>
          /\ writing' = FALSE
      BY <1>0, <2>1, <2>3, DocumentEnds, Names
    <3>2. MovesOn
      BY <1>0, <1>1, <3>1, Names, NamesDiffer DEF Promotes, Judged, Trained, FilesAre, PromotedIs, BestIsEvaluated, UntrainedIsBest, Reported, MovesOn, Absent, Torn
    <3> QED
      BY <1>0, <1>1, <2>3, <3>1, <3>2, Names, NamesDiffer DEF Promotes, Judged, Trained, FilesAre, PromotedIs, BestIsEvaluated, UntrainedIsBest, Reported
  <2> QED
    BY <2>2, <2>3
<1>2. CASE /\ todo = <<Write("copy", Best, best.version)>>
           /\ Trained(IF writing THEN Torn ELSE 0, Absent) /\ PromotedIs(best.version)
  <2>1. Current = Write("copy", Best, best.version) /\ Tail(todo) = <<>> /\ todo # <<>>
    BY <1>2, Heads DEF Current
  <2>2. CASE BeginWrite
    <3>1. files' = [files EXCEPT ![Best] = Torn] /\ journal' = journal /\ todo' = todo /\ writing' = TRUE
      BY <1>0, <2>1, <2>2, CopyBegins, Names
    <3>2. MovesOn
      BY <1>0, <1>2, <3>1, Names, NamesDiffer DEF Promotes, Judged, Trained, FilesAre, PromotedIs, BestIsEvaluated, UntrainedIsBest, Reported, MovesOn, Absent, Torn
    <3> QED
      BY <1>0, <1>2, <2>1, <3>1, <3>2, Names, NamesDiffer DEF Promotes, Judged, Trained, FilesAre, PromotedIs, BestIsEvaluated, UntrainedIsBest, Reported
  <2>3. CASE EndWrite
    <3>1. files' = [files EXCEPT ![Best] = best.version] /\ journal' = journal /\ todo' = <<>>
          /\ writing' = FALSE
      BY <1>0, <2>1, <2>3, DocumentEnds, Names
    <3>2. MovesOn
      BY <1>0, <1>2, <3>1, Names, NamesDiffer DEF Promotes, Judged, Trained, FilesAre, PromotedIs, BestIsEvaluated, UntrainedIsBest, Reported, MovesOn, Absent, Torn
    <3> QED
      BY <1>0, <1>2, <2>3, <3>1, <3>2, Names, NamesDiffer DEF Promotes, Judged, Trained, FilesAre, PromotedIs, BestIsEvaluated, UntrainedIsBest, Reported
  <2> QED
    BY <2>2, <2>3
<1>3. todo # <<>>
  BY DEF BeginWrite, EndWrite, ArtifactTypeOK
<1> QED
  BY <1>1, <1>2, <1>3 DEF Promotes

\* The summary is replaced as a whole, when all it says has been done.
LEMMA SummarisesWrites ==
    ASSUME ArtifactTypeOK, Summarises, BeginWrite \/ EndWrite
    PROVE  Summarises' /\ MovesOn /\ files' \in [Documents -> Contents] /\ writing' \in BOOLEAN
           /\ (writing' => todo' # <<>>)
<1> USE UpdatesAssumption
<1>a. UNCHANGED <<phase, active, evaluates, loaded, evaluated, best>>
  BY WritesKeep
<1>b. 0 \in Contents /\ Updates \in Contents /\ 0 \in 0..Updates /\ Updates \in 0..Updates
      /\ Torn \in Contents
  BY DEF Contents
<1>c. best.version \in 0..Updates /\ best.version \in Contents
  BY <1>b DEF Summarises, Judged, BestIsEvaluated, UntrainedIsBest
<1>0. /\ UNCHANGED <<phase, active, evaluates, loaded, evaluated, best>>
      /\ files \in [Documents -> Contents] /\ 0 \in Contents /\ Updates \in Contents
      /\ 0 \in 0..Updates /\ Updates \in 0..Updates /\ Torn \in Contents
      /\ best.version \in 0..Updates /\ best.version \in Contents
  BY <1>a, <1>b, <1>c DEF ArtifactTypeOK
<1>1. CASE /\ todo = <<WriteJson(Summary, best.version)>>
           /\ Trained(best.version, Absent)
  <2>1. Current = Write("replace", Summary, best.version) /\ Tail(todo) = <<>> /\ todo # <<>>
    BY <1>1, Heads DEF Current, WriteJson
  <2>2. CASE BeginWrite
    <3>1. files' = files /\ journal' = journal /\ todo' = todo /\ writing' = TRUE
      BY <1>0, <2>1, <2>2, ReplaceBegins, Names
    <3>2. MovesOn
      BY <1>0, <1>1, <3>1, Names, NamesDiffer DEF Summarises, Judged, Trained, FilesAre, PromotedIs, BestIsEvaluated, UntrainedIsBest, Reported, MovesOn, Absent, Torn
    <3> QED
      BY <1>0, <1>1, <2>1, <3>1, <3>2, Names, NamesDiffer DEF Summarises, Judged, Trained, FilesAre, PromotedIs, BestIsEvaluated, UntrainedIsBest, Reported
  <2>3. CASE EndWrite
    <3>1. files' = [files EXCEPT ![Summary] = best.version] /\ journal' = journal /\ todo' = <<>>
          /\ writing' = FALSE
      BY <1>0, <2>1, <2>3, DocumentEnds, Names
    <3>2. MovesOn
      BY <1>0, <1>1, <3>1, Names, NamesDiffer DEF Summarises, Judged, Trained, FilesAre, PromotedIs, BestIsEvaluated, UntrainedIsBest, Reported, MovesOn, Absent, Torn
    <3> QED
      BY <1>0, <1>1, <2>3, <3>1, <3>2, Names, NamesDiffer DEF Summarises, Judged, Trained, FilesAre, PromotedIs, BestIsEvaluated, UntrainedIsBest, Reported
  <2> QED
    BY <2>2, <2>3
<1>2. todo # <<>>
  BY DEF BeginWrite, EndWrite, ArtifactTypeOK
<1> QED
  BY <1>1, <1>2 DEF Summarises

-----------------------------------------------------------------------------
(* What the progress promises *)

\* Lines that are backed, and perhaps a torn one after them.
LEMMA LinesAreBacked ==
    ASSUME NEW n \in 0..Updates, NEW torn \in BOOLEAN, journal = Lines(n, torn),
           \A i \in 1..n : files[Candidate(i)] = i /\ files[Latest] >= i
    PROVE  JournalIsBacked
<1> USE UpdatesAssumption
<1>1. CASE torn = TRUE
  <2>1. journal = [i \in 1..n + 1 |-> IF i = n + 1 THEN Torn ELSE i]
    BY <1>1 DEF Lines
  <2>2. DOMAIN journal = 1..n + 1 /\ Len(journal) = n + 1
    BY <2>1
  <2>3. ASSUME NEW i \in 1..n + 1
        PROVE  \/ journal[i] = i /\ files[Candidate(i)] = i /\ files[Latest] >= i
               \/ journal[i] = Torn /\ i = n + 1
    <3>1. CASE i = n + 1
      BY <3>1, <2>1
    <3>2. CASE i # n + 1
      <4>1. i \in 1..n /\ journal[i] = i
        BY <3>2, <2>1
      <4> QED
        BY <4>1
    <3> QED
      BY <3>1, <3>2
  <2> QED
    BY <2>2, <2>3 DEF JournalIsBacked
<1>2. CASE torn = FALSE
  <2>1. journal = [i \in 1..n |-> i]
    BY <1>2 DEF Lines
  <2> QED
    BY <2>1 DEF JournalIsBacked
<1> QED
  BY <1>1, <1>2

\* What the files hold backs the lines of the journal that are not above it.
LEMMA FilesBackLines ==
    ASSUME NEW n \in 0..Updates, NEW torn \in BOOLEAN, journal = Lines(n, torn),
           NEW u, NEW b, NEW l \in n..Updates, NEW c \in n..Updates, NEW s,
           FilesAre(u, b, l, c, s)
    PROVE  JournalIsBacked
<1> USE UpdatesAssumption
<1>1. ASSUME NEW i \in 1..n
      PROVE  files[Candidate(i)] = i /\ files[Latest] >= i
  <2>1. i \in 1..c /\ i \in 0..Updates /\ l >= i
    OBVIOUS
  <2> QED
    BY <2>1 DEF FilesAre
<1> QED
  BY <1>1, LinesAreBacked

\* Archives that are not torn are whole.
LEMMA FilesAreWhole ==
    ASSUME NEW u, NEW b, NEW l, NEW c, NEW s, FilesAre(u, b, l, c, s),
           u # Torn, b # Torn, l # Torn
    PROVE  CheckpointsAreWhole
<1>1. \A v \in 1..Updates : files[Candidate(v)] # Torn
  BY UpdatesAssumption DEF FilesAre, Absent, Torn
<1> QED
  BY <1>1 DEF FilesAre, CheckpointsAreWhole

\* There is nothing to back before the first line.
LEMMA NoLinesAreBacked == journal = Lines(0, FALSE) => JournalIsBacked
<1>1. Lines(0, FALSE) = [i \in 1..0 |-> i]
  BY DEF Lines
<1>2. SUFFICES ASSUME journal = Lines(0, FALSE) PROVE JournalIsBacked
  OBVIOUS
<1>3. DOMAIN journal = 1..0
  BY <1>1, <1>2
<1>4. 1..0 = {}
  OBVIOUS
<1> QED
  BY <1>3, <1>4 DEF JournalIsBacked

\* The run's journal once all updates are in it.
LEMMA AllLines == Lines(Updates, FALSE) = [i \in 1..Updates |-> i]
BY UpdatesAssumption DEF Lines

\* What every phase promises of a process that ends in it.
LEMMA ProgressIsSafe ==
    ASSUME ArtifactTypeOK, Progress
    PROVE  CheckpointsAreWhole /\ JournalIsBacked /\ SummaryIsTrue
<1> USE UpdatesAssumption
<1>1. CASE Creates
  <2>1. CheckpointsAreWhole
    BY <1>1 DEF Creates, Created, FilesAre, CheckpointsAreWhole, Absent, Torn
  <2>2. JournalIsBacked
    BY <1>1, NoLinesAreBacked DEF Creates
  <2>3. SummaryIsTrue
    BY <1>1 DEF Creates, Created, FilesAre, SummaryIsTrue
  <2> QED
    BY <2>1, <2>2, <2>3
<1>2. CASE Trains
  <2>0. active \in 0..Updates /\ writing \in BOOLEAN
    BY DEF ArtifactTypeOK
  <2>1. CheckpointsAreWhole
    <3>1. 0 # Torn /\ active # Torn /\ (active > 0 => active - 1 # Torn)
      BY <2>0 DEF Torn
    <3> QED
      BY <1>2, <3>1, FilesAreWhole DEF Trains
  <2>2. JournalIsBacked
    <3>1. CASE journal = Lines(active, FALSE) /\ FilesAre(0, 0, active, active, Absent)
      <4>1. active \in active..Updates
        BY <2>0
      <4> QED
        BY <2>0, <3>1, <4>1, FilesBackLines
    <3>2. CASE /\ journal = Lines(active - 1, FALSE) /\ active > 0
               /\ FilesAre(0, 0, active - 1, active - 1, Absent)
      <4>1. /\ active - 1 \in 0..Updates /\ active - 1 \in (active - 1)..Updates
            /\ active \in (active - 1)..Updates
        BY <2>0, <3>2
      <4> QED
        BY <2>0, <3>2, <4>1, FilesBackLines
    <3>3. CASE /\ journal = Lines(active - 1, FALSE) /\ active > 0
               /\ FilesAre(0, 0, active - 1, active, Absent)
      <4>1. /\ active - 1 \in 0..Updates /\ active - 1 \in (active - 1)..Updates
            /\ active \in (active - 1)..Updates
        BY <2>0, <3>3
      <4> QED
        BY <2>0, <3>3, <4>1, FilesBackLines
    <3>4. CASE /\ journal = Lines(active - 1, writing) /\ active > 0
               /\ FilesAre(0, 0, active, active, Absent)
      <4>1. /\ active - 1 \in 0..Updates /\ active - 1 \in (active - 1)..Updates
            /\ active \in (active - 1)..Updates
        BY <2>0, <3>4
      <4> QED
        BY <2>0, <3>4, <4>1, FilesBackLines
    <3> QED
      BY <1>2, <3>1, <3>2, <3>3, <3>4 DEF Trains
  <2>3. SummaryIsTrue
    BY <1>2 DEF Trains, FilesAre, SummaryIsTrue
  <2> QED
    BY <2>1, <2>2, <2>3
<1>3. ASSUME NEW bestZip, NEW summary, Trained(bestZip, summary)
      PROVE  JournalIsBacked
  <2>1. Updates \in 0..Updates /\ Updates \in Updates..Updates
    OBVIOUS
  <2> QED
    BY <1>3, <2>1, FilesBackLines DEF Trained
<1>4. ASSUME NEW bestZip, NEW summary, Trained(bestZip, summary), bestZip # Torn
      PROVE  CheckpointsAreWhole
  BY <1>4 DEF Trained, FilesAre, CheckpointsAreWhole, Absent, Torn
<1>5. ASSUME NEW bestZip, Trained(bestZip, Absent)
      PROVE  SummaryIsTrue
  BY <1>5 DEF Trained, FilesAre, SummaryIsTrue
<1>6. CASE Evaluates \/ HasEvaluated
  BY <1>6, <1>3, <1>4, <1>5 DEF Evaluates, HasEvaluated, Torn
<1>7. ASSUME Judged
      PROVE  best.version \in 0..Updates
  BY <1>7 DEF Judged, BestIsEvaluated, UntrainedIsBest
<1>8. CASE Promotes
  <2>1. best.version \in 0..Updates
    BY <1>7, <1>8 DEF Promotes
  <2>2. JournalIsBacked /\ SummaryIsTrue
    BY <1>8, <1>3, <1>5 DEF Promotes
  <2>3. ASSUME NEW b, PromotedIs(best.version), Trained(b, Absent)
        PROVE  CheckpointsAreWhole
    <3>1. files[Promoted(best.version)] = best.version
      BY <2>1, <2>3 DEF PromotedIs
    <3>2. files[Untrained] # Torn /\ files[Latest] # Torn
      BY <2>3 DEF Trained, FilesAre, Torn
    <3>3. \A v \in 1..Updates : files[Candidate(v)] # Torn
      BY <2>3 DEF Trained, FilesAre, Torn, Absent
    <3> QED
      BY <3>1, <3>2, <3>3 DEF CheckpointsAreWhole
  <2>4. CASE Trained(0, Absent)
    BY <2>2, <2>4, <1>4 DEF Torn
  <2>5. CASE \E b : PromotedIs(best.version) /\ Trained(b, Absent)
    BY <2>2, <2>3, <2>5
  <2> QED
    BY <1>8, <2>4, <2>5 DEF Promotes
<1>9. CASE Summarises \/ Finished
  <2>1. best.version \in 0..Updates /\ best.version # Torn
    BY <1>7, <1>9 DEF Summarises, Finished, Torn
  <2>2. JournalIsBacked /\ CheckpointsAreWhole
    BY <1>9, <1>3, <1>4, <2>1 DEF Summarises, Finished
  <2>3. CASE Trained(best.version, Absent)
    BY <1>5, <2>2, <2>3
  <2>4. CASE Trained(best.version, best.version)
    <3>1. PromotedIs(best.version) /\ (evaluates => Reported(0) /\ Reported(Updates))
      BY <1>9 DEF Summarises, Finished, Judged
    <3>2. SummaryIsTrue
      BY <2>1, <2>4, <3>1, AllLines DEF Trained, FilesAre, PromotedIs, Reported, SummaryIsTrue
    <3> QED
      BY <2>2, <3>2
  <2> QED
    BY <1>9, <2>3, <2>4 DEF Summarises, Finished
<1> QED
  BY <1>1, <1>2, <1>6, <1>8, <1>9 DEF Progress, Over

-----------------------------------------------------------------------------
(* Every action keeps the invariant *)

\* The reports of two policies.
LEMMA Appended ==
    ASSUME NEW a, NEW b
    PROVE  Append(<<a>>, b) = <<a, b>> /\ Len(<<a, b>>) = 2
<1> DEFINE S == {a, b}
<1>1. <<a>> \in Seq(S) /\ <<a, b>> \in Seq(S) /\ b \in S
  OBVIOUS
<1>2. Append(<<a>>, b) \in Seq(S) /\ Len(Append(<<a>>, b)) = 2
  BY <1>1, AppendProperties
<1>3. \A i \in 1..2 : Append(<<a>>, b)[i] = <<a, b>>[i]
  BY <1>1, AppendProperties
<1> QED
  BY <1>1, <1>2, <1>3, SeqEqual

\* A new run directory is empty.
LEMMA ArtifactsStart == ArtifactInit => ArtifactInv
<1> SUFFICES ASSUME ArtifactInit PROVE ArtifactInv
  OBVIOUS
<1>1. ArtifactTypeOK
  <2>1. Absent \in Contents /\ 0 \in 0..Updates
    BY UpdatesAssumption DEF Contents
  <2>2. files \in [Documents -> Contents]
    BY <2>1 DEF ArtifactInit
  <2> QED
    BY <2>1, <2>2 DEF ArtifactInit, ArtifactTypeOK
<1>2. journal = Lines(0, FALSE)
  BY LinesGrow DEF ArtifactInit
<1>3. Creates
  <2>1. /\ files[Untrained] = Absent /\ files[Best] = Absent /\ files[Latest] = Absent
        /\ files[Summary] = Absent
        /\ \A v \in 0..Updates : files[Candidate(v)] = Absent /\ files[Promoted(v)] = Absent
    BY Names DEF ArtifactInit
  <2>2. Created(Absent, Absent, Absent) /\ PromotedIs(Absent)
    BY <2>1 DEF Created, FilesAre, PromotedIs
  <2> QED
    BY <1>2, <2>2 DEF ArtifactInit, Creates, UntrainedIsBest
<1> QED
  BY <1>1, <1>3 DEF ArtifactInv, Progress

\* The two steps of a write.
LEMMA WritesKeepInv ==
    ASSUME ArtifactInv, BeginWrite \/ EndWrite
    PROVE  ArtifactInv' /\ MovesOn
<1>1. active' \in 0..Updates /\ evaluates' \in BOOLEAN
  BY WritesKeep DEF ArtifactInv, ArtifactTypeOK
<1>2. todo # <<>>
  BY DEF ArtifactInv, ArtifactTypeOK, BeginWrite, EndWrite
<1>3. CASE Creates
  BY <1>1, <1>3, CreatesWrites DEF ArtifactInv, ArtifactTypeOK, Progress
<1>4. CASE Trains
  BY <1>1, <1>4, TrainsWrites DEF ArtifactInv, ArtifactTypeOK, Progress
<1>5. CASE Evaluates
  BY <1>1, <1>5, EvaluatesWrites DEF ArtifactInv, ArtifactTypeOK, Progress
<1>6. CASE HasEvaluated
  BY <1>1, <1>6, HasEvaluatedWrites DEF ArtifactInv, ArtifactTypeOK, Progress
<1>7. CASE Promotes
  BY <1>1, <1>7, PromotesWrites DEF ArtifactInv, ArtifactTypeOK, Progress
<1>8. CASE Summarises
  BY <1>1, <1>8, SummarisesWrites DEF ArtifactInv, ArtifactTypeOK, Progress
<1>9. CASE Finished \/ Over
  BY <1>2, <1>9 DEF Finished, Over
<1> QED
  BY <1>3, <1>4, <1>5, <1>6, <1>7, <1>8, <1>9 DEF ArtifactInv, Progress

\* The process may end at any step: what it leaves is what was promised before.
LEMMA EndsKeepInv ==
    ASSUME ArtifactInv, Ends
    PROVE  ArtifactInv'
<1>1. CheckpointsAreWhole /\ JournalIsBacked /\ SummaryIsTrue
  BY ProgressIsSafe DEF ArtifactInv
<1>2. UNCHANGED <<files, journal, active, evaluates, best>>
  BY DEF Ends, fileVars
<1>3. phase' = "ended" /\ todo' = <<>> /\ writing' = FALSE /\ loaded' = Absent
  BY DEF Ends
<1>4. ArtifactTypeOK'
  BY <1>2, <1>3 DEF ArtifactInv, ArtifactTypeOK
<1>5. CheckpointsAreWhole' /\ JournalIsBacked' /\ SummaryIsTrue'
  BY <1>1, <1>2 DEF CheckpointsAreWhole, JournalIsBacked, SummaryIsTrue, Reported
<1> QED
  BY <1>3, <1>4, <1>5 DEF ArtifactInv, Progress, Over

\* An idle process has nothing half written.
LEMMA IdleIsQuiet == ArtifactInv /\ todo = <<>> => writing = FALSE
BY DEF ArtifactInv, ArtifactTypeOK

\* The phase that the invariant is in, by the phase of train().
LEMMA PhaseOf ==
    ASSUME ArtifactInv
    PROVE  /\ phase = "creating" => Creates
           /\ phase = "training" => Trains
           /\ phase = "evaluating" => Evaluates
           /\ phase = "evaluated" => HasEvaluated
           /\ phase = "promoting" => Promotes
           /\ phase = "summarising" => Summarises
           /\ loaded # Absent => Evaluates
BY DEF ArtifactInv, Progress, Creates, Trains, Evaluates, HasEvaluated, Promotes, Summarises,
    Finished, Over, Judged

\* Between two boundaries the files are those of the active version.
LEMMA TrainsIdly ==
    ASSUME Trains, todo = <<>>
    PROVE  FilesAre(0, 0, active, active, Absent) /\ journal = Lines(active, FALSE)
<1>1. UpdateWrites(active) # <<>>
  BY Heads DEF UpdateWrites
<1>2. WritesRound \o UpdateWrites(active) # <<>>
  BY Heads, Joined DEF WritesRound, UpdateWrites
<1> QED
  BY <1>1, <1>2, Heads DEF Trains

\* train() goes on to its first round.
LEMMA StartTrainingKeepsInv ==
    ASSUME ArtifactInv, StartTraining
    PROVE  ArtifactInv'
<1>1. Creates /\ todo = <<>>
  BY PhaseOf DEF StartTraining, Idle
<1>2. UNCHANGED <<files, journal, todo, writing, active, evaluates, loaded, evaluated, best>>
      /\ phase' = "training"
  BY DEF StartTraining, fileVars
<1>3. Created(0, 0, 0) /\ active = 0 /\ journal = Lines(0, FALSE) /\ PromotedIs(Absent)
      /\ evaluated = <<>> /\ loaded = Absent /\ UntrainedIsBest
  BY <1>1, Heads DEF Creates, Creation
<1>4. Trains'
  BY <1>1, <1>2, <1>3 DEF Trains, Created, FilesAre, PromotedIs, UntrainedIsBest
<1>5. ArtifactTypeOK'
  BY <1>2 DEF ArtifactInv, ArtifactTypeOK
<1> QED
  BY <1>4, <1>5 DEF ArtifactInv, Progress

\* boundary(), whatever the optimiser has to say.
LEMMA BoundaryKeepsInv ==
    ASSUME ArtifactInv, NEW optimized \in BOOLEAN, Boundary(optimized)
    PROVE  ArtifactInv'
<1> USE UpdatesAssumption
<1>1. Trains /\ todo = <<>> /\ active < Updates /\ writing = FALSE
  BY PhaseOf, IdleIsQuiet DEF Boundary, Idle
<1>2. UNCHANGED <<files, journal, phase, writing, evaluates, loaded, evaluated, best>>
  BY DEF Boundary, fileVars
<1>3. active \in 0..Updates
  BY DEF ArtifactInv, ArtifactTypeOK
<1>4. FilesAre(0, 0, active, active, Absent) /\ journal = Lines(active, FALSE)
  BY <1>1, TrainsIdly
<1>5. CASE optimized
  <2>1. active' = active + 1 /\ todo' = WritesRound \o UpdateWrites(active')
    BY <1>5 DEF Boundary, WritesRound
  <2>2. todo' # <<>>
    BY <2>1, Joined, Heads DEF WritesRound, UpdateWrites
  <2>3. active' - 1 = active /\ active' > 0 /\ active' \in 0..Updates
    BY <1>1, <1>3, <2>1
  <2>4. FilesAre(0, 0, active - 1, active - 1, Absent)' /\ journal' = Lines(active' - 1, FALSE)
    BY <1>2, <1>4, <2>3 DEF FilesAre
  <2>5. Trains'
    BY <1>1, <1>2, <2>1, <2>3, <2>4 DEF Trains, PromotedIs, UntrainedIsBest
  <2> QED
    BY <1>2, <2>2, <2>3, <2>5 DEF ArtifactInv, ArtifactTypeOK, Progress
<1>6. CASE ~optimized
  <2>1. active' = active /\ todo' = WritesRound
    BY <1>6, Joined DEF Boundary, WritesRound
  <2>2. todo' # <<>>
    BY <2>1, Heads DEF WritesRound
  <2>3. Trains'
    BY <1>1, <1>2, <1>4, <2>1 DEF Trains, FilesAre, PromotedIs, UntrainedIsBest
  <2> QED
    BY <1>2, <2>1, <2>2, <2>3 DEF ArtifactInv, ArtifactTypeOK, Progress
<1> QED
  BY <1>5, <1>6

\* The archive that is promoted holds the version it is promoted as.
LEMMA PromoteKeepsInv ==
    ASSUME ArtifactTypeOK, Trained(0, Absent), todo = <<>>, loaded = Absent,
           evaluates => Reported(0) /\ Reported(Updates),
           \A v \in 0..Updates : files[Promoted(v)] = Absent,
           NEW checkpoint, NEW version, Promote(checkpoint, version),
           \/ checkpoint = Untrained /\ version = 0
           \/ checkpoint = Latest /\ version = Updates,
           UNCHANGED <<files, journal, writing, active, evaluates, loaded>>
    PROVE  ArtifactInv'
<1>1. writing' = FALSE
  BY DEF ArtifactTypeOK
<1>2. files[checkpoint] = version
  BY DEF Trained, FilesAre
<1>3. best'.version = version /\ BestIsEvaluated' /\ phase' = "promoting"
  BY DEF Promote, BestIsEvaluated, UntrainedIsBest
<1>4. todo' = <<Write("copy", Promoted(version), version), Write("copy", Best, version)>>
  BY <1>2 DEF Promote, Promotion, Copy
<1>5. todo' # <<>>
  BY <1>4, Heads
<1>6. Trained(0, Absent)'
  BY DEF Trained, FilesAre
<1>7. PromotedIs(IF writing THEN Torn ELSE Absent)'
  BY <1>1 DEF PromotedIs
<1>8. Judged'
  BY <1>3 DEF Judged, Reported
<1>9. Promotes'
  BY <1>3, <1>4, <1>6, <1>7, <1>8 DEF Promotes
<1> QED
  BY <1>1, <1>5, <1>9 DEF ArtifactInv, ArtifactTypeOK, Progress

\* Without an evaluation the trained policy is promoted as it is.
LEMMA EndTrainingKeepsInv ==
    ASSUME ArtifactInv, EndTraining
    PROVE  ArtifactInv'
<1>1. Trains /\ todo = <<>> /\ active = Updates /\ ArtifactTypeOK
  BY PhaseOf DEF EndTraining, Idle, ArtifactInv
<1>2. UNCHANGED <<files, journal, writing, active, evaluates, loaded, evaluated>>
  BY DEF EndTraining, fileVars
<1>3. FilesAre(0, 0, active, active, Absent) /\ journal = Lines(active, FALSE)
  BY <1>1, TrainsIdly
<1>4. Trained(0, Absent)
  BY <1>1, <1>3 DEF Trained
<1>5. /\ loaded = Absent /\ evaluated = <<>> /\ UntrainedIsBest
      /\ \A v \in 0..Updates : files[Promoted(v)] = Absent
  BY <1>1 DEF Trains, PromotedIs
<1>6. CASE evaluates
  <2>1. phase' = "evaluating" /\ UNCHANGED <<todo, best>>
    BY <1>6 DEF EndTraining
  <2>2. Evaluates'
    BY <1>1, <1>2, <1>4, <1>5, <1>6, <2>1
    DEF Evaluates, Trained, FilesAre, PromotedIs, UntrainedIsBest
  <2> QED
    BY <1>1, <1>2, <2>1, <2>2 DEF ArtifactInv, ArtifactTypeOK, Progress
<1>7. CASE ~evaluates
  <2>1. Promote(Latest, Updates)
    BY <1>1, <1>7 DEF EndTraining
  <2> QED
    BY <1>1, <1>2, <1>4, <1>5, <1>7, <2>1, PromoteKeepsInv
<1> QED
  BY <1>6, <1>7

\* load_checkpoint: both archives are whole by then.
LEMMA LoadKeepsInv ==
    ASSUME ArtifactInv, LoadCheckpoint
    PROVE  ArtifactInv'
<1>1. Evaluates /\ todo = <<>>
  BY PhaseOf DEF LoadCheckpoint, Idle
<1>2. CASE Ends
  BY <1>2, EndsKeepInv
<1>3. CASE ~Ends
  <2>1. /\ loaded' = files[Evaluated]
        /\ UNCHANGED <<files, journal, todo, writing, phase, active, evaluates, evaluated, best>>
    BY <1>3 DEF LoadCheckpoint, fileVars
  <2>2. files[Evaluated] = IF evaluated = <<>> THEN 0 ELSE Updates
    BY <1>1 DEF Evaluates, Trained, FilesAre, Evaluated
  <2>3. Evaluates'
    BY <1>1, <2>1, <2>2 DEF Evaluates, Trained, FilesAre, PromotedIs, UntrainedIsBest, Reported
  <2> QED
    BY <2>1, <2>3 DEF ArtifactInv, ArtifactTypeOK, Progress
<1> QED
  BY <1>2, <1>3

\* A round of the evaluation, and its report.
LEMMA RoundsKeepInv ==
    ASSUME ArtifactInv, PlayRound \/ RoundReported
    PROVE  ArtifactInv'
<1>1. CASE Ends
  BY <1>1, EndsKeepInv
<1>2. CASE ~Ends
  <2>1. UNCHANGED <<files, journal, todo, writing, phase, active, evaluates, loaded, evaluated, best>>
    BY <1>2 DEF PlayRound, RoundReported, fileVars, runVars
  <2>2. ArtifactTypeOK'
    BY <2>1 DEF ArtifactInv, ArtifactTypeOK
  <2>3. Evaluates'
    <3>1. Evaluates
      BY PhaseOf DEF PlayRound, RoundReported, Evaluating
    <3> QED
      BY <2>1, <3>1 DEF Evaluates, Trained, FilesAre, PromotedIs, UntrainedIsBest, Reported
  <2> QED
    BY <2>2, <2>3 DEF ArtifactInv, Progress
<1> QED
  BY <1>1, <1>2

\* The first policy evaluated is the untrained one, the second the trained one.
LEMMA PolicyEvaluatedKeepsInv ==
    ASSUME ArtifactInv, PolicyEvaluated
    PROVE  ArtifactInv'
<1> USE UpdatesAssumption
<1>1. Evaluates /\ loaded # Absent
  BY PhaseOf DEF PolicyEvaluated
<1>2. todo = <<>> /\ loaded = IF evaluated = <<>> THEN 0 ELSE Updates
  BY <1>1 DEF Evaluates
<1>3. /\ UNCHANGED <<files, journal, writing, active, evaluates>>
      /\ evaluated' = Append(evaluated, played)
      /\ todo' = <<WriteJson(EvaluationReport(loaded), loaded)>>
      /\ loaded' = Absent
  BY DEF PolicyEvaluated, fileVars
<1>4. writing = FALSE /\ todo' # <<>> /\ ArtifactTypeOK'
  BY <1>2, <1>3, Heads DEF ArtifactInv, ArtifactTypeOK
<1>5. CASE evaluated = <<>>
  <2>1. evaluated' = <<played>> /\ Len(evaluated') = 1
    BY <1>3, <1>5
  <2>2. phase' = phase /\ best' = [checkpoint |-> Untrained, version |-> 0]
    BY <1>2, <1>5, <2>1 DEF PolicyEvaluated, Evaluated
  <2>3. \E report : evaluated' = <<report>>
    BY <2>1
  <2>4. Evaluates'
    BY <1>1, <1>2, <1>3, <1>5, <2>2, <2>3
    DEF Evaluates, Trained, FilesAre, PromotedIs, UntrainedIsBest
  <2> QED
    BY <1>4, <2>4 DEF ArtifactInv, Progress
<1>6. CASE evaluated # <<>>
  <2>1. PICK report : evaluated = <<report>>
    BY <1>1, <1>6 DEF Evaluates
  <2>2. Reported(0) /\ loaded = Updates
    BY <1>1, <1>2, <1>6, Heads DEF Evaluates
  <2>3. evaluated' = <<report, played>> /\ Len(evaluated') = 2
    BY <1>3, <2>1, Appended
  <2>4. phase' = "evaluated"
    BY <2>3 DEF PolicyEvaluated
  <2>5. BestIsEvaluated'
    BY <1>1, <1>6, <2>2 DEF PolicyEvaluated, Evaluates, BestIsEvaluated, UntrainedIsBest, Evaluated
  <2>6. PromotedIs(Absent)' /\ Trained(0, Absent)' /\ Reported(0)'
    BY <1>1, <1>3, <2>2 DEF Evaluates, Trained, FilesAre, PromotedIs, Reported
  <2>7. evaluates'
    BY <1>1, <1>3 DEF Evaluates
  <2>8. HasEvaluated'
    BY <1>3, <2>2, <2>4, <2>5, <2>6, <2>7 DEF HasEvaluated
  <2> QED
    BY <1>4, <2>8 DEF ArtifactInv, Progress
<1> QED
  BY <1>5, <1>6

\* The better of the two is promoted.
LEMMA EndEvaluationKeepsInv ==
    ASSUME ArtifactInv, EndEvaluation
    PROVE  ArtifactInv'
<1>1. HasEvaluated /\ todo = <<>> /\ ArtifactTypeOK
  BY PhaseOf DEF EndEvaluation, Idle, ArtifactInv
<1>2. Promote(best.checkpoint, best.version)
      /\ UNCHANGED <<files, journal, writing, active, evaluates, loaded>>
  BY DEF EndEvaluation, fileVars
<1>3. Reported(0) /\ Reported(Updates) /\ Trained(0, Absent) /\ loaded = Absent
      /\ \A v \in 0..Updates : files[Promoted(v)] = Absent
  BY <1>1, Heads DEF HasEvaluated, PromotedIs
<1>4. \/ best.checkpoint = Untrained /\ best.version = 0
      \/ best.checkpoint = Latest /\ best.version = Updates
  BY <1>1 DEF HasEvaluated, BestIsEvaluated, UntrainedIsBest
<1> QED
  BY <1>1, <1>2, <1>3, <1>4, PromoteKeepsInv

\* The summary, and the judgement of the stage.
LEMMA SummariseKeepsInv ==
    ASSUME ArtifactInv, Summarise \/ Finish
    PROVE  ArtifactInv'
<1>1. UNCHANGED <<files, journal, writing, active, evaluates, loaded, evaluated, best>>
  BY DEF Summarise, Finish, fileVars
<1>2. todo = <<>>
  BY DEF Summarise, Finish, Idle
<1>3. CASE Summarise
  <2>1. Promotes
    BY <1>3, PhaseOf DEF Summarise, Idle
  <2>2. Trained(best.version, Absent) /\ PromotedIs(best.version) /\ Judged
    BY <1>2, <2>1, Heads DEF Promotes
  <2>3. phase' = "summarising" /\ todo' = <<WriteJson(Summary, best.version)>> /\ todo' # <<>>
    BY <1>3, Heads DEF Summarise
  <2>4. Summarises'
    BY <1>1, <2>2, <2>3
    DEF Summarises, Trained, FilesAre, PromotedIs, Judged, BestIsEvaluated, UntrainedIsBest, Reported
  <2> QED
    BY <1>1, <2>3, <2>4 DEF ArtifactInv, ArtifactTypeOK, Progress
<1>4. CASE Finish
  <2>1. Summarises
    BY <1>4, PhaseOf DEF Finish, Idle
  <2>2. Trained(best.version, best.version) /\ PromotedIs(best.version) /\ Judged
    BY <1>2, <2>1, Heads DEF Summarises
  <2>3. phase' \in {"passed", "rejected"} /\ todo' = todo
    BY <1>4 DEF Finish
  <2>4. Finished'
    BY <1>1, <1>2, <2>2, <2>3
    DEF Finished, Trained, FilesAre, PromotedIs, Judged, BestIsEvaluated, UntrainedIsBest, Reported
  <2> QED
    BY <1>1, <2>3, <2>4 DEF ArtifactInv, ArtifactTypeOK, Progress
<1> QED
  BY <1>3, <1>4

\* A step that does not write leaves the files alone.
LEMMA OthersLeaveFiles ==
    ASSUME ArtifactNext, ~BeginWrite, ~EndWrite
    PROVE  files' = files
BY DEF ArtifactNext, Fails, StartTraining, Boundary, EndTraining, LoadCheckpoint, PlayRound,
    RoundReported, PolicyEvaluated, EndEvaluation, Summarise, Finish, Ends, fileVars

\* A step of the whole, or none.
LEMMA ArtifactsKeepInv ==
    ASSUME ArtifactInv, [ArtifactNext]_artifactVars
    PROVE  ArtifactInv' /\ (MovesOn \/ files' = files)
<1>1. CASE UNCHANGED artifactVars
  <2>1. UNCHANGED <<files, journal, todo, writing, phase, active, evaluates, loaded, evaluated, best>>
    BY <1>1 DEF artifactVars, fileVars, runVars
  <2>2. ArtifactTypeOK'
    BY <2>1 DEF ArtifactInv, ArtifactTypeOK
  <2>3. Creates => Creates'
    BY <2>1 DEF Creates, Created, FilesAre, PromotedIs, UntrainedIsBest
  <2>4. Trains => Trains'
    BY <2>1 DEF Trains, FilesAre, PromotedIs, UntrainedIsBest
  <2>5. Evaluates => Evaluates'
    BY <2>1 DEF Evaluates, Trained, FilesAre, PromotedIs, UntrainedIsBest, Reported
  <2>6. HasEvaluated => HasEvaluated'
    BY <2>1 DEF HasEvaluated, Trained, FilesAre, PromotedIs, BestIsEvaluated, UntrainedIsBest, Reported
  <2>7. Promotes => Promotes'
    BY <2>1 DEF Promotes, Judged, Trained, FilesAre, PromotedIs, BestIsEvaluated, UntrainedIsBest,
      Reported
  <2>8. Summarises => Summarises'
    BY <2>1 DEF Summarises, Judged, Trained, FilesAre, PromotedIs, BestIsEvaluated, UntrainedIsBest,
      Reported
  <2>9. Finished => Finished'
    BY <2>1 DEF Finished, Judged, Trained, FilesAre, PromotedIs, BestIsEvaluated, UntrainedIsBest,
      Reported
  <2>10. Over => Over'
    BY <2>1 DEF Over, CheckpointsAreWhole, JournalIsBacked, SummaryIsTrue, Reported
  <2> QED
    BY <2>1, <2>2, <2>3, <2>4, <2>5, <2>6, <2>7, <2>8, <2>9, <2>10 DEF ArtifactInv, Progress
<1>2. CASE BeginWrite \/ EndWrite
  BY <1>2, WritesKeepInv
<1>3. CASE ArtifactNext /\ ~BeginWrite /\ ~EndWrite
  <2>1. ArtifactInv'
    BY <1>3, EndsKeepInv, StartTrainingKeepsInv, BoundaryKeepsInv, EndTrainingKeepsInv, LoadKeepsInv,
      RoundsKeepInv, PolicyEvaluatedKeepsInv, EndEvaluationKeepsInv, SummariseKeepsInv
    DEF ArtifactNext, Fails
  <2> QED
    BY <1>3, <2>1, OthersLeaveFiles
<1> QED
  BY <1>1, <1>2, <1>3

\* The invariant holds throughout: what the files hold follows from the phase and
\* from the writes that are left.
THEOREM ArtifactInvariant == ArtifactSpec => []ArtifactInv
BY ArtifactsStart, ArtifactsKeepInv, PTL DEF ArtifactSpec

-----------------------------------------------------------------------------
(* The promises *)

\* Wherever the process ends, the archives that a later command is pointed at are
\* whole (save_checkpoint replaces them); best.zip alone may be torn (shutil.copy2),
\* and what was being copied there is kept.
THEOREM ArchivesAreWhole == ArtifactSpec => []CheckpointsAreWhole
<1>1. ArtifactInv => CheckpointsAreWhole
  BY ProgressIsSafe DEF ArtifactInv
<1> QED
  BY <1>1, ArtifactInvariant, PTL

\* Every update in metrics/ppo-updates.jsonl has its candidate, and the latest
\* archive is not older: boundary() saves both before it writes the line.
THEOREM UpdatesAreBacked == ArtifactSpec => []JournalIsBacked
<1>1. ArtifactInv => JournalIsBacked
  BY ProgressIsSafe DEF ArtifactInv
<1> QED
  BY <1>1, ArtifactInvariant, PTL

\* A run with a summary has done what it says: its updates, their archives, the
\* evaluations and the promotion.
THEOREM SummariesAreTrue == ArtifactSpec => []SummaryIsTrue
<1>1. ArtifactInv => SummaryIsTrue
  BY ProgressIsSafe DEF ArtifactInv
<1> QED
  BY <1>1, ArtifactInvariant, PTL

\* latest.zip only moves on, to a version whose candidate is there, and an archive
\* that is kept by its version never changes.
THEOREM ArchivesOnlyMoveOn == ArtifactSpec => ArchivesMoveOn
<1>1. ArtifactInv /\ [ArtifactNext]_artifactVars => [MovesOn]_files
  BY ArtifactsKeepInv
<1> QED
  BY <1>1, ArtifactInvariant, PTL DEF ArtifactSpec, ArchivesMoveOn, MovesOn

-----------------------------------------------------------------------------
(* The rounds of an evaluation *)

Players == Clients \cup Outsiders

\* The server's round, and its end.
GameFits ==
    /\ started \in Nat
    /\ game \in [running : BOOLEAN, direction : Directions \cup {"NONE"}, members : SUBSET Players,
                 active : SUBSET Players, clock : Nat, winner : Players \cup {NoPlayer},
                 end : {"NONE", "WIN", "DRAW", "STOPPED"}]
    /\ game.active \subseteq game.members
    /\ game.running => game.active # {} /\ game.end = "NONE"
    /\ (game.winner # NoPlayer) <=> (game.end = "WIN")
    /\ game.winner # NoPlayer => game.winner \in game.active
    /\ started > 0 => Clients \subseteq game.members

\* Who plays is in the running round; who has ended has reported.
PartsFit ==
    /\ part \in [Clients -> {"due", "armed", "playing", "ended"}]
    /\ DOMAIN reports = {c \in Clients : part[c] = "ended"}
    /\ DOMAIN from = DOMAIN reports
    /\ \A c \in Playing : game.running /\ c \in game.active /\ started > 0

\* A report of the server's present round is true of it, also when the round has gone
\* on since.
IsTrue(r, c) ==
    /\ r.player = c
    /\ r.participants = Cardinality(game.members)
    /\ r.direction = game.direction
    /\ r.active \in Nat /\ r.active >= Cardinality(game.active)
    /\ r.outcome \in {"ELIMINATED", "WON", "LOST", "DRAW", "STOPPED"}
    /\ r.outcome = "ELIMINATED" => r.winner = NoPlayer /\ c \notin game.active
    /\ r.outcome \in {"WON", "LOST"} =>
        /\ ~game.running /\ game.end = "WIN" /\ r.winner = game.winner
        /\ r.outcome = "WON" <=> c = game.winner
    /\ r.outcome \in {"DRAW", "STOPPED"} =>
        r.winner = NoPlayer /\ ~game.running /\ game.end = r.outcome

ReportsFit ==
    \A c \in DOMAIN reports :
        from[c] \in 1..started /\ (from[c] = started => IsTrue(reports[c], c))

\* The last client to report has seen the state the round is left in.
LastReport ==
    AllReported => \E c \in Clients :
        /\ from[c] = started
        /\ reports[c].active = Cardinality(game.active)
        /\ ~game.running =>
            IF reports[c].outcome = "ELIMINATED" THEN game.active = {} /\ game.end = "DRAW"
            ELSE game.end = "WIN" \/ game.end = reports[c].outcome

SharedInv == GameFits /\ PartsFit /\ ReportsFit /\ LastReport

\* The pool and the players beside it are finitely many.
LEMMA PlayersAreFinite ==
    /\ \A S \in SUBSET Players : IsFiniteSet(S) /\ Cardinality(S) \in Nat
    /\ \A S \in SUBSET Players : \A T \in SUBSET S : Cardinality(T) <= Cardinality(S)
    /\ \A S \in SUBSET Players : Cardinality(S) = 0 <=> S = {}
<1>1. IsFiniteSet(Players)
  BY PlayersAssumption, FS_Union DEF Players
<1>2. \A S \in SUBSET Players : IsFiniteSet(S)
  BY <1>1, FS_Subset
<1> QED
  BY <1>2, FS_Subset, FS_CardinalityType, FS_EmptySet

\* Before its first round, a pool has no reports.
LEMMA NothingReported ==
    ASSUME NoReports, GameFits'
    PROVE  SharedInv'
<1>1. started' = 0 /\ part' = [c \in Clients |-> "due"] /\ reports' = <<>> /\ from' = <<>>
  BY DEF NoReports
<1>2. DOMAIN reports' = {} /\ DOMAIN from' = {}
  BY <1>1
<1>3. PartsFit'
  BY <1>1, <1>2 DEF PartsFit, Playing
<1>4. ReportsFit' /\ LastReport'
  BY <1>2, PlayersAssumption DEF ReportsFit, LastReport, AllReported
<1> QED
  BY <1>3, <1>4 DEF SharedInv

\* Nobody plays, at first and after the process has ended.
LEMMA NoGameFits ==
    /\ game = NoGame /\ started = 0 => GameFits
    /\ game' = NoGame /\ started' = 0 => GameFits'
<1>1. NoGame \in [running : BOOLEAN, direction : Directions \cup {"NONE"}, members : SUBSET Players,
                  active : SUBSET Players, clock : Nat, winner : Players \cup {NoPlayer},
                  end : {"NONE", "WIN", "DRAW", "STOPPED"}]
  BY DEF NoGame
<1>2. ~NoGame.running /\ NoGame.winner = NoPlayer /\ NoGame.end = "NONE"
      /\ NoGame.active \subseteq NoGame.members
  BY DEF NoGame
<1>3. game = NoGame /\ started = 0 => GameFits
  BY <1>1, <1>2 DEF GameFits
<1>4. game' = NoGame /\ started' = 0 => GameFits'
  BY <1>1, <1>2 DEF GameFits
<1> QED
  BY <1>3, <1>4

\* A step of the server in its running round, of which the clients in `who` report
\* their end: what was reported of the round before stays true, and what is added is.
LEMMA ReportsAreTrue ==
    ASSUME SharedInv, game.running, NEW who \in SUBSET Playing, NEW outcome, NEW winner, NEW stillActive,
           ReportEnds(who, outcome, winner, stillActive), UNCHANGED started, GameFits',
           game'.members = game.members, game'.direction = game.direction,
           game'.active \subseteq game.active,
           stillActive = game'.active,
           \A c \in who :
               /\ outcome[c] \in {"ELIMINATED", "WON", "LOST", "DRAW", "STOPPED"}
               /\ outcome[c] = "ELIMINATED" => winner = NoPlayer /\ c \notin game'.active
               /\ outcome[c] \in {"WON", "LOST"} =>
                    /\ ~game'.running /\ game'.end = "WIN" /\ winner = game'.winner
                    /\ outcome[c] = "WON" <=> c = game'.winner
               /\ outcome[c] \in {"DRAW", "STOPPED"} =>
                    winner = NoPlayer /\ ~game'.running /\ game'.end = outcome[c],
           \A c \in Playing \ who : game'.running /\ c \in game'.active,
           \A c \in who : ~game'.running =>
               IF outcome[c] = "ELIMINATED" THEN game'.active = {} /\ game'.end = "DRAW"
               ELSE game'.end = "WIN" \/ game'.end = outcome[c],
           ~AllReported
    PROVE  SharedInv'
<1> DEFINE count == Cardinality(game'.active)
<1>1. PICK d \in [who -> Distances] :
        reports' = [c \in DOMAIN reports \cup who |->
            IF c \notin who THEN reports[c]
            ELSE Report(c, outcome[c], winner, Cardinality(game.members),
                        Cardinality(stillActive), game.direction, game.clock, d[c])]
  BY DEF ReportEnds
<1>2. /\ part' = [c \in Clients |-> IF c \in who THEN "ended" ELSE part[c]]
      /\ from' = [c \in DOMAIN from \cup who |-> IF c \in who THEN started ELSE from[c]]
  BY DEF ReportEnds
<1>3. /\ DOMAIN reports' = DOMAIN reports \cup who /\ DOMAIN from' = DOMAIN reports'
      /\ \A c \in DOMAIN reports : c \notin who /\ reports'[c] = reports[c] /\ from'[c] = from[c]
      /\ \A c \in who : from'[c] = started
  BY <1>1, <1>2 DEF SharedInv, PartsFit, Playing
<1>4. \A c \in who :
        /\ reports'[c].player = c /\ reports'[c].outcome = outcome[c]
        /\ reports'[c].winner = winner /\ reports'[c].participants = Cardinality(game.members)
        /\ reports'[c].active = count /\ reports'[c].direction = game.direction
  BY <1>1 DEF Report
<1>5. PartsFit'
  <2>1. part' \in [Clients -> {"due", "armed", "playing", "ended"}]
    BY <1>2 DEF SharedInv, PartsFit
  <2>2. DOMAIN reports' = {c \in Clients : part'[c] = "ended"}
    BY <1>2, <1>3 DEF SharedInv, PartsFit, Playing
  <2>3. Playing' = Playing \ who
    BY <1>2 DEF Playing
  <2> QED
    BY <1>3, <2>1, <2>2, <2>3 DEF SharedInv, PartsFit
<1>6. started \in Nat /\ count \in Nat /\ count <= Cardinality(game.active)
  <2>1. game.active \in SUBSET Players /\ game'.active \in SUBSET Players
    BY DEF SharedInv, GameFits
  <2> QED
    BY <2>1, PlayersAreFinite DEF SharedInv, GameFits
<1>7. ASSUME NEW c \in DOMAIN reports
      PROVE  from'[c] \in 1..started' /\ (from'[c] = started' => IsTrue(reports[c], c)')
  <2>1. from[c] \in 1..started /\ (from[c] = started => IsTrue(reports[c], c))
    BY <1>7 DEF SharedInv, ReportsFit
  <2>2. ASSUME IsTrue(reports[c], c) PROVE reports[c].outcome = "ELIMINATED"
    BY <2>2 DEF IsTrue
  <2>3. reports'[c] = reports[c] /\ from'[c] = from[c]
    BY <1>3, <1>7
  <2>4. IsTrue(reports[c], c) => IsTrue(reports[c], c)'
    <3> SUFFICES ASSUME IsTrue(reports[c], c) PROVE IsTrue(reports[c], c)'
      OBVIOUS
    <3>1. reports[c].active \in Nat /\ reports[c].active >= Cardinality(game.active)
      BY DEF IsTrue
    <3>2. reports[c].active >= count /\ Cardinality(game.active) \in Nat
      BY <1>6, <3>1, PlayersAreFinite DEF SharedInv, GameFits
    <3> QED
      BY <2>2, <2>3, <3>1, <3>2 DEF IsTrue
  <2> QED
    BY <2>1, <2>3, <2>4
<1>8. ASSUME NEW c \in who PROVE IsTrue(reports[c], c)' /\ from'[c] = started /\ started \in 1..started
  <2>1. started > 0
    BY <1>8 DEF SharedInv, PartsFit
  <2> QED
    BY <1>3, <1>4, <1>6, <1>8, <2>1 DEF IsTrue
<1>9. ReportsFit'
  BY <1>3, <1>7, <1>8 DEF ReportsFit
<1>10. LastReport'
  <2> SUFFICES ASSUME AllReported' PROVE LastReport'
    BY DEF LastReport
  <2>1. PICK c \in who : TRUE
    BY <1>3 DEF AllReported
  <2>2. c \in Clients
    BY DEF Playing
  <2> QED
    BY <1>3, <1>4, <2>1, <2>2 DEF LastReport
<1> QED
  BY <1>5, <1>9, <1>10 DEF SharedInv

\* Every move of the server, and every arm, keeps the invariant of its rounds.
LEMMA MovesKeepRounds ==
    ASSUME SharedInv, RoundMoves
    PROVE  SharedInv'
<1>0. ~AllReported
  BY DEF RoundMoves
<1> USE DEF SharedInv
<1>1. ASSUME NEW c \in Clients, ArmArrives(c) PROVE SharedInv'
  <2>1. /\ part[c] = "due" /\ part' = [part EXCEPT ![c] = "armed"]
        /\ UNCHANGED <<game, started, reports, from>>
    BY <1>1 DEF ArmArrives
  <2>2. PartsFit'
    BY <2>1 DEF PartsFit, Playing
  <2>3. GameFits' /\ ReportsFit' /\ LastReport'
    BY <2>1 DEF GameFits, ReportsFit, LastReport, AllReported, IsTrue
  <2> QED
    BY <2>2, <2>3
<1>2. ASSUME NEW direction \in Directions, NEW others \in SUBSET Outsiders,
             ServerStarts(direction, others)
      PROVE  SharedInv'
  <2> DEFINE all == Clients \cup others
  <2>1. /\ ~game.running
        /\ started' = started + 1
        /\ game' = [NoGame EXCEPT !.running = TRUE, !.direction = direction,
                                  !.members = all, !.active = all]
        /\ part' = [c \in Clients |-> IF part[c] = "armed" THEN "playing" ELSE part[c]]
        /\ UNCHANGED <<reports, from>>
    BY <1>2 DEF ServerStarts
  <2>2. /\ game'.running /\ game'.direction = direction /\ game'.members = all
        /\ game'.active = all /\ game'.clock = 0 /\ game'.winner = NoPlayer /\ game'.end = "NONE"
    BY <2>1 DEF NoGame
  <2>3. game' \in [running : BOOLEAN, direction : Directions \cup {"NONE"}, members : SUBSET Players,
                   active : SUBSET Players, clock : Nat, winner : Players \cup {NoPlayer},
                   end : {"NONE", "WIN", "DRAW", "STOPPED"}]
    BY <2>1 DEF NoGame, Players
  <2>4. GameFits'
    BY <2>1, <2>2, <2>3, PlayersAssumption DEF GameFits
  <2>5. PartsFit'
    <3>1. Playing = {}
      BY <2>1 DEF PartsFit
    <3>2. part' \in [Clients -> {"due", "armed", "playing", "ended"}]
      BY <2>1 DEF PartsFit
    <3>3. DOMAIN reports' = {c \in Clients : part'[c] = "ended"}
      BY <2>1 DEF PartsFit
    <3> QED
      BY <2>1, <2>2, <3>2, <3>3 DEF PartsFit, Playing, GameFits
  <2>6. ReportsFit'
    BY <2>1 DEF ReportsFit, GameFits
  <2>7. LastReport'
    BY <1>0, <2>1 DEF LastReport, AllReported
  <2> QED
    BY <2>4, <2>5, <2>6, <2>7
<1>3. ASSUME NEW p \in Players, ServerEliminates(p) PROVE SharedInv'
  <2> DEFINE left == game.active \ {p}
             who == Playing \cap {p}
             outcome == [c \in Clients |-> "ELIMINATED"]
  <2>1. /\ p \in game.active /\ game.running
        /\ game' = [game EXCEPT !.active = left, !.running = left # {},
                                !.end = IF left = {} THEN "DRAW" ELSE "NONE"]
        /\ ReportEnds(who, outcome, NoPlayer, left)
        /\ started' = started
    BY <1>3 DEF ServerEliminates, ActiveAfter
  <2>2. /\ game'.active = left /\ game'.running = (left # {})
        /\ game'.end = IF left = {} THEN "DRAW" ELSE "NONE"
        /\ game'.members = game.members /\ game'.direction = game.direction
        /\ game'.winner = game.winner
    BY <2>1 DEF GameFits
  <2>3. GameFits'
    <3>1. game.winner = NoPlayer
      BY <2>1 DEF GameFits
    <3>2. game' \in [running : BOOLEAN, direction : Directions \cup {"NONE"},
                     members : SUBSET Players, active : SUBSET Players, clock : Nat,
                     winner : Players \cup {NoPlayer}, end : {"NONE", "WIN", "DRAW", "STOPPED"}]
      BY <2>1 DEF GameFits
    <3> QED
      BY <2>1, <2>2, <3>1, <3>2 DEF GameFits
  <2>4. \A c \in who : outcome[c] = "ELIMINATED" /\ c \notin left
    BY DEF Playing
  <2>5. \A c \in Playing \ who : game'.running /\ c \in game'.active
    BY <2>1, <2>2 DEF PartsFit
  <2> HIDE DEF outcome, who, left
  <2>6. who \in SUBSET Playing /\ left \subseteq game.active
    BY DEF who, left
  <2>7. game'.active = left /\ game'.active \subseteq game.active
    BY <2>2, <2>6
  <2>8. \A c \in who :
          /\ outcome[c] \in {"ELIMINATED", "WON", "LOST", "DRAW", "STOPPED"}
          /\ outcome[c] = "ELIMINATED" => NoPlayer = NoPlayer /\ c \notin game'.active
          /\ outcome[c] \notin {"WON", "LOST"} /\ outcome[c] \notin {"DRAW", "STOPPED"}
    BY <2>4, <2>7
  <2>9. \A c \in who : ~game'.running =>
          IF outcome[c] = "ELIMINATED" THEN game'.active = {} /\ game'.end = "DRAW"
          ELSE game'.end = "WIN" \/ game'.end = outcome[c]
    BY <2>2, <2>4
  <2> QED
    BY <1>0, <2>1, <2>2, <2>3, <2>5, <2>6, <2>7, <2>8, <2>9, ReportsAreTrue
<1>4. ASSUME NEW p \in Players, ServerAwards(p) PROVE SharedInv'
  <2> DEFINE outcome == [c \in Clients |-> IF c = p THEN "WON" ELSE "LOST"]
  <2>1. /\ p \in game.active /\ game.running
        /\ game' = [game EXCEPT !.running = FALSE, !.winner = p, !.end = "WIN"]
        /\ ReportEnds(Playing, outcome, p, game.active)
        /\ started' = started
    BY <1>4 DEF ServerAwards
  <2>2. /\ game'.active = game.active /\ ~game'.running /\ game'.end = "WIN"
        /\ game'.members = game.members /\ game'.direction = game.direction
        /\ game'.winner = p
    BY <2>1 DEF GameFits
  <2>3. GameFits'
    <3>1. game' \in [running : BOOLEAN, direction : Directions \cup {"NONE"},
                     members : SUBSET Players, active : SUBSET Players, clock : Nat,
                     winner : Players \cup {NoPlayer}, end : {"NONE", "WIN", "DRAW", "STOPPED"}]
      BY <2>1 DEF GameFits
    <3>2. p # NoPlayer
      BY PlayersAssumption DEF Players
    <3> QED
      BY <2>1, <2>2, <3>1, <3>2 DEF GameFits
  <2>4. \A c \in Playing : outcome[c] = IF c = p THEN "WON" ELSE "LOST"
    BY DEF Playing
  <2> HIDE DEF outcome
  <2>5. Playing \in SUBSET Playing
    OBVIOUS
  <2> QED
    BY <1>0, <2>1, <2>2, <2>3, <2>4, <2>5, ReportsAreTrue
<1>5. ASSUME NEW end \in {"DRAW", "STOPPED"}, ServerEnds(end) PROVE SharedInv'
  <2> DEFINE outcome == [c \in Clients |-> end]
  <2>1. /\ game.running
        /\ game' = [game EXCEPT !.running = FALSE, !.end = end]
        /\ ReportEnds(Playing, outcome, NoPlayer, game.active)
        /\ started' = started
    BY <1>5 DEF ServerEnds
  <2>2. /\ game'.active = game.active /\ ~game'.running /\ game'.end = end
        /\ game'.members = game.members /\ game'.direction = game.direction
        /\ game'.winner = game.winner
    BY <2>1 DEF GameFits
  <2>3. GameFits'
    <3>1. game' \in [running : BOOLEAN, direction : Directions \cup {"NONE"},
                     members : SUBSET Players, active : SUBSET Players, clock : Nat,
                     winner : Players \cup {NoPlayer}, end : {"NONE", "WIN", "DRAW", "STOPPED"}]
      BY <1>5, <2>1 DEF GameFits
    <3> QED
      BY <1>5, <2>1, <2>2, <3>1 DEF GameFits
  <2>4. \A c \in Playing : outcome[c] = end
    BY DEF Playing
  <2> HIDE DEF outcome
  <2>5. Playing \in SUBSET Playing
    OBVIOUS
  <2> QED
    BY <1>0, <1>5, <2>1, <2>2, <2>3, <2>4, <2>5, ReportsAreTrue
<1>6. CASE ClockTicks
  <2>1. /\ game' = [game EXCEPT !.clock = @ + 1]
        /\ UNCHANGED <<started, part, reports, from>>
    BY <1>6 DEF ClockTicks
  <2>2. /\ game'.running = game.running /\ game'.direction = game.direction
        /\ game'.members = game.members /\ game'.active = game.active
        /\ game'.winner = game.winner /\ game'.end = game.end
    BY <2>1 DEF GameFits
  <2>3. game' \in [running : BOOLEAN, direction : Directions \cup {"NONE"}, members : SUBSET Players,
                   active : SUBSET Players, clock : Nat, winner : Players \cup {NoPlayer},
                   end : {"NONE", "WIN", "DRAW", "STOPPED"}]
    BY <2>1 DEF GameFits
  <2>4. GameFits'
    BY <2>1, <2>2, <2>3 DEF GameFits
  <2>5. PartsFit'
    BY <2>1, <2>2 DEF PartsFit, Playing
  <2>6. ReportsFit' /\ LastReport'
    BY <2>1, <2>2 DEF ReportsFit, LastReport, AllReported, IsTrue
  <2> QED
    BY <2>4, <2>5, <2>6
<1> QED
  BY <1>1, <1>2, <1>3, <1>4, <1>5, <1>6 DEF RoundMoves, Players

\* The rest of train() leaves the round alone, or begins with no reports.
LEMMA RunKeepsRounds ==
    ASSUME SharedInv, [ArtifactNext]_artifactVars
    PROVE  SharedInv'
<1>1. CASE UNCHANGED sharedVars
  BY <1>1 DEF sharedVars, SharedInv, GameFits, PartsFit, ReportsFit, LastReport, AllReported, Playing,
    IsTrue
<1>2. CASE Ends
  BY <1>2, NoGameFits, NothingReported DEF Ends, NoReports
<1>3. CASE NextGlobalRound
  <2>1. started' = 0 /\ (game' = game \/ game' = NoGame)
    BY <1>3 DEF NextGlobalRound, NoReports
  <2>2. game' = game => GameFits'
    BY <2>1 DEF SharedInv, GameFits
  <2> QED
    BY <1>3, <2>1, <2>2, NoGameFits, NothingReported DEF NextGlobalRound
<1>4. CASE PlayRound
  BY <1>4, MovesKeepRounds DEF PlayRound
<1> QED
  BY <1>1, <1>2, <1>3, <1>4
  DEF ArtifactNext, BeginWrite, EndWrite, Fails, StartTraining, Boundary, EndTraining, LoadCheckpoint,
    RoundReported, PolicyEvaluated, EndEvaluation, Summarise, Finish, artifactVars

\* The invariant of the rounds of an evaluation: what is reported of the server's
\* present round is true of it, and the last report saw the state it is left in.
THEOREM RoundsAreKept == ArtifactSpec => []SharedInv
<1>1. ArtifactInit => SharedInv
  <2> SUFFICES ASSUME SharedInit PROVE SharedInv
    BY DEF ArtifactInit
  <2>1. DOMAIN reports = {} /\ DOMAIN from = {} /\ part = [c \in Clients |-> "due"]
    BY DEF SharedInit
  <2>2. GameFits
    BY NoGameFits DEF SharedInit
  <2>3. PartsFit
    BY <2>1 DEF PartsFit, Playing
  <2>4. ReportsFit /\ LastReport
    BY <2>1, PlayersAssumption DEF ReportsFit, LastReport, AllReported
  <2> QED
    BY <2>2, <2>3, <2>4 DEF SharedInv
<1> QED
  BY <1>1, RunKeepsRounds, PTL DEF ArtifactSpec

-----------------------------------------------------------------------------
(* What is made of the reports *)

\* All clients report the server's present round.
ReportedTogether == AllReported /\ \A c, d \in Clients : from[c] = from[d]

\* Then every report is true of it, and every client took part in it.
LEMMA ReportsTogether ==
    ASSUME SharedInv, ReportedTogether
    PROVE  /\ DOMAIN reports = Clients
           /\ \A c \in Clients : IsTrue(reports[c], c)
           /\ Clients \subseteq game.members
           /\ \E c \in Clients :
                /\ reports[c].active = Cardinality(game.active)
                /\ ~game.running =>
                    IF reports[c].outcome = "ELIMINATED" THEN game.active = {} /\ game.end = "DRAW"
                    ELSE game.end = "WIN" \/ game.end = reports[c].outcome
<1>1. DOMAIN reports = Clients
  BY DEF ReportedTogether, AllReported
<1>2. PICK c \in Clients :
        /\ from[c] = started
        /\ reports[c].active = Cardinality(game.active)
        /\ ~game.running =>
            IF reports[c].outcome = "ELIMINATED" THEN game.active = {} /\ game.end = "DRAW"
            ELSE game.end = "WIN" \/ game.end = reports[c].outcome
  BY DEF ReportedTogether, SharedInv, LastReport
<1>3. \A d \in Clients : from[d] = started
  BY <1>2 DEF ReportedTogether
<1>4. \A d \in Clients : from[d] \in 1..started /\ IsTrue(reports[d], d)
  BY <1>1, <1>3 DEF SharedInv, ReportsFit
<1>5. Clients \subseteq game.members
  BY <1>2, <1>4 DEF SharedInv, GameFits
<1> QED
  BY <1>1, <1>2, <1>4, <1>5

\* The values that a field has in the reports.
LEMMA FieldValues ==
    ASSUME DOMAIN reports = Clients
    PROVE  /\ Values(reports, "player") = {reports[c].player : c \in Clients}
           /\ Values(reports, "participants") = {reports[c].participants : c \in Clients}
           /\ Values(reports, "active") = {reports[c].active : c \in Clients}
           /\ Values(reports, "direction") = {reports[c].direction : c \in Clients}
           /\ \A S : Only(reports, S) <=> \A c \in Clients : reports[c].outcome \in S
           /\ \A o : With(reports, o) = {c \in Clients : reports[c].outcome = o}
BY DEF Values, With, Only

\* The least number of players that any client has left active is that of the players
\* still active: the last report tells it.
LEMMA LeastActive ==
    ASSUME SharedInv, ReportedTogether
    PROVE  Min(Values(reports, "active")) = Cardinality(game.active)
<1> DEFINE S == {reports[c].active : c \in Clients}
           n == Cardinality(game.active)
<1>1. Values(reports, "active") = S
  BY ReportsTogether, FieldValues
<1>2. n \in S /\ n \in Nat
  <2>1. n \in Nat
    BY PlayersAreFinite DEF SharedInv, GameFits
  <2> QED
    BY <2>1, ReportsTogether
<1>3. \A y \in S : y \in Nat /\ n <= y
  BY ReportsTogether, <1>2 DEF IsTrue
<1> HIDE DEF S, n
<1>4. \E x \in S : \A y \in S : x =< y
  BY <1>2, <1>3
<1>5. Min(S) \in S /\ \A y \in S : Min(S) =< y
  BY <1>4 DEF Min
<1>6. Min(S) = n
  <2>1. PICK m : m = Min(S)
    OBVIOUS
  <2>2. m \in Nat /\ n <= m /\ m <= n
    BY <1>2, <1>3, <1>5, <2>1
  <2> QED
    BY <1>2, <2>1, <2>2
<1> QED
  BY <1>1, <1>6 DEF n

\* reconcile_round: the clients agree about the round.
LEMMA RoundIsOne ==
    ASSUME SharedInv, ReportedTogether
    PROVE  /\ SameRound(reports)
           /\ OnlyControlled(reports) => game.members = Clients
           /\ game.members = Clients => OnlyControlled(reports)
<1> DEFINE n == Cardinality(game.members)
<1>1. \A c \in Clients : reports[c].participants = n /\ reports[c].direction = game.direction
  BY ReportsTogether DEF IsTrue
<1>2. Values(reports, "participants") = {n} /\ Values(reports, "direction") = {game.direction}
  BY <1>1, ReportsTogether, FieldValues, PlayersAssumption
<1>3. n \in Nat /\ Cardinality(Clients) \in Nat /\ Cardinality(Clients) <= n
      /\ (Cardinality(Clients) = n => Clients = game.members)
  <2>1. game.members \in SUBSET Players /\ Clients \in SUBSET game.members
    BY ReportsTogether DEF SharedInv, GameFits
  <2>2. IsFiniteSet(game.members) /\ n \in Nat /\ Cardinality(Clients) \in Nat
    BY <2>1, PlayersAreFinite
  <2> QED
    BY <2>1, <2>2, FS_Subset
<1> HIDE DEF n
<1>4. Max({n}) = n
  BY <1>3 DEF Max
<1>5. Cardinality({n}) = 1 /\ Cardinality({game.direction}) = 1
  BY FS_Singleton
<1> QED
  BY <1>2, <1>3, <1>4, <1>5 DEF SameRound, OnlyControlled, n

\* The end of the round, by the reports: it is won exactly if a report says so, and
\* then the winner, if it is a client, is the one that reports to have won.
LEMMA EndIsReported ==
    ASSUME SharedInv, ReportedTogether
    PROVE  /\ \A c \in Clients :
                /\ reports[c].outcome \in {"WON", "LOST"} =>
                    game.end = "WIN" /\ ~game.running /\ reports[c].winner = game.winner
                /\ reports[c].outcome \in {"DRAW", "STOPPED"} =>
                    /\ game.end = reports[c].outcome /\ ~game.running
                    /\ reports[c].winner = NoPlayer
                /\ reports[c].outcome = "ELIMINATED" =>
                    reports[c].winner = NoPlayer /\ c \notin game.active
                /\ reports[c].outcome \in {"ELIMINATED", "WON", "LOST", "DRAW", "STOPPED"}
                /\ reports[c].player = c
           /\ With(reports, "WON") = {game.winner} \cap Clients
           /\ game.end = "WIN" =>
                /\ With(reports, "WON") \cup With(reports, "LOST") # {}
                /\ NamedWinners(reports) = {game.winner}
                /\ Only(reports, {"WON", "LOST", "ELIMINATED"})
                /\ game.winner # NoPlayer
           /\ game.end # "WIN" =>
                /\ With(reports, "WON") = {} /\ With(reports, "LOST") = {}
                /\ game.winner = NoPlayer
           /\ With(reports, "STOPPED") # {} <=> game.end = "STOPPED"
           /\ With(reports, "DRAW") # {} => game.end = "DRAW"
<1> DEFINE out(c) == reports[c].outcome
<1>1. \A c \in Clients :
        /\ out(c) \in {"WON", "LOST"} =>
            /\ game.end = "WIN" /\ ~game.running /\ reports[c].winner = game.winner
            /\ out(c) = "WON" <=> c = game.winner
        /\ out(c) \in {"DRAW", "STOPPED"} =>
            game.end = out(c) /\ ~game.running /\ reports[c].winner = NoPlayer
        /\ out(c) = "ELIMINATED" => reports[c].winner = NoPlayer /\ c \notin game.active
        /\ out(c) \in {"ELIMINATED", "WON", "LOST", "DRAW", "STOPPED"}
        /\ reports[c].player = c
  BY ReportsTogether DEF IsTrue
<1>2. PICK last \in Clients : ~game.running =>
        IF out(last) = "ELIMINATED" THEN game.active = {} /\ game.end = "DRAW"
        ELSE game.end = "WIN" \/ game.end = out(last)
  BY ReportsTogether
<1>3. /\ (game.winner # NoPlayer) <=> (game.end = "WIN")
      /\ game.winner # NoPlayer => game.winner \in game.active
      /\ game.running => game.end = "NONE"
  BY DEF SharedInv, GameFits
<1>4. \A o : With(reports, o) = {c \in Clients : out(c) = o}
  BY ReportsTogether, FieldValues
<1>5. NamedWinners(reports) = {reports[c].winner : c \in {d \in Clients : out(d) # "ELIMINATED"}}
  BY ReportsTogether DEF NamedWinners
<1> HIDE DEF out
<1>6. With(reports, "WON") = {game.winner} \cap Clients
  <2>1. ASSUME NEW c \in Clients, out(c) = "WON" PROVE c = game.winner
    BY <1>1, <2>1
  <2>2. ASSUME game.winner \in Clients PROVE out(game.winner) = "WON"
    <3>1. game.winner # NoPlayer
      BY <2>2, PlayersAssumption
    <3>2. game.end = "WIN" /\ game.winner \in game.active
      BY <1>3, <3>1
    <3>3. out(game.winner) \in {"WON", "LOST"}
      BY <1>1, <2>2, <3>2
    <3> QED
      BY <1>1, <2>2, <3>3
  <2> QED
    BY <1>4, <2>1, <2>2
<1>7. ASSUME game.end = "WIN"
      PROVE  /\ With(reports, "WON") \cup With(reports, "LOST") # {}
             /\ NamedWinners(reports) = {game.winner}
             /\ \A c \in Clients : out(c) \in {"WON", "LOST", "ELIMINATED"}
             /\ game.winner # NoPlayer
  <2>1. \A c \in Clients : out(c) \notin {"DRAW", "STOPPED"}
    BY <1>1, <1>7
  <2>2. ~game.running
    BY <1>3, <1>7
  <2>3. out(last) # "ELIMINATED"
    BY <1>2, <1>7, <2>2 DEF out
  <2>4. out(last) \in {"WON", "LOST"}
    BY <1>1, <2>1, <2>3
  <2>5. \A c \in Clients : out(c) # "ELIMINATED" => reports[c].winner = game.winner
    BY <1>1, <2>1
  <2> QED
    BY <1>1, <1>3, <1>4, <1>5, <1>7, <2>1, <2>3, <2>4, <2>5
<1>8. ASSUME game.end # "WIN"
      PROVE  With(reports, "WON") = {} /\ With(reports, "LOST") = {} /\ game.winner = NoPlayer
  BY <1>1, <1>3, <1>4, <1>8
<1>9. With(reports, "STOPPED") # {} <=> game.end = "STOPPED"
  <2>1. ASSUME NEW c \in Clients, out(c) = "STOPPED" PROVE game.end = "STOPPED"
    BY <1>1, <2>1
  <2>2. ASSUME game.end = "STOPPED" PROVE out(last) = "STOPPED"
    <3>1. ~game.running
      BY <1>3, <2>2
    <3> QED
      BY <1>2, <2>2, <3>1 DEF out
  <2> QED
    BY <1>4, <2>1, <2>2
<1>10. With(reports, "DRAW") # {} => game.end = "DRAW"
  BY <1>1, <1>4
<1>11. \A S : Only(reports, S) <=> \A c \in Clients : out(c) \in S
  BY ReportsTogether, FieldValues DEF out
<1> QED
  BY <1>1, <1>6, <1>7, <1>8, <1>9, <1>10, <1>11 DEF out

\* The players of the reports are the clients.
LEMMA ControlledAreClients ==
    ASSUME SharedInv, ReportedTogether
    PROVE  ControlledPlayers(reports) = Clients
<1>1. ControlledPlayers(reports) = {reports[c].player : c \in Clients}
  BY ReportsTogether, FieldValues DEF ControlledPlayers
<1>2. \A c \in Clients : reports[c].player = c
  BY EndIsReported
<1> QED
  BY <1>1, <1>2

\* reconcile_round accepts the reports.
LEMMA RoundIsAccepted ==
    ASSUME SharedInv, ReportedTogether
    PROVE  Accepted(reports)
<1>1. DOMAIN reports = Clients /\ SameRound(reports)
  BY ReportsTogether, RoundIsOne
<1>2. NoStrayWinner(reports)
  BY <1>1, EndIsReported DEF NoStrayWinner
<1>3. CASE game.winner \in Clients
  <2>1. game.end = "WIN"
    BY <1>3, EndIsReported, PlayersAssumption
  <2>2. With(reports, "WON") = {game.winner}
    BY <1>3, EndIsReported
  <2>3. {reports[c].player : c \in With(reports, "WON")} = {game.winner}
    BY <1>3, <2>2, EndIsReported
  <2>4. Cardinality(With(reports, "WON")) = 1
    BY <2>2, FS_Singleton
  <2>5. WonRound(reports)
    BY <2>1, <2>3, <2>4, EndIsReported DEF WonRound
  <2>6. With(reports, "WON") # {}
    BY <2>2
  <2>7. ~Only(reports, {"STOPPED", "DRAW", "ELIMINATED"})
    BY <1>1, <2>6, FieldValues
  <2>8. OneEnd(reports)
    BY <2>5, <2>6, <2>7 DEF OneEnd
  <2> QED
    BY <1>1, <1>2, <2>8 DEF Accepted
<1>4. CASE game.end = "WIN" /\ game.winner \notin Clients
  <2>1. With(reports, "WON") = {} /\ With(reports, "LOST") # {}
    BY <1>4, EndIsReported
  <2>2. \A c \in Clients : reports[c].outcome \in {"LOST", "ELIMINATED"}
    <3>1. \A o : With(reports, o) = {c \in Clients : reports[c].outcome = o}
      BY <1>1, FieldValues
    <3>2. \A c \in Clients : reports[c].outcome # "WON"
      BY <2>1, <3>1
    <3>3. \A c \in Clients : reports[c].outcome \in {"WON", "LOST", "ELIMINATED"}
      BY <1>1, <1>4, EndIsReported, FieldValues
    <3> QED
      BY <3>2, <3>3
  <2>3. Only(reports, {"LOST", "ELIMINATED"})
    BY <1>1, <2>2, FieldValues
  <2>4. NamedWinners(reports) = {game.winner} /\ game.winner # NoPlayer
    BY <1>4, EndIsReported
  <2>5. Cardinality(NamedWinners(reports)) = 1
    BY <2>4, FS_Singleton
  <2>6. ControlledPlayers(reports) = Clients
    BY ControlledAreClients
  <2>7. game.members # Clients
    BY <1>4, <2>4 DEF SharedInv, GameFits
  <2>8. LostRound(reports)
    BY <1>4, <2>3, <2>4, <2>5, <2>6, <2>7, RoundIsOne DEF LostRound
  <2>9. ~Only(reports, {"STOPPED", "DRAW", "ELIMINATED"})
    BY <1>1, <2>1, FieldValues
  <2>10. OneEnd(reports)
    BY <2>1, <2>8, <2>9 DEF OneEnd
  <2> QED
    BY <1>1, <1>2, <2>10 DEF Accepted
<1>5. CASE game.end # "WIN"
  <2>1. With(reports, "WON") = {} /\ With(reports, "LOST") = {}
    BY <1>5, EndIsReported
  <2>2. \A c \in Clients : reports[c].outcome \in {"STOPPED", "DRAW", "ELIMINATED"}
    <3>1. \A o : With(reports, o) = {c \in Clients : reports[c].outcome = o}
      BY <1>1, FieldValues
    <3>2. \A c \in Clients : reports[c].outcome \notin {"WON", "LOST"}
      BY <2>1, <3>1
    <3> QED
      BY <3>2, EndIsReported
  <2>3. Only(reports, {"STOPPED", "DRAW", "ELIMINATED"})
    BY <1>1, <2>2, FieldValues
  <2>4. ~(With(reports, "STOPPED") # {} /\ With(reports, "DRAW") # {})
    BY EndIsReported
  <2>5. ASSUME OnlyControlled(reports), Only(reports, {"ELIMINATED"})
        PROVE  Min(Values(reports, "active")) = 0
    <3>1. \A c \in Clients : reports[c].outcome = "ELIMINATED"
      BY <1>1, <2>5, FieldValues
    <3>2. game.active \subseteq Clients
      BY <2>5, RoundIsOne DEF SharedInv, GameFits
    <3>3. game.active = {}
      BY <3>1, <3>2, EndIsReported
    <3> QED
      BY <3>3, LeastActive, FS_EmptySet
  <2>6. TerminalObserved(reports) \/ ~OnlyControlled(reports)
    BY <2>5 DEF TerminalObserved
  <2>7. OneEnd(reports)
    BY <2>1, <2>3, <2>4, <2>6 DEF OneEnd
  <2> QED
    BY <1>1, <1>2, <2>7 DEF Accepted
<1>6. game.winner \in Clients \/ game.end = "WIN" \/ game.end # "WIN"
  OBVIOUS
<1> QED
  BY <1>3, <1>4, <1>5, <1>6

\* The end is observed exactly if the round is over.
LEMMA EndIsObserved ==
    ASSUME SharedInv, ReportedTogether
    PROVE  TerminalObserved(reports) <=> ~game.running
<1>1. DOMAIN reports = Clients
  BY ReportsTogether
<1>2. CASE ~Only(reports, {"ELIMINATED"})
  <2>1. PICK c \in Clients : reports[c].outcome # "ELIMINATED"
    BY <1>1, <1>2, FieldValues
  <2>2. reports[c].outcome \in {"WON", "LOST", "DRAW", "STOPPED"}
    BY <2>1, EndIsReported
  <2>3. ~game.running
    BY <2>2, EndIsReported
  <2> QED
    BY <1>2, <2>3 DEF TerminalObserved
<1>3. CASE Only(reports, {"ELIMINATED"})
  <2>1. \A c \in Clients : reports[c].outcome = "ELIMINATED"
    BY <1>1, <1>3, FieldValues
  <2>2. ~game.running => game.active = {}
    BY <2>1, ReportsTogether
  <2>3. game.running => game.active # {}
    BY DEF SharedInv, GameFits
  <2>4. Cardinality(game.active) = 0 <=> game.active = {}
    BY PlayersAreFinite DEF SharedInv, GameFits
  <2> QED
    BY <1>3, <2>2, <2>3, <2>4, LeastActive DEF TerminalObserved
<1> QED
  BY <1>2, <1>3

\* The winner that the reports name is the server's.
LEMMA WinnerIsTold ==
    ASSUME SharedInv, ReportedTogether
    PROVE  Winner(reports) = game.winner
<1>1. CASE game.end = "WIN"
  <2>1. NamedWinners(reports) = {game.winner}
    BY <1>1, EndIsReported
  <2>2. (CHOOSE p \in {game.winner} : TRUE) = game.winner
    OBVIOUS
  <2>3. With(reports, "WON") \cup With(reports, "LOST") # {}
    BY <1>1, EndIsReported
  <2> QED
    BY <2>1, <2>2, <2>3 DEF Winner
<1>2. CASE game.end # "WIN"
  BY <1>2, EndIsReported DEF Winner
<1> QED
  BY <1>1, <1>2

\* Clients that have played the same round of the server agree about it, in whatever
\* order they went out of it, and what reconcile_round makes of their reports is the
\* truth: who won, whether it was stopped, whether anybody is still playing.
THEOREM SharedRoundsAreReconciled == ArtifactSpec => []SharedRoundIsReconciled
<1>1. SharedInv => SharedRoundIsReconciled
  <2> SUFFICES ASSUME SharedInv, ReportedTogether
               PROVE  /\ Accepted(reports)
                      /\ GlobalRound(reports).winner = game.winner
                      /\ GlobalRound(reports).controlled <=> game.winner \in Clients
                      /\ GlobalRound(reports).stopped <=> game.end = "STOPPED"
                      /\ GlobalRound(reports).observed <=> ~game.running
    BY DEF SharedRoundIsReconciled, ReportedTogether
  <2>1. ControlledPlayers(reports) = Clients
    BY ControlledAreClients
  <2>2. /\ GlobalRound(reports).winner = Winner(reports)
        /\ GlobalRound(reports).controlled = (Winner(reports) \in ControlledPlayers(reports))
        /\ GlobalRound(reports).stopped = (With(reports, "STOPPED") # {})
        /\ GlobalRound(reports).observed = TerminalObserved(reports)
    BY DEF GlobalRound
  <2> QED
    BY <2>1, <2>2, RoundIsAccepted, EndIsReported, EndIsObserved, WinnerIsTold
<1> QED
  BY <1>1, RoundsAreKept, PTL

-----------------------------------------------------------------------------
(* Any reports *)

\* What PlayerRound can say, but for the two fields compared.
AreReports(reps) ==
    /\ DOMAIN reps = Clients
    /\ \A c \in Clients :
        /\ reps[c].outcome \in {"WON", "LOST", "ELIMINATED", "DRAW", "STOPPED"}
        /\ reps[c].player # NoPlayer

LEMMA ValuesOfReports ==
    ASSUME NEW reps, DOMAIN reps = Clients
    PROVE  /\ \A S : Only(reps, S) <=> \A c \in Clients : reps[c].outcome \in S
           /\ \A o : With(reps, o) = {c \in Clients : reps[c].outcome = o}
           /\ \A o : IsFiniteSet(With(reps, o))
           /\ ControlledPlayers(reps) = {reps[c].player : c \in Clients}
           /\ NamedWinners(reps) =
                {reps[c].winner : c \in {d \in Clients : reps[d].outcome # "ELIMINATED"}}
<1>1. \A o : With(reps, o) = {c \in Clients : reps[c].outcome = o}
  BY DEF With
<1>2. \A o : With(reps, o) \subseteq Clients
  BY <1>1
<1>3. \A o : IsFiniteSet(With(reps, o))
  BY <1>2, FS_Subset, PlayersAssumption
<1> QED
  BY <1>1, <1>3 DEF Values, Only, ControlledPlayers, NamedWinners

\* The winners that the clients name are no more than the clients.
LEMMA WinnersAreFinite ==
    ASSUME NEW reps, AreReports(reps)
    PROVE  IsFiniteSet(NamedWinners(reps))
<1> DEFINE D == {d \in Clients : reps[d].outcome # "ELIMINATED"}
           names == [c \in D |-> reps[c].winner]
<1>1. IsFiniteSet(D)
  BY FS_Subset, PlayersAssumption
<1>2. NamedWinners(reps) = {reps[c].winner : c \in D}
  BY ValuesOfReports DEF AreReports
<1>3. names \in Surjection(D, NamedWinners(reps))
  BY <1>2 DEF Surjection
<1> QED
  BY <1>1, <1>3, FS_Surjection

\* reconcile_round takes the ends in an order, and so does GlobalRound.outcome: of
\* reports that are accepted, true ones or those of a pool round that two rounds of the
\* server are mixed in, no two of the ends hold at once, whoever has seen the end names
\* its winner, and a completion is the pool's exactly if one client alone has won.
THEOREM AcceptedRoundsHaveOneEnd ==
    ASSUME NEW reps, AreReports(reps), Accepted(reps),
           NEW g, g = GlobalRound(reps)
    PROVE  /\ g.controlled => g.completed
           /\ g.completed => ~g.stopped /\ g.observed
           /\ g.completed => NamedWinners(reps) = {g.winner}
           /\ ~g.completed => NamedWinners(reps) \subseteq {NoPlayer}
           /\ g.controlled <=> \E c \in Clients : /\ With(reps, "WON") = {c}
                                                  /\ g.winner = reps[c].player
           /\ g.stopped => With(reps, "DRAW") = {} /\ g.observed
<1>1. /\ DOMAIN reps = Clients /\ NoStrayWinner(reps) /\ OneEnd(reps)
      /\ \A c \in Clients : reps[c].outcome \in {"WON", "LOST", "ELIMINATED", "DRAW", "STOPPED"}
      /\ \A c \in Clients : reps[c].player # NoPlayer
  BY DEF Accepted, AreReports
<1>2. /\ \A S : Only(reps, S) <=> \A c \in Clients : reps[c].outcome \in S
      /\ \A o : With(reps, o) = {c \in Clients : reps[c].outcome = o}
      /\ \A o : IsFiniteSet(With(reps, o))
      /\ ControlledPlayers(reps) = {reps[c].player : c \in Clients}
      /\ NamedWinners(reps) =
            {reps[c].winner : c \in {d \in Clients : reps[d].outcome # "ELIMINATED"}}
  BY <1>1, ValuesOfReports
<1>3. /\ g.winner = Winner(reps) /\ g.completed = (Winner(reps) # NoPlayer)
      /\ g.controlled = (Winner(reps) \in ControlledPlayers(reps))
      /\ g.stopped = (With(reps, "STOPPED") # {}) /\ g.observed = TerminalObserved(reps)
  BY DEF GlobalRound
<1>4. NoPlayer \notin ControlledPlayers(reps)
  BY <1>1, <1>2
<1>5. \A x : (CHOOSE p \in {x} : TRUE) = x
  OBVIOUS
<1>6. ASSUME NEW c \in Clients, reps[c].outcome # "ELIMINATED" PROVE TerminalObserved(reps)
  BY <1>2, <1>6 DEF TerminalObserved
<1>7. CASE With(reps, "WON") # {}
  <2>0. ~Only(reps, {"STOPPED", "DRAW", "ELIMINATED"})
    BY <1>2, <1>7
  <2>1. WonRound(reps)
    BY <1>1, <1>7, <2>0 DEF OneEnd
  <2>2. PICK c : With(reps, "WON") = {c}
    BY <1>2, <2>1, FS_Singleton DEF WonRound
  <2>3. c \in Clients /\ reps[c].outcome = "WON"
    BY <1>2, <2>2
  <2>4. NamedWinners(reps) = {reps[c].player}
    BY <2>1, <2>2 DEF WonRound
  <2>5. Winner(reps) = reps[c].player
    BY <1>5, <2>2, <2>4 DEF Winner
  <2>6. \A d \in Clients : reps[d].outcome \in {"WON", "LOST", "ELIMINATED"}
    BY <1>2, <2>1 DEF WonRound
  <2>7. With(reps, "STOPPED") = {}
    BY <1>2, <2>6
  <2>8. TerminalObserved(reps)
    BY <1>6, <2>3
  <2>9. Winner(reps) # NoPlayer /\ Winner(reps) \in ControlledPlayers(reps)
    BY <1>1, <1>2, <2>3, <2>5
  <2>10. NamedWinners(reps) = {Winner(reps)}
    BY <2>4, <2>5
  <2> QED
    BY <1>3, <2>2, <2>3, <2>5, <2>7, <2>8, <2>9, <2>10
<1>8. CASE With(reps, "WON") = {} /\ With(reps, "LOST") # {}
  <2>0. ~Only(reps, {"STOPPED", "DRAW", "ELIMINATED"})
    BY <1>2, <1>8
  <2>1. LostRound(reps)
    BY <1>1, <1>8, <2>0 DEF OneEnd
  <2>2. PICK w : NamedWinners(reps) = {w}
    BY <2>1, WinnersAreFinite, FS_Singleton DEF LostRound
  <2>3. w \notin ControlledPlayers(reps) /\ w # NoPlayer
    BY <2>1, <2>2 DEF LostRound
  <2>4. Winner(reps) = w
    BY <1>5, <1>8, <2>2 DEF Winner
  <2>5. With(reps, "STOPPED") = {}
    BY <1>2, <2>1 DEF LostRound
  <2>6. PICK c \in Clients : reps[c].outcome = "LOST"
    BY <1>2, <1>8
  <2>7. TerminalObserved(reps)
    BY <1>6, <2>6
  <2> QED
    BY <1>3, <1>8, <2>2, <2>3, <2>4, <2>5, <2>7
<1>9. CASE With(reps, "WON") = {} /\ With(reps, "LOST") = {}
  <2>1. Winner(reps) = NoPlayer
    BY <1>9 DEF Winner
  <2>2. \A c \in Clients : reps[c].outcome \in {"STOPPED", "DRAW", "ELIMINATED"}
    <3>1. \A c \in Clients : reps[c].outcome # "WON" /\ reps[c].outcome # "LOST"
      BY <1>2, <1>9
    <3> QED
      BY <1>1, <3>1
  <2>3. ~(With(reps, "STOPPED") # {} /\ With(reps, "DRAW") # {})
    <3>1. Only(reps, {"STOPPED", "DRAW", "ELIMINATED"})
      BY <1>2, <2>2
    <3> QED
      BY <1>1, <1>9, <3>1 DEF OneEnd
  <2>4. \A c \in Clients : reps[c].winner = NoPlayer
    BY <1>1, <2>2 DEF NoStrayWinner
  <2>5. NamedWinners(reps) \subseteq {NoPlayer}
    BY <1>2, <2>4
  <2>6. ASSUME With(reps, "STOPPED") # {} PROVE TerminalObserved(reps)
    <3>1. PICK c \in Clients : reps[c].outcome = "STOPPED"
      BY <1>2, <2>6
    <3> QED
      BY <1>6, <3>1
  <2>7. \A c : With(reps, "WON") # {c}
    BY <1>9
  <2> QED
    BY <1>3, <1>4, <2>1, <2>3, <2>5, <2>6, <2>7
<1> QED
  BY <1>7, <1>8, <1>9

-----------------------------------------------------------------------------
(* The promotion *)

\* What PromotionIsEarned asks of the untrained policy's rounds and the trained one's.
Earned(untrained, trained) ==
    /\ CreditedIn(trained) \cup DrawnIn(trained) # {}
    /\ CreditedIn(untrained) # {} => CreditedIn(trained) # {}

AreRounds(s) == \E S : s \in Seq(S)

\* Until the second report is there the untrained policy is the best, unless none is
\* evaluated at all; what the first report says is then still to be compared.
PromotionFits ==
    /\ AreRounds(played)
    /\ \/ evaluated = <<>>
       \/ /\ best.checkpoint = Untrained
          /\ \E untrained : AreRounds(untrained) /\ evaluated = <<untrained>>
       \/ \E untrained, trained :
            /\ evaluated = <<untrained, trained>>
            /\ best.checkpoint = Latest => Earned(untrained, trained)

\* The credited rounds of a report can be counted.
LEMMA RoundsAreCounted ==
    ASSUME NEW s, AreRounds(s)
    PROVE  /\ CompletionRate(s) \in Nat
           /\ CompletionRate(s) = 0 <=> CreditedIn(s) = {}
<1>1. PICK S : s \in Seq(S)
  BY DEF AreRounds
<1>2. DOMAIN s = 1..Len(s) /\ Len(s) \in Nat
  BY <1>1
<1>3. IsFiniteSet(DOMAIN s)
  BY <1>2, FS_Interval
<1>4. CreditedIn(s) \subseteq DOMAIN s
  BY DEF CreditedIn
<1>5. IsFiniteSet(CreditedIn(s))
  BY <1>3, <1>4, FS_Subset
<1> QED
  BY <1>5, FS_CardinalityType, FS_EmptySet DEF CompletionRate

\* A report that is better than another has a round that its own clients won, or,
\* if neither has one, a round whose end they saw; promotion_key never prefers a
\* policy for the mean of nothing, which is infinite.
LEMMA BetterIsEarned ==
    ASSUME NEW a, NEW b, AreRounds(a), AreRounds(b), Better(b, a)
    PROVE  Earned(a, b)
<1>1. /\ CompletionRate(a) \in Nat /\ CompletionRate(b) \in Nat
      /\ CompletionRate(a) = 0 <=> CreditedIn(a) = {}
      /\ CompletionRate(b) = 0 <=> CreditedIn(b) = {}
  BY RoundsAreCounted
<1>2. CASE CompletionRate(b) > CompletionRate(a)
  BY <1>1, <1>2 DEF Earned
<1>3. CASE CompletionRate(b) = CompletionRate(a) /\ Smaller(MeanCompletionTime(b), MeanCompletionTime(a))
  <2>1. CreditedIn(b) # {}
    BY <1>3 DEF Smaller, MeanCompletionTime, Mean
  <2> QED
    BY <2>1 DEF Earned
<1>4. CASE CompletionRate(b) = CompletionRate(a) /\ Smaller(MeanDrawDistance(b), MeanDrawDistance(a))
  <2>1. DrawnIn(b) # {}
    BY <1>4 DEF Smaller, MeanDrawDistance, Mean
  <2>2. CreditedIn(a) # {} => CreditedIn(b) # {}
    BY <1>1, <1>4
  <2> QED
    BY <2>1, <2>2 DEF Earned
<1> QED
  BY <1>2, <1>3, <1>4 DEF Better

\* The second report comes after the first.
LEMMA SecondReport ==
    ASSUME NEW a, NEW b
    PROVE  Append(<<a>>, b) = <<a, b>>
<1> DEFINE S == {a, b}
<1>1. <<a>> \in Seq(S) /\ <<a, b>> \in Seq(S) /\ b \in S
  OBVIOUS
<1>2. Append(<<a>>, b) \in Seq(S) /\ Len(Append(<<a>>, b)) = 2
  BY <1>1, AppendProperties
<1>3. Append(<<a>>, b)[1] = a /\ Append(<<a>>, b)[2] = b
  BY <1>1, AppendProperties
<1>4. \A i \in 1..2 : Append(<<a>>, b)[i] = <<a, b>>[i]
  BY <1>3
<1> QED
  BY <1>1, <1>2, <1>4, SeqEqual

\* A policy is compared when its rounds are played, and the trained one only after
\* the untrained one.
LEMMA ComparisonIsFair ==
    ASSUME ArtifactInv, PromotionFits, PolicyEvaluated
    PROVE  PromotionFits'
<1>1. /\ played' = <<>>
      /\ evaluated' = Append(evaluated, played)
      /\ best' = IF evaluated = <<>> \/ Better(played, evaluated[1])
                 THEN [checkpoint |-> Evaluated, version |-> loaded] ELSE best
      /\ loaded # Absent
  BY DEF PolicyEvaluated
<1>2. Evaluates
  BY <1>1 DEF ArtifactInv, Progress, Creates, Trains, HasEvaluated, Promotes, Summarises, Finished,
     Over, Judged
<1>3. AreRounds(played')
  BY <1>1 DEF AreRounds
<1>4. AreRounds(played)
  BY DEF PromotionFits
<1>5. best.checkpoint = Untrained
  BY <1>2 DEF Evaluates, UntrainedIsBest
<1>6. CASE evaluated = <<>>
  <2>1. evaluated' = <<played>>
    BY <1>1, <1>6
  <2>2. best'.checkpoint = Untrained
    BY <1>1, <1>6 DEF Evaluated
  <2> QED
    BY <1>3, <1>4, <2>1, <2>2 DEF PromotionFits
<1>7. CASE evaluated # <<>>
  <2>1. PICK report : evaluated = <<report>>
    BY <1>2, <1>7 DEF Evaluates
  <2>2. AreRounds(report)
    BY <2>1 DEF PromotionFits
  <2>3. evaluated' = <<report, played>>
    BY <1>1, <2>1, SecondReport
  <2>4. best'.checkpoint = Latest => Better(played, report)
    BY <1>1, <1>5, <1>7, <2>1, NamesDiffer
  <2>5. best'.checkpoint = Latest => Earned(report, played)
    BY <1>4, <2>2, <2>4, BetterIsEarned
  <2> QED
    BY <1>3, <2>3, <2>5 DEF PromotionFits
<1> QED
  BY <1>6, <1>7

\* Every step keeps what there is to say of the reports.
LEMMA PromotionIsKept ==
    ASSUME ArtifactInv, PromotionFits, [ArtifactNext]_artifactVars
    PROVE  PromotionFits'
<1>1. CASE UNCHANGED <<played, evaluated, best>>
  BY <1>1 DEF PromotionFits, AreRounds
<1>2. CASE Ends
  <2>1. played' = <<>> /\ UNCHANGED <<evaluated, best>>
    BY <1>2 DEF Ends
  <2>2. AreRounds(played')
    BY <2>1 DEF AreRounds
  <2> QED
    BY <2>1, <2>2 DEF PromotionFits
<1>3. CASE EndTraining
  <2>1. evaluated = <<>>
    BY <1>3 DEF EndTraining, Idle, ArtifactInv, Progress, Creates, Trains, Evaluates, HasEvaluated,
       Promotes, Summarises, Finished, Over
  <2> QED
    BY <1>3, <2>1 DEF EndTraining, PromotionFits, AreRounds
<1>4. CASE EndEvaluation
  <2>1. best'.checkpoint = best.checkpoint /\ UNCHANGED <<played, evaluated>>
    BY <1>4 DEF EndEvaluation, Promote
  <2> QED
    BY <2>1 DEF PromotionFits, AreRounds
<1>5. CASE RoundReported
  <2>1. CASE Ends
    BY <1>2, <2>1
  <2>2. CASE played' = Append(played, GlobalRound(reports)) /\ UNCHANGED <<evaluated, best>>
    <3>1. PICK S : played \in Seq(S)
      BY DEF PromotionFits, AreRounds
    <3> DEFINE g == GlobalRound(reports)
    <3>2. played \in Seq(S \cup {g}) /\ g \in S \cup {g}
      BY <3>1, SeqMonotonic
    <3> HIDE DEF g
    <3>3. Append(played, g) \in Seq(S \cup {g})
      BY <3>2, AppendProperties
    <3>4. AreRounds(played')
      BY <2>2, <3>3 DEF AreRounds, g
    <3> QED
      BY <2>2, <3>4 DEF PromotionFits
  <2> QED
    BY <1>5, <2>1, <2>2 DEF RoundReported
<1>6. CASE PolicyEvaluated
  BY <1>6, ComparisonIsFair
<1>7. CASE LoadCheckpoint
  BY <1>1, <1>2, <1>7 DEF LoadCheckpoint
<1>8. CASE BeginWrite \/ EndWrite
  BY <1>1, <1>8, WritesKeep
<1>9. CASE StartTraining \/ (\E optimized \in BOOLEAN : Boundary(optimized)) \/ PlayRound
        \/ Summarise \/ Finish \/ UNCHANGED artifactVars
  BY <1>1, <1>9 DEF StartTraining, Boundary, PlayRound, Summarise, Finish, artifactVars, runVars
<1>10. CASE Fails
  BY <1>2, <1>10 DEF Fails
<1> QED
  BY <1>3, <1>4, <1>5, <1>6, <1>7, <1>8, <1>9, <1>10 DEF ArtifactNext

\* best.zip and the promoted policy are the trained one's, in a run that evaluates,
\* only if its report has a round that its own clients have won, or, when neither
\* report has, one that they saw end: promotion_key ranks reports by what their own
\* clients did, so wins of others, stopped rounds and means of nothing promote nothing.
THEOREM PromotionsAreEarned == ArtifactSpec => []PromotionIsEarned
<1>1. ArtifactInit => PromotionFits
  <2> SUFFICES ASSUME ArtifactInit PROVE PromotionFits
    OBVIOUS
  <2>1. played = <<>> /\ evaluated = <<>>
    BY DEF ArtifactInit
  <2>2. AreRounds(played)
    BY <2>1 DEF AreRounds
  <2> QED
    BY <2>1, <2>2 DEF PromotionFits
<1>2. ArtifactInv /\ PromotionFits /\ [ArtifactNext]_artifactVars => PromotionFits'
  BY PromotionIsKept
<1>3. PromotionFits => PromotionIsEarned
  BY DEF PromotionFits, PromotionIsEarned, Earned
<1> QED
  BY <1>1, <1>2, <1>3, ArtifactInvariant, PTL DEF ArtifactSpec

=============================================================================
