--------------------------- MODULE Reconciliation ---------------------------
(***************************************************************************)
(* evaluation.py: what the pool makes of the results that its clients      *)
(* report of one global round, and how it ranks two policies by the rounds *)
(* they have played.  Times and distances are integers; a mean is the pair *)
(* of its sum and its count, so that comparing two of them is exact.       *)
(***************************************************************************)
EXTENDS Integers, Sequences, FiniteSets, FiniteSetsExt, Functions

CONSTANTS
    Clients,        \* the fixed pool: the endpoints, and the players they control
    NoPlayer        \* None

\* RoundResult and PlayerRound, what is compared of them.
Report(player, outcome, winner, participants, active, direction, time, distance) ==
    [player |-> player, outcome |-> outcome, winner |-> winner, participants |-> participants,
     active |-> active, direction |-> direction, time |-> time, distance |-> distance]

Values(reports, field) == {reports[c][field] : c \in DOMAIN reports}

With(reports, outcome) == {c \in DOMAIN reports : reports[c].outcome = outcome}

Only(reports, outcomes) == Values(reports, "outcome") \subseteq outcomes

-----------------------------------------------------------------------------
(* reconcile_round: each check by the name of what it refuses *)

SameRound(reports) ==
    /\ Cardinality(Values(reports, "participants")) = 1
    /\ Max(Values(reports, "participants")) >= Cardinality(Clients)
    /\ Cardinality(Values(reports, "direction")) = 1

NoStrayWinner(reports) ==
    \A c \in DOMAIN reports :
        reports[c].outcome \in {"ELIMINATED", "DRAW", "STOPPED"} => reports[c].winner = NoPlayer

ControlledPlayers(reports) == Values(reports, "player")
OnlyControlled(reports) == Max(Values(reports, "participants")) = Cardinality(Clients)

\* The winner that every client names which has seen the end.
NamedWinners(reports) ==
    {reports[c].winner : c \in {d \in DOMAIN reports : reports[d].outcome # "ELIMINATED"}}

WonRound(reports) ==
    /\ Cardinality(With(reports, "WON")) = 1
    /\ Only(reports, {"WON", "LOST", "ELIMINATED"})
    /\ NamedWinners(reports) = {reports[c].player : c \in With(reports, "WON")}

LostRound(reports) ==
    /\ Only(reports, {"LOST", "ELIMINATED"})
    /\ Cardinality(NamedWinners(reports)) = 1
    /\ NamedWinners(reports) \cap (ControlledPlayers(reports) \cup {NoPlayer}) = {}
    /\ ~OnlyControlled(reports)

\* Mutant: every client must have seen nobody left.
TerminalObservedByAll(reports) ==
    Only(reports, {"ELIMINATED"}) => Values(reports, "active") = {0}

\* An end is observed by whoever outlives it, and by the last player eliminated.
TerminalObserved(reports) ==
    Only(reports, {"ELIMINATED"}) => Min(Values(reports, "active")) = 0

\* The first kind of end that any client reports is the one all must agree with.
OneEnd(reports) ==
    CASE With(reports, "WON") # {} -> WonRound(reports)
      [] With(reports, "WON") = {} /\ With(reports, "LOST") # {} -> LostRound(reports)
      [] Only(reports, {"STOPPED", "DRAW", "ELIMINATED"}) ->
            /\ ~(With(reports, "STOPPED") # {} /\ With(reports, "DRAW") # {})
            /\ TerminalObserved(reports) \/ ~OnlyControlled(reports)

Accepted(reports) ==
    /\ DOMAIN reports = Clients
    /\ SameRound(reports)
    /\ NoStrayWinner(reports)
    /\ OneEnd(reports)

\* GlobalRound
Winner(reports) ==
    IF With(reports, "WON") \cup With(reports, "LOST") = {} THEN NoPlayer
    ELSE CHOOSE p \in NamedWinners(reports) : TRUE

\* The winner's own time, or the least of those who lost to another player.
CompletionTime(reports) ==
    LET who == IF With(reports, "WON") # {} THEN With(reports, "WON") ELSE With(reports, "LOST")
    IN IF who = {} THEN 0 ELSE Min({reports[c].time : c \in who})

GlobalRound(reports) ==
    [winner |-> Winner(reports),
     completed |-> Winner(reports) # NoPlayer,
     controlled |-> Winner(reports) \in ControlledPlayers(reports),
     stopped |-> With(reports, "STOPPED") # {},
     observed |-> TerminalObserved(reports),
     time |-> CompletionTime(reports),
     distance |-> Min(Values(reports, "distance"))]

-----------------------------------------------------------------------------
(* EvaluationReport, of a sequence of global rounds *)

Credited(g) == g.controlled
Drawn(g) == ~g.completed /\ ~g.stopped /\ g.observed

CreditedIn(rounds) == {i \in DOMAIN rounds : Credited(rounds[i])}
DrawnIn(rounds) == {i \in DOMAIN rounds : Drawn(rounds[i])}

\* float("inf"), for a mean of nothing.
Infinity == <<>>

\* The mean of a field over the chosen rounds.
Mean(rounds, chosen, field) ==
    IF chosen = {} THEN Infinity
    ELSE <<SumFunction([i \in chosen |-> rounds[i][field]]), Cardinality(chosen)>>

Smaller(m, n) == m # Infinity /\ (n = Infinity \/ m[1] * n[2] < n[1] * m[2])
Equal(m, n) == ~Smaller(m, n) /\ ~Smaller(n, m)

CompletionRate(rounds) == Cardinality(CreditedIn(rounds))
MeanCompletionTime(rounds) == Mean(rounds, CreditedIn(rounds), "time")
MeanDrawDistance(rounds) == Mean(rounds, DrawnIn(rounds), "distance")

\* Mutant: a tie is as good as a win.
BetterOrEqual(a, b) ==
    /\ CompletionRate(a) >= CompletionRate(b)
    /\ ~Smaller(MeanCompletionTime(b), MeanCompletionTime(a))
    /\ ~Smaller(MeanDrawDistance(b), MeanDrawDistance(a))

\* promotion_key(a) > promotion_key(b), for as many rounds of either.
Better(a, b) ==
    \/ CompletionRate(a) > CompletionRate(b)
    \/ /\ CompletionRate(a) = CompletionRate(b)
       /\ \/ Smaller(MeanCompletionTime(a), MeanCompletionTime(b))
          \/ /\ Equal(MeanCompletionTime(a), MeanCompletionTime(b))
             /\ Smaller(MeanDrawDistance(a), MeanDrawDistance(b))

=============================================================================
