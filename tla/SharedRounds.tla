---------------------------- MODULE SharedRounds ----------------------------
(***************************************************************************)
(* What the clients of a pool see of the YRush server while they play one  *)
(* global round.  Every connected player takes part in every round of the  *)
(* server; a client plays for the pool in the first that starts after its  *)
(* arm, and reports it as RoundSequencer.java has seen it.  Clients are    *)
(* armed together but the server does not wait for them: one that is late  *)
(* plays another round of the server for the same global round, and what   *)
(* the pool then reconciles are two rounds of the server.                  *)
(*                                                                         *)
(* The server is outside the repository.  An elimination is told before    *)
(* the end of its round; the number of a round's participants is fixed.    *)
(***************************************************************************)
EXTENDS Reconciliation

CONSTANTS
    Outsiders,          \* players that no endpoint controls
    Directions,
    Distances,          \* the best distances to the target
    MaxClock,           \* bound: the time a round of the server may take
    MaxServerRounds     \* bound: rounds of the server within a global round

\* pool.py refuses an empty pool and two endpoints with one player; None is nobody's
\* name.
ASSUME PlayersAssumption ==
    /\ Clients # {} /\ IsFiniteSet(Clients) /\ IsFiniteSet(Outsiders)
    /\ Clients \cap Outsiders = {}
    /\ NoPlayer \notin Clients \cup Outsiders

VARIABLES
    game,           \* the server's round
    started,        \* rounds the server has started within the global round
    part,           \* each client: "due", "armed", "playing" or "ended"
    reports,        \* of the clients that have ended
    from            \* history: the round of the server each report is of

sharedVars == <<game, started, part, reports, from>>

NoGame == [running |-> FALSE, direction |-> "NONE", members |-> {}, active |-> {}, clock |-> 0,
           winner |-> NoPlayer, end |-> "NONE"]

SharedInit ==
    /\ game = NoGame
    /\ started = 0
    /\ part = [c \in Clients |-> "due"]
    /\ reports = <<>>
    /\ from = <<>>

AllReported == DOMAIN reports = Clients

\* ClientPool._arm_all: the arm of a client arrives, before or in the middle of a
\* round of the server.
ArmArrives(c) ==
    /\ part[c] = "due"
    /\ part' = [part EXCEPT ![c] = "armed"]
    /\ UNCHANGED <<game, started, reports, from>>

ServerStarts(direction, others) ==
    /\ ~game.running
    /\ started < MaxServerRounds
    /\ started' = started + 1
    /\ game' = [NoGame EXCEPT !.running = TRUE, !.direction = direction,
                              !.members = Clients \cup others, !.active = Clients \cup others]
    /\ part' = [c \in Clients |-> IF part[c] = "armed" THEN "playing" ELSE part[c]]
    /\ UNCHANGED <<reports, from>>

ActiveAfter(p) == game.active \ {p}

\* The clients in `who` report their end: finishEpisode, and _info of env.py.
ReportEnds(who, outcome, winner, active) ==
    /\ part' = [c \in Clients |-> IF c \in who THEN "ended" ELSE part[c]]
    /\ from' = [c \in DOMAIN from \cup who |-> IF c \in who THEN started ELSE from[c]]
    /\ \E d \in [who -> Distances] :
        reports' = [c \in DOMAIN reports \cup who |->
            IF c \notin who THEN reports[c]
            ELSE Report(c, outcome[c], winner, Cardinality(game.members),
                        Cardinality(active), game.direction, game.clock, d[c])]

Playing == {c \in Clients : part[c] = "playing"}

\* An elimination; an outsider that leaves is one as well.  A round is over when
\* nobody is left.
ServerEliminates(p) ==
    /\ p \in game.active
    /\ game.running
    /\ LET left == ActiveAfter(p) IN
        game' = [game EXCEPT !.active = left, !.running = left # {},
                             !.end = IF left = {} THEN "DRAW" ELSE "NONE"]
    /\ ReportEnds(Playing \cap {p}, [c \in Clients |-> "ELIMINATED"], NoPlayer, ActiveAfter(p))
    /\ UNCHANGED started

ServerAwards(p) ==
    /\ p \in game.active
    /\ game.running
    /\ game' = [game EXCEPT !.running = FALSE, !.winner = p, !.end = "WIN"]
    /\ ReportEnds(Playing, [c \in Clients |-> IF c = p THEN "WON" ELSE "LOST"], p, game.active)
    /\ UNCHANGED started

\* The time is up, or an operator stops the round.
ServerEnds(end) ==
    /\ game.running
    /\ game' = [game EXCEPT !.running = FALSE, !.end = end]
    /\ ReportEnds(Playing, [c \in Clients |-> end], NoPlayer, game.active)
    /\ UNCHANGED started

ClockTicks ==
    /\ game.running
    /\ game.clock < MaxClock
    /\ game' = [game EXCEPT !.clock = @ + 1]
    /\ UNCHANGED <<started, part, reports, from>>

\* The server's round does not move between the last report and what is made of
\* it: the reports would stay the same.
RoundMoves ==
    /\ ~AllReported
    /\ \/ \E c \in Clients : ArmArrives(c)
       \/ \E direction \in Directions, others \in SUBSET Outsiders : ServerStarts(direction, others)
       \/ \E p \in Clients \cup Outsiders : ServerEliminates(p) \/ ServerAwards(p)
       \/ \E end \in {"DRAW", "STOPPED"} : ServerEnds(end)
       \/ ClockTicks

NoReports ==
    /\ started' = 0
    /\ part' = [c \in Clients |-> "due"]
    /\ reports' = <<>>
    /\ from' = <<>>

\* The next global round: the server may be in the middle of one of its own.
NextGlobalRound == NoReports /\ game' = IF game.running THEN game ELSE NoGame

-----------------------------------------------------------------------------
(* Properties *)

\* Clients that have played the same round of the server agree about it, whatever
\* order they were eliminated in, and what is made of their reports is the truth:
\* who won, whether it was stopped, and whether anybody is still playing.
SharedRoundIsReconciled ==
    AllReported /\ (\A c, d \in Clients : from[c] = from[d]) =>
        /\ Accepted(reports)
        /\ LET g == GlobalRound(reports) IN
            /\ g.winner = game.winner
            /\ g.controlled <=> game.winner \in Clients
            /\ g.stopped <=> game.end = "STOPPED"
            /\ g.observed <=> ~game.running

=============================================================================
