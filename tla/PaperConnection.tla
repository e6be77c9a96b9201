--------------------------- MODULE PaperConnection ---------------------------
(***************************************************************************)
(* How the client gets on Paper and back: the connection attempts of       *)
(* YRushClient.startTick with their timeout, the back-off between them     *)
(* (ReconnectBackoff.java), and what joining and losing Paper do to them.  *)
(* FabricClient, which leaves time out, has a join at any moment in their  *)
(* place.                                                                  *)
(*                                                                         *)
(* Only the differences between the client's ticks are kept.  An attempt   *)
(* that is refused is reported to nobody, so the client knows of one only  *)
(* what the ticks tell it; an attempt that it has given up may still join. *)
(***************************************************************************)
EXTENDS Integers

CONSTANTS
    InitialTicks, MaximumTicks,     \* of the back-off
    AttemptTimeoutTicks,            \* CONNECT_ATTEMPT_TIMEOUT_TICKS
    LongBits,                       \* the width of a long
    MaxAttempts                     \* bound: failures counted, past which no delay changes

\* The constructor of ReconnectBackoff refuses other bounds.
ASSUME BackoffAssumption ==
    /\ LongBits \in Nat /\ LongBits > 2
    /\ InitialTicks \in Nat \ {0} /\ MaximumTicks \in Nat
    /\ InitialTicks <= MaximumTicks /\ MaximumTicks < 2^(LongBits - 1)
    /\ AttemptTimeoutTicks \in Nat \ {0}
    /\ MaxAttempts \in Nat /\ MaxAttempts > LongBits - 2

VARIABLES
    online,             \* Paper: "down", "up", or "lost" (gone, handler still to run)
    connectRequested,   \* minecraftConnectRequested
    requestAge,         \* clientTick - connectRequestTick, at most TooOld
    ticksLeft,          \* nextConnectTick - clientTick, at least 0
    reconnectAttempt,
    connecting,         \* an attempt that Paper may still answer
    idle,               \* history: ticks without a requested attempt, since it failed
    lastPause           \* history: those before the last attempt, 0 if it joined

timers == <<connectRequested, requestAge, ticksLeft, reconnectAttempt, idle, lastPause>>
paperConnectionVars == <<timers, online, connecting>>

Least(a, b) == IF a < b THEN a ELSE b
TooOld == AttemptTimeoutTicks + 1

-----------------------------------------------------------------------------
(* ReconnectBackoff *)

\* A sum or product as a long holds it.
Long(n) ==
    LET half == 2^(LongBits - 1) IN ((n + half) % (2 * half)) - half

\* 1L << attempt
ShiftedOne(attempt) == Long(2^(attempt % LongBits))

\* Mutant: the product is formed without asking whether it is one.
DelayTicksUnchecked(attempt) ==
    IF attempt >= LongBits - 2 THEN MaximumTicks
    ELSE Least(MaximumTicks, Long(InitialTicks * ShiftedOne(attempt)))

DelayTicks(attempt) ==
    IF attempt >= LongBits - 2 THEN MaximumTicks
    ELSE IF InitialTicks > MaximumTicks \div ShiftedOne(attempt) THEN MaximumTicks
    ELSE Least(MaximumTicks, Long(InitialTicks * ShiftedOne(attempt)))

ScheduleReconnect ==
    /\ ticksLeft' = DelayTicks(reconnectAttempt)
    /\ reconnectAttempt' = Least(reconnectAttempt + 1, MaxAttempts)
    /\ idle' = 0

-----------------------------------------------------------------------------
(* startTick *)

PaperConnectionInit ==
    /\ online = "down"
    /\ connectRequested = FALSE
    /\ requestAge = 0 /\ ticksLeft = 0 /\ reconnectAttempt = 0
    /\ connecting = FALSE
    /\ idle = 0 /\ lastPause = 0

Offline == online # "up"

\* Mutant: only an attempt that is under way times out.
AttemptTimesOutUnderWay ==
    connectRequested /\ Offline /\ connecting /\ requestAge + 1 >= AttemptTimeoutTicks

AttemptTimesOut == connectRequested /\ Offline /\ requestAge + 1 >= AttemptTimeoutTicks

RequestAges == requestAge' = Least(requestAge + 1, TooOld)

\* The delay is positive, so the tick that gives an attempt up does not begin the next.
TickTimesOut ==
    /\ AttemptTimesOut
    /\ connectRequested' = FALSE
    /\ ScheduleReconnect
    /\ RequestAges
    /\ UNCHANGED <<online, connecting, lastPause>>

\* connectMinecraft
TickConnects ==
    /\ ~connectRequested
    /\ Offline
    /\ ticksLeft <= 1
    /\ connectRequested' = TRUE
    /\ requestAge' = 0
    /\ ticksLeft' = 0
    /\ connecting' = TRUE
    /\ lastPause' = idle + 1
    /\ idle' = 0
    /\ UNCHANGED <<online, reconnectAttempt>>

TickPasses ==
    /\ ~AttemptTimesOut
    /\ ~connectRequested /\ Offline => ticksLeft > 1
    /\ RequestAges
    /\ ticksLeft' = IF ticksLeft = 0 THEN 0 ELSE ticksLeft - 1
    /\ idle' = IF connectRequested THEN 0 ELSE idle + 1
    /\ UNCHANGED <<online, connectRequested, reconnectAttempt, connecting, lastPause>>

StartTick == TickTimesOut \/ TickConnects \/ TickPasses

-----------------------------------------------------------------------------
(* Paper *)

JoinedPaper ==
    /\ online = "down" /\ connecting
    /\ online' = "up" /\ connecting' = FALSE
    /\ connectRequested' = TRUE
    /\ reconnectAttempt' = 0
    /\ idle' = 0 /\ lastPause' = 0
    /\ UNCHANGED <<requestAge, ticksLeft>>

\* Refused, or lost before it is answered.
AttemptFails ==
    /\ connecting
    /\ connecting' = FALSE
    /\ UNCHANGED <<timers, online>>

PaperLost ==
    /\ online = "up"
    /\ online' = "lost"
    /\ UNCHANGED <<timers, connecting>>

\* Mutant: Paper's end leaves the attempts to their timeout.
RequestKept == UNCHANGED connectRequested

RequestDropped == connectRequested' = FALSE

DisconnectedPaper ==
    /\ online = "lost"
    /\ online' = "down"
    /\ RequestDropped
    /\ ScheduleReconnect
    /\ UNCHANGED <<requestAge, connecting, lastPause>>

PaperConnectionNext ==
    StartTick \/ JoinedPaper \/ AttemptFails \/ PaperLost \/ DisconnectedPaper

\* The client ticks and handles a loss; of the attempts that Paper may answer again
\* and again, it answers one.
PaperConnectionFairness ==
    WF_paperConnectionVars(StartTick) /\ WF_paperConnectionVars(DisconnectedPaper)
        /\ SF_paperConnectionVars(JoinedPaper)

PaperConnectionSpec ==
    /\ PaperConnectionInit
    /\ [][PaperConnectionNext]_paperConnectionVars
    /\ PaperConnectionFairness

-----------------------------------------------------------------------------
(* Properties *)

\* A client that is off Paper is never silent for longer than an attempt may take and
\* the longest delay: it has an attempt that has not timed out, or it counts down to
\* the next (startTick, scheduleReconnect).
SilenceIsBounded ==
    online = "down" =>
        IF connectRequested THEN requestAge < AttemptTimeoutTicks ELSE idle < MaximumTicks

\* Paper is not flooded: until the client has joined, each attempt follows a pause that
\* is not shorter than the one before it, nor, after a failure, than the first delay,
\* whatever losses, late ticks and given-up attempts come in between.
PausesGrow ==
    [][online' = "up" \/ /\ lastPause' >= lastPause
                         /\ reconnectAttempt > 0 => lastPause' >= InitialTicks]_lastPause

\* An outage ends: the client is on Paper again and again, though attempts are refused
\* without a word and Paper may be lost again at any time.
ReturnsToPaper == []<>(online = "up")

=============================================================================
