------------------------ MODULE PaperConnectionProofs ------------------------
(***************************************************************************)
(* The connection attempts for any bounds of the back-off, any timeout and *)
(* any width of a long.  First what has to be known of the delays: nothing *)
(* overflows that is used, they stay within their bounds, and they never   *)
(* shrink.  That a power of two grows with its exponent is taken from the  *)
(* sets of subsets that it counts.                                         *)
(***************************************************************************)
EXTENDS PaperConnection, FiniteSetTheorems, TLAPS

\* 2^n counts the subsets of n elements, so it is at least 1 and grows with n.
LEMMA PowersGrow ==
    ASSUME NEW n \in Nat
    PROVE  /\ 2^n \in Nat \ {0}
           /\ \A m \in 0..n : 2^m \in Nat /\ 2^m <= 2^n /\ (m < n => 2^m < 2^n)
<1> DEFINE Counted(k) == SUBSET (1..k)
<1>1. ASSUME NEW k \in Nat
      PROVE  IsFiniteSet(Counted(k)) /\ Cardinality(Counted(k)) = 2^k
  <2>1. IsFiniteSet(1..k) /\ Cardinality(1..k) = k
    BY FS_Interval
  <2> QED
    BY <2>1, FS_SUBSET
<1>2. ASSUME NEW k \in Nat PROVE 2^k \in Nat \ {0}
  <2>1. Counted(k) # {}
    OBVIOUS
  <2> HIDE DEF Counted
  <2>2. Cardinality(Counted(k)) \in Nat /\ Cardinality(Counted(k)) # 0
    BY <1>1, <2>1, FS_CardinalityType, FS_EmptySet
  <2> QED
    BY <1>1, <2>2
<1>3. ASSUME NEW m \in 0..n
      PROVE  2^m <= 2^n /\ (m < n => 2^m < 2^n)
  <2>1. Counted(m) \subseteq Counted(n)
    OBVIOUS
  <2>2. m < n => Counted(m) # Counted(n)
    <3>1. m < n => {n} \in Counted(n) /\ {n} \notin Counted(m)
      OBVIOUS
    <3> HIDE DEF Counted
    <3> QED
      BY <3>1
  <2> HIDE DEF Counted
  <2>3. m \in Nat
    OBVIOUS
  <2>4. /\ Cardinality(Counted(m)) <= Cardinality(Counted(n))
        /\ Cardinality(Counted(m)) = Cardinality(Counted(n)) => Counted(m) = Counted(n)
    BY <1>1, <2>1, FS_Subset
  <2> QED
    BY <1>1, <1>2, <2>2, <2>3, <2>4
<1> QED
  BY <1>2, <1>3

\* A value below its divisor is its own remainder.
LEMMA RemainderOfLess ==
    ASSUME NEW d \in Nat \ {0}, NEW n \in 0..d - 1
    PROVE  n % d = n
OBVIOUS

\* A quotient bounds what can be multiplied without exceeding the dividend.
LEMMA QuotientBounds ==
    ASSUME NEW a \in Nat, NEW m \in Nat, NEW s \in Nat \ {0}
    PROVE  a <= m \div s <=> a * s <= m
<1> DEFINE q == m \div s
           r == m % s
<1>1. q \in Nat /\ r \in 0..s - 1 /\ m = s * q + r
  OBVIOUS
<1> HIDE DEF q, r
<1>2. a <= q => a * s <= q * s
  BY <1>1
<1>3. a > q => a * s >= (q + 1) * s
  BY <1>1
<1>4. (q + 1) * s = s * q + s
  BY <1>1
<1>5. q * s = s * q
  BY <1>1
<1>6. a * s \in Int /\ s * q \in Int
  BY <1>1
<1>7. a <= q <=> a * s <= m
  BY <1>1, <1>2, <1>3, <1>4, <1>5, <1>6
<1> QED
  BY <1>7 DEF q

\* Within a long, a value is held as it is.
LEMMA LongHolds ==
    ASSUME NEW n \in 0..2^(LongBits - 1) - 1
    PROVE  Long(n) = n
<1> DEFINE half == 2^(LongBits - 1)
<1>1. LongBits - 1 \in Nat
  BY BackoffAssumption
<1>2. half \in Nat \ {0}
  BY <1>1, PowersGrow
<1>3. n \in 0..half - 1
  OBVIOUS
<1>4. Long(n) = ((n + half) % (2 * half)) - half
  BY DEF Long
<1> HIDE DEF half
<1>5. 2 * half \in Nat \ {0} /\ n + half \in 0..2 * half - 1
  BY <1>2, <1>3
<1>6. (n + half) % (2 * half) = n + half
  BY <1>5, RemainderOfLess
<1> QED
  BY <1>2, <1>3, <1>4, <1>6

\* delayTicks doubles the first delay until the last would be exceeded, and no shift
\* or product that it uses overflows.
LEMMA DelaysDouble ==
    ASSUME NEW attempt \in Nat
    PROVE  /\ 2^attempt \in Nat \ {0}
           /\ DelayTicks(attempt) =
                IF attempt >= LongBits - 2 \/ InitialTicks * 2^attempt > MaximumTicks
                THEN MaximumTicks ELSE InitialTicks * 2^attempt
<1> DEFINE power == 2^attempt
<1>1. power \in Nat \ {0}
  BY PowersGrow
<1>2. CASE attempt >= LongBits - 2
  BY <1>1, <1>2 DEF DelayTicks
<1>3. CASE attempt < LongBits - 2
  <2>1. LongBits - 1 \in Nat /\ attempt \in 0..LongBits - 1 /\ attempt < LongBits - 1
    BY <1>3, BackoffAssumption
  <2>2. power < 2^(LongBits - 1) /\ 2^(LongBits - 1) \in Nat
    BY <2>1, PowersGrow
  <2>3. attempt % LongBits = attempt
    BY <2>1, RemainderOfLess, BackoffAssumption
  <2>4. power \in 0..2^(LongBits - 1) - 1
    BY <1>1, <2>2
  <2>5. ShiftedOne(attempt) = power
    BY <2>3, <2>4, LongHolds DEF ShiftedOne
  <2> HIDE DEF power
  <2>6. InitialTicks > MaximumTicks \div power <=> InitialTicks * power > MaximumTicks
    <3>1. InitialTicks <= MaximumTicks \div power <=> InitialTicks * power <= MaximumTicks
      BY <1>1, QuotientBounds, BackoffAssumption
    <3>2. MaximumTicks \div power \in Int /\ InitialTicks * power \in Int
      BY <1>1, BackoffAssumption
    <3> QED
      BY <3>1, <3>2, BackoffAssumption
  <2>7. CASE InitialTicks * power > MaximumTicks
    <3>1. DelayTicks(attempt) = MaximumTicks
      BY <1>3, <2>5, <2>6, <2>7, BackoffAssumption DEF DelayTicks
    <3> QED
      BY <1>1, <2>7, <3>1 DEF power
  <2>8. CASE ~(InitialTicks * power > MaximumTicks)
    <3>1. InitialTicks * power \in Nat /\ InitialTicks * power <= MaximumTicks
      BY <1>1, <2>8, BackoffAssumption
    <3>2. InitialTicks * power \in 0..2^(LongBits - 1) - 1
      BY <2>2, <3>1, BackoffAssumption
    <3>3. Long(InitialTicks * power) = InitialTicks * power
      BY <3>2, LongHolds
    <3>4. DelayTicks(attempt) = Least(MaximumTicks, Long(InitialTicks * power))
      BY <1>3, <2>5, <2>6, <2>8, BackoffAssumption DEF DelayTicks
    <3>5. DelayTicks(attempt) = InitialTicks * power
      BY <3>1, <3>3, <3>4, BackoffAssumption DEF Least
    <3> QED
      BY <1>1, <1>3, <2>8, <3>5, BackoffAssumption DEF power
  <2> QED
    BY <2>7, <2>8
<1> QED
  BY <1>2, <1>3, BackoffAssumption

\* Every delay is between the bounds, and the next is not shorter, however many
\* attempts have failed.
THEOREM DelaysAreBounded ==
    ASSUME NEW attempt \in Nat
    PROVE  /\ DelayTicks(attempt) \in InitialTicks..MaximumTicks
           /\ DelayTicks(attempt) <= DelayTicks(attempt + 1)
<1> DEFINE product(k) == InitialTicks * 2^k
           d(k) == IF k >= LongBits - 2 \/ product(k) > MaximumTicks
                   THEN MaximumTicks ELSE product(k)
<1>1. attempt + 1 \in Nat /\ attempt \in 0..attempt + 1
  OBVIOUS
<1>2. DelayTicks(attempt) = d(attempt) /\ DelayTicks(attempt + 1) = d(attempt + 1)
  BY <1>1, DelaysDouble
<1>3. 2^attempt \in Nat \ {0} /\ 2^(attempt + 1) \in Nat \ {0} /\ 2^attempt <= 2^(attempt + 1)
  BY <1>1, PowersGrow
<1>4. \A x, y \in Nat : x <= y => InitialTicks * x <= InitialTicks * y
  BY BackoffAssumption
<1>5. \A x \in Nat \ {0} : InitialTicks * x \in Nat /\ InitialTicks <= InitialTicks * x
  BY BackoffAssumption
<1>6. /\ product(attempt) \in Nat /\ InitialTicks <= product(attempt)
      /\ product(attempt + 1) \in Nat /\ product(attempt) <= product(attempt + 1)
  BY <1>3, <1>4, <1>5
<1> HIDE DEF product
<1> QED
  BY <1>2, <1>6, BackoffAssumption

-----------------------------------------------------------------------------
(* The attempts *)

\* The domains of the timers.
PaperConnectionTypeOK ==
    /\ online \in {"down", "up", "lost"}
    /\ connectRequested \in BOOLEAN
    /\ connecting \in BOOLEAN
    /\ requestAge \in 0..TooOld
    /\ ticksLeft \in Nat
    /\ reconnectAttempt \in 0..MaxAttempts
    /\ idle \in Nat
    /\ lastPause \in Nat

\* A client that is on Paper has asked for it, and an attempt in hand has not timed out.
RequestFits ==
    /\ online = "up" => connectRequested
    /\ online = "down" /\ connectRequested => requestAge < AttemptTimeoutTicks

\* A pause that has begun will be at least as long as the last, and no longer than the
\* delay that a further failure would bring.
Pause == idle + ticksLeft

PauseFits ==
    /\ lastPause <= DelayTicks(reconnectAttempt)
    /\ ~connectRequested =>
        \/ /\ reconnectAttempt = 0
           /\ ticksLeft = 0 /\ idle = 0 /\ lastPause = 0
        \/ /\ ticksLeft > 0
           /\ Pause \in InitialTicks..MaximumTicks
           /\ lastPause <= Pause /\ Pause <= DelayTicks(reconnectAttempt)

PaperInv == PaperConnectionTypeOK /\ RequestFits /\ PauseFits

\* A failure begins a pause that is not shorter than the last.
LEMMA PausesBegin ==
    ASSUME PaperInv, ScheduleReconnect, UNCHANGED lastPause
    PROVE  /\ reconnectAttempt' \in 0..MaxAttempts
           /\ ticksLeft' \in Nat /\ idle' \in Nat /\ lastPause' \in Nat
           /\ PauseFits'
<1>1. reconnectAttempt \in 0..MaxAttempts /\ reconnectAttempt \in Nat
  BY BackoffAssumption DEF PaperInv, PaperConnectionTypeOK
<1>2. reconnectAttempt' = Least(reconnectAttempt + 1, MaxAttempts)
  BY DEF ScheduleReconnect
<1>3. reconnectAttempt' \in 0..MaxAttempts
  BY <1>1, <1>2, BackoffAssumption DEF Least
<1>4. DelayTicks(reconnectAttempt) \in InitialTicks..MaximumTicks
  BY <1>1, DelaysAreBounded
<1>5. DelayTicks(reconnectAttempt) <= DelayTicks(reconnectAttempt')
  <2>1. CASE reconnectAttempt' = reconnectAttempt + 1
    BY <1>1, <2>1, DelaysAreBounded
  <2>2. CASE reconnectAttempt' = reconnectAttempt
    BY <1>4, <2>2, BackoffAssumption
  <2>3. reconnectAttempt' = reconnectAttempt + 1 \/ reconnectAttempt' = reconnectAttempt
    BY <1>1, <1>2, BackoffAssumption DEF Least
  <2> QED
    BY <2>1, <2>2, <2>3
<1>6. ticksLeft' = DelayTicks(reconnectAttempt) /\ idle' = 0 /\ lastPause' = lastPause
  BY DEF ScheduleReconnect
<1>7. lastPause \in Nat /\ lastPause <= DelayTicks(reconnectAttempt)
  BY DEF PaperInv, PaperConnectionTypeOK, PauseFits
<1>8. DelayTicks(reconnectAttempt') \in InitialTicks..MaximumTicks
  BY <1>3, DelaysAreBounded, BackoffAssumption
<1>9. Pause' = DelayTicks(reconnectAttempt)
  BY <1>4, <1>6, BackoffAssumption DEF Pause
<1>10. lastPause' <= DelayTicks(reconnectAttempt')
  BY <1>4, <1>5, <1>6, <1>7, <1>8, BackoffAssumption
<1>11. ticksLeft' > 0 /\ ticksLeft' \in Nat
  BY <1>4, <1>6, BackoffAssumption
<1>12. PauseFits'
  BY <1>4, <1>5, <1>6, <1>7, <1>9, <1>10, <1>11 DEF PauseFits
<1> QED
  BY <1>3, <1>6, <1>7, <1>11, <1>12

\* The attempt after a pause: the pause was all of the delay.
LEMMA PausesEnd ==
    ASSUME PaperInv, TickConnects
    PROVE  /\ PauseFits'
           /\ lastPause' \in Nat
           /\ lastPause' >= lastPause
           /\ reconnectAttempt > 0 => lastPause' >= InitialTicks
<1>1. /\ ~connectRequested /\ ticksLeft <= 1 /\ connectRequested'
      /\ lastPause' = idle + 1 /\ UNCHANGED reconnectAttempt
  BY DEF TickConnects
<1>2. reconnectAttempt \in Nat /\ idle \in Nat /\ ticksLeft \in Nat /\ lastPause \in Nat
  BY DEF PaperInv, PaperConnectionTypeOK
<1>3. DelayTicks(reconnectAttempt) \in InitialTicks..MaximumTicks
  BY <1>2, DelaysAreBounded
<1>4. CASE reconnectAttempt = 0 /\ ticksLeft = 0 /\ idle = 0 /\ lastPause = 0
  <2>1. lastPause' = 1
    BY <1>1, <1>4
  <2>2. lastPause' <= DelayTicks(reconnectAttempt')
    BY <1>1, <1>3, <2>1, BackoffAssumption
  <2> QED
    BY <1>1, <1>4, <2>1, <2>2 DEF PauseFits
<1>5. CASE /\ ticksLeft > 0
           /\ Pause \in InitialTicks..MaximumTicks
           /\ lastPause <= Pause /\ Pause <= DelayTicks(reconnectAttempt)
  <2>1. lastPause' = Pause
    BY <1>1, <1>2, <1>5 DEF Pause
  <2>2. lastPause' <= DelayTicks(reconnectAttempt')
    BY <1>1, <1>5, <2>1
  <2>3. lastPause' \in Nat /\ lastPause' >= lastPause /\ lastPause' >= InitialTicks
    BY <1>1, <1>2, <1>5, <2>1, BackoffAssumption
  <2> QED
    BY <1>1, <2>2, <2>3 DEF PauseFits
<1> QED
  BY <1>1, <1>4, <1>5 DEF PaperInv, PauseFits

\* A tick that neither begins nor ends an attempt counts a pause down.
LEMMA PausesPass ==
    ASSUME PaperInv, TickPasses
    PROVE  PauseFits' /\ ticksLeft' \in Nat /\ idle' \in Nat
<1>1. /\ UNCHANGED <<connectRequested, reconnectAttempt, lastPause, online>>
      /\ ticksLeft' = IF ticksLeft = 0 THEN 0 ELSE ticksLeft - 1
      /\ idle' = IF connectRequested THEN 0 ELSE idle + 1
      /\ ~connectRequested /\ Offline => ticksLeft > 1
  BY DEF TickPasses
<1>2. idle \in Nat /\ ticksLeft \in Nat /\ connectRequested \in BOOLEAN
  BY DEF PaperInv, PaperConnectionTypeOK
<1>3. ticksLeft' \in Nat /\ idle' \in Nat
  BY <1>1, <1>2
<1>4. DelayTicks(reconnectAttempt') = DelayTicks(reconnectAttempt)
  BY <1>1
<1>5. CASE connectRequested
  BY <1>1, <1>3, <1>4, <1>5 DEF PaperInv, PauseFits
<1>6. CASE ~connectRequested
  <2>1. Offline
    BY <1>6 DEF PaperInv, RequestFits, Offline
  <2>2. ticksLeft > 1 /\ ticksLeft' = ticksLeft - 1 /\ idle' = idle + 1
    BY <1>1, <1>2, <1>6, <2>1
  <2>3. Pause' = Pause /\ ticksLeft' > 0
    BY <1>2, <2>2 DEF Pause
  <2> QED
    BY <1>1, <1>2, <1>4, <1>6, <2>2, <2>3 DEF PaperInv, PauseFits
<1> QED
  BY <1>3, <1>5, <1>6

\* The initial state, and every step.
LEMMA PaperInit == PaperConnectionInit => PaperInv
<1> SUFFICES ASSUME PaperConnectionInit PROVE PaperInv
  OBVIOUS
<1>1. DelayTicks(0) \in InitialTicks..MaximumTicks
  BY DelaysAreBounded
<1>2. PauseFits
  BY <1>1, BackoffAssumption DEF PaperConnectionInit, PauseFits
<1>3. PaperConnectionTypeOK /\ RequestFits
  <2>1. AttemptTimeoutTicks \in Nat \ {0} /\ MaxAttempts \in Nat /\ TooOld \in Nat
    BY BackoffAssumption DEF TooOld
  <2>2. RequestFits
    BY DEF PaperConnectionInit, RequestFits
  <2>3. connectRequested \in BOOLEAN /\ connecting \in BOOLEAN
    BY DEF PaperConnectionInit
  <2>4. PaperConnectionTypeOK
    BY <2>1, <2>3 DEF PaperConnectionInit, PaperConnectionTypeOK
  <2> QED
    BY <2>2, <2>4
<1> QED
  BY <1>2, <1>3 DEF PaperInv

LEMMA PaperStep == PaperInv /\ [PaperConnectionNext]_paperConnectionVars => PaperInv'
<1> SUFFICES ASSUME PaperInv, [PaperConnectionNext]_paperConnectionVars PROVE PaperInv'
  OBVIOUS
<1>1. PaperConnectionTypeOK /\ RequestFits /\ PauseFits
  BY DEF PaperInv
<1>2. ASSUME RequestAges PROVE requestAge' \in 0..TooOld
  BY <1>1, <1>2, BackoffAssumption DEF RequestAges, Least, TooOld, PaperConnectionTypeOK
<1>3. CASE TickTimesOut
  <2>1. PauseFits' /\ reconnectAttempt' \in 0..MaxAttempts
        /\ ticksLeft' \in Nat /\ idle' \in Nat /\ lastPause' \in Nat
    BY <1>3, PausesBegin DEF TickTimesOut
  <2>2. ~connectRequested' /\ UNCHANGED <<online, connecting>> /\ Offline /\ RequestAges
    BY <1>3 DEF TickTimesOut, AttemptTimesOut
  <2> QED
    BY <1>1, <1>2, <2>1, <2>2, <1>3 DEF PaperInv, PaperConnectionTypeOK, RequestFits, Offline,
       TickTimesOut
<1>4. CASE TickConnects
  <2>1. PauseFits' /\ lastPause' \in Nat
    BY <1>4, PausesEnd
  <2> QED
    BY <1>1, <1>4, <2>1, BackoffAssumption
    DEF PaperInv, PaperConnectionTypeOK, RequestFits, Offline, TickConnects, TooOld
<1>5. CASE TickPasses
  <2>1. PauseFits' /\ ticksLeft' \in Nat /\ idle' \in Nat
    BY <1>5, PausesPass
  <2>2. requestAge' \in 0..TooOld
    BY <1>2, <1>5 DEF TickPasses
  <2>3. PaperConnectionTypeOK'
    BY <1>1, <1>5, <2>1, <2>2 DEF PaperConnectionTypeOK, TickPasses
  <2>4. online' = "down" /\ connectRequested' => requestAge' < AttemptTimeoutTicks
    BY <1>1, <1>5, BackoffAssumption
    DEF TickPasses, AttemptTimesOut, Offline, RequestAges, Least, TooOld, PaperConnectionTypeOK
  <2>5. RequestFits'
    BY <1>1, <1>5, <2>4 DEF RequestFits, TickPasses
  <2> QED
    BY <2>1, <2>3, <2>5 DEF PaperInv
<1>6. CASE JoinedPaper
  <2>1. DelayTicks(reconnectAttempt') \in InitialTicks..MaximumTicks
    BY <1>6, DelaysAreBounded DEF JoinedPaper
  <2>2. PauseFits'
    BY <1>6, <2>1, BackoffAssumption DEF JoinedPaper, PauseFits
  <2>3. MaxAttempts \in Nat
    BY BackoffAssumption
  <2>4. RequestFits'
    BY <1>6 DEF RequestFits, JoinedPaper
  <2>5. connectRequested' \in BOOLEAN /\ connecting' \in BOOLEAN
    BY <1>6 DEF JoinedPaper
  <2>6. PaperConnectionTypeOK'
    BY <1>1, <1>6, <2>3, <2>5 DEF PaperConnectionTypeOK, JoinedPaper
  <2> QED
    BY <2>2, <2>4, <2>6 DEF PaperInv
<1>7. CASE AttemptFails \/ PaperLost \/ UNCHANGED paperConnectionVars
  <2>1. /\ UNCHANGED timers
        /\ online' \in {"down", "up", "lost"} /\ connecting' \in BOOLEAN
        /\ online' = online \/ online' = "lost"
    BY <1>1, <1>7 DEF AttemptFails, PaperLost, paperConnectionVars, PaperConnectionTypeOK
  <2> QED
    BY <1>1, <2>1 DEF PaperInv, PaperConnectionTypeOK, RequestFits, PauseFits, Pause, timers
<1>8. CASE DisconnectedPaper
  <2>1. PauseFits' /\ reconnectAttempt' \in 0..MaxAttempts
        /\ ticksLeft' \in Nat /\ idle' \in Nat /\ lastPause' \in Nat
    BY <1>8, PausesBegin DEF DisconnectedPaper
  <2> QED
    BY <1>1, <1>8, <2>1
    DEF PaperInv, PaperConnectionTypeOK, RequestFits, DisconnectedPaper, RequestDropped
<1> QED
  BY <1>3, <1>4, <1>5, <1>6, <1>7, <1>8 DEF PaperConnectionNext, StartTick

\* The invariant holds of every run.
THEOREM PaperInvariant == PaperConnectionSpec => []PaperInv
BY PaperInit, PaperStep, PTL DEF PaperConnectionSpec

\* A client that is off Paper has an attempt that is younger than its timeout, or has
\* paused for less than the longest delay: startTick always comes back to it.
THEOREM SilencesAreBounded == PaperConnectionSpec => []SilenceIsBounded
<1>1. PaperInv => SilenceIsBounded
  <2> SUFFICES ASSUME PaperInv, online = "down" , ~connectRequested PROVE idle < MaximumTicks
    BY DEF SilenceIsBounded, PaperInv, RequestFits
  <2>1. idle \in Nat /\ ticksLeft \in Nat
    BY DEF PaperInv, PaperConnectionTypeOK
  <2>2. CASE idle = 0
    BY <2>2, BackoffAssumption
  <2>3. CASE ticksLeft > 0 /\ Pause \in InitialTicks..MaximumTicks
    BY <2>1, <2>3, BackoffAssumption DEF Pause
  <2> QED
    BY <2>2, <2>3 DEF PaperInv, PauseFits
<1> QED
  BY <1>1, PaperInvariant, PTL

\* Between two joins the pauses before the attempts never get shorter, nor shorter than
\* the first delay after a failure: a loss that is counted twice, an attempt given up
\* and the counter's limit included.
THEOREM PausesOnlyGrow == PaperConnectionSpec => PausesGrow
<1> DEFINE Grows == online' = "up" \/ /\ lastPause' >= lastPause
                                      /\ reconnectAttempt > 0 => lastPause' >= InitialTicks
<1>1. PaperInv /\ [PaperConnectionNext]_paperConnectionVars => [Grows]_lastPause
  <2> SUFFICES ASSUME PaperInv, [PaperConnectionNext]_paperConnectionVars, lastPause' # lastPause
               PROVE  Grows
    OBVIOUS
  <2>1. TickConnects \/ JoinedPaper
    BY DEF PaperConnectionNext, StartTick, TickTimesOut, TickPasses, AttemptFails, PaperLost,
       DisconnectedPaper, paperConnectionVars, timers
  <2>2. CASE TickConnects
    BY <2>2, PausesEnd
  <2>3. CASE JoinedPaper
    BY <2>3 DEF JoinedPaper
  <2> QED
    BY <2>1, <2>2, <2>3
<1> QED
  BY <1>1, PaperInvariant, PTL DEF PaperConnectionSpec, PausesGrow

=============================================================================
