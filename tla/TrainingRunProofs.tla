-------------------------- MODULE TrainingRunProofs --------------------------
(***************************************************************************)
(* A pool and a training for any clients, versions, numbers of rounds,     *)
(* rollout length and number of updates.  The first part is about the pool *)
(* whoever drives it: a drive fails only when a part of it does or when    *)
(* its clients play different rounds of the server, and the pool plays     *)
(* global rounds.  The second adds how the optimiser's policies, the       *)
(* rollouts and the rounds of the pool go together.                        *)
(***************************************************************************)
EXTENDS TrainingRun, TLAPS

Commands ==
    {x \in [kind : {"none", "arm", "action", "stop"}, round : Nat, policy : Nat, start : BOOLEAN] :
        x.kind = "none" => x = NoCommand}

Happenings ==
    [client : Clients, kind : {"ready", "armed", "step", "error"}, round : Nat, policy : Nat,
     valid : BOOLEAN, ended : BOOLEAN, start : BOOLEAN, by : Nat]

Causes ==
    {"NONE", "client", "startup", "unexpected", "busy", "results", "refused", "mixed", "stale",
     "optimizer"}

\* The domains of the pool's variables.
PoolTypeOK ==
    /\ actor \in [Clients -> {"connecting", "running", "gone"}]
    /\ command \in [Clients -> Commands]
    /\ task \in [Clients -> Commands]
    /\ observing \in [Clients -> BOOLEAN]
    /\ episode \in [Clients -> Nat \X Nat]
    /\ split \in Nat
    /\ stopping \in [Clients -> BOOLEAN]
    /\ events \in Seq(Happenings)
    /\ driver \in {"starting", "idle", "arming", "collecting", "handling", "acting", "boundary",
                   "closing", "closed"}
    /\ awaited \in SUBSET Clients
    /\ batch \in Seq(Happenings)
    /\ available \in [Clients -> {"none", "first", "next"}]
    /\ results \in SUBSET Happenings
    /\ round \in Nat
    /\ policy \in Nat
    /\ roundsLeft \in Nat
    /\ cause \in Causes

\* The events of a sequence.
Said(s) == {s[i] : i \in DOMAIN s}

\* A client has its turn in one place at a time: it connects, is to be armed, has a
\* command waiting or under way, has said something that is on its way to the driving
\* thread or in its hands, waits for an answer, or has ended.
Speaks(s, c) == \E i \in DOMAIN s : s[i].client = c /\ s[i].kind # "error"

TurnAt(c, place) ==
    /\ actor[c] = "connecting" => place = "actor"
    /\ driver = "arming" /\ c \in awaited => place = "awaited"
    /\ command[c].kind \in {"arm", "action"} => place = "command"
    /\ task[c] # NoCommand => place = "task"
    /\ Speaks(events, c) => place = "events"
    /\ Speaks(batch, c) => place = "batch"
    /\ available[c] # "none" => place = "available"
    /\ (\E r \in results : r.client = c) => place = "results"

Places == {"actor", "awaited", "command", "task", "events", "batch", "available", "results"}

OneTurn == \A c \in Clients : \E place \in Places : TurnAt(c, place)

\* Nor has it said two things.
OnceEach(s) ==
    \A i, j \in DOMAIN s :
        s[i].client = s[j].client /\ s[i].kind # "error" /\ s[j].kind # "error" => i = j

SpeakOnce == OnceEach(events) /\ OnceEach(batch)

\* What a client is told is of the current round and its policy, and suits what the
\* client is at.
Suits(c, x) ==
    /\ x.kind = "arm" => x.round = round /\ x.policy = policy /\ ~x.start /\ ~observing[c]
    /\ x.kind = "action" => x.policy = policy /\ observing[c]

CommandsSuit ==
    \A c \in Clients :
        /\ Suits(c, command[c])
        /\ Suits(c, task[c])
        /\ task[c] # NoCommand => actor[c] = "running"
        /\ task[c].kind # "stop"
        /\ command[c].kind = "stop" => driver \in {"closing", "closed"}

\* So is what it has said.
Fits(e) ==
    /\ e.kind \in {"armed", "step"} => e.round = round /\ e.policy = policy
    /\ e.kind = "armed" => observing[e.client] /\ ~e.ended
    /\ e.kind = "step" =>
        /\ e.by = policy
        /\ e.valid = ~e.ended
        /\ observing[e.client] = ~e.ended
    /\ e.kind = "error" => actor[e.client] = "gone"
    /\ e.kind = "ready" =>
        \/ driver = "starting" /\ e.client \in awaited
        \/ driver \in {"closing", "closed"}

EventsFit == \A e \in Pending : Fits(e)

ResultsFit == \A r \in results : r.kind = "step" /\ r.ended /\ Fits(r)

\* An episode that is observed is the current round's; who is to be armed observes none.
EpisodesFit ==
    \A c \in Clients :
        /\ observing[c] => round > 0 /\ episode[c] = <<round, policy>>
        /\ available[c] # "none" => observing[c]
        /\ driver = "arming" /\ c \in awaited => ~observing[c]

\* Nothing of a round is left before the first one.
Quiet ==
    /\ results = {}
    /\ \A e \in Pending : e.kind \in {"ready", "error"}
    /\ \A c \in Clients :
        /\ command[c].kind \notin {"arm", "action"}
        /\ task[c] = NoCommand
        /\ available[c] = "none"

\* Where the driving thread is.
DriverFits ==
    /\ driver = "starting" => round = 0
    /\ driver \in {"arming", "collecting", "handling", "acting", "boundary"} => round > 0
    /\ driver \notin {"handling", "closing", "closed"} => batch = <<>>
    /\ cause # "NONE" => driver \in {"closing", "closed"}
    /\ driver = "boundary" => AllEnded
    /\ driver = "idle" /\ round > 0 => AllEnded
    /\ \A c \in Clients :
        actor[c] = "connecting" =>
            \/ driver = "starting" /\ c \in awaited
            \/ driver \in {"closing", "closed"}
    /\ round = 0 => Quiet
    /\ round > 0 => policy \in Versions

PoolInv ==
    /\ PoolTypeOK
    /\ OneTurn
    /\ SpeakOnce
    /\ CommandsSuit
    /\ EventsFit
    /\ ResultsFit
    /\ EpisodesFit
    /\ DriverFits

-----------------------------------------------------------------------------
(* What is said *)

\* A sequence to which something is said.
LEMMA AppendSpeaks ==
    ASSUME NEW s \in Seq(Happenings), NEW e \in Happenings
    PROVE  LET t == Append(s, e) IN
           /\ t \in Seq(Happenings)
           /\ \A c : Speaks(t, c) <=> Speaks(s, c) \/ (e.client = c /\ e.kind # "error")
           /\ OnceEach(s) /\ (e.kind = "error" \/ ~Speaks(s, e.client)) => OnceEach(t)
           /\ Said(t) = Said(s) \cup {e}
<1> DEFINE t == Append(s, e)
<1>1. /\ t \in Seq(Happenings)
      /\ DOMAIN t = DOMAIN s \cup {Len(s) + 1}
      /\ t[Len(s) + 1] = e
      /\ \A i \in DOMAIN s : t[i] = s[i]
  OBVIOUS
<1> HIDE DEF t
<1>2. \A c : Speaks(t, c) <=> Speaks(s, c) \/ (e.client = c /\ e.kind # "error")
  BY <1>1 DEF Speaks
<1>3. OnceEach(s) /\ (e.kind = "error" \/ ~Speaks(s, e.client)) => OnceEach(t)
  BY <1>1 DEF Speaks, OnceEach
<1>4. Said(t) = Said(s) \cup {e}
  BY <1>1 DEF Said
<1> QED BY <1>1, <1>2, <1>3, <1>4 DEF t

\* A sequence of which the first is taken.
LEMMA TailSpeaks ==
    ASSUME NEW s \in Seq(Happenings), s # <<>>
    PROVE  LET t == Tail(s)
               e == Head(s) IN
           /\ t \in Seq(Happenings)
           /\ e \in Happenings
           /\ \A c : Speaks(s, c) <=> Speaks(t, c) \/ (e.client = c /\ e.kind # "error")
           /\ OnceEach(s) => OnceEach(t) /\ (e.kind = "error" \/ ~Speaks(t, e.client))
           /\ Said(s) = Said(t) \cup {e}
<1> DEFINE t == Tail(s)
           e == Head(s)
<1>1. /\ t \in Seq(Happenings)
      /\ e \in Happenings
      /\ Len(s) \in Nat \ {0}
      /\ DOMAIN s = 1..Len(s)
      /\ DOMAIN t = 1..(Len(s) - 1)
      /\ s[1] = e
      /\ \A i \in DOMAIN t : t[i] = s[i + 1]
  OBVIOUS
<1> HIDE DEF t, e
<1>2. \A i \in DOMAIN s : i = 1 \/ (i - 1 \in DOMAIN t /\ s[i] = t[i - 1])
  BY <1>1
<1>3. \A i \in DOMAIN t : i + 1 \in DOMAIN s /\ i + 1 # 1
  BY <1>1
<1>4. 1 \in DOMAIN s
  BY <1>1
<1>5. \A c : Speaks(s, c) <=> Speaks(t, c) \/ (e.client = c /\ e.kind # "error")
  BY <1>1, <1>2, <1>3, <1>4 DEF Speaks
<1>6. OnceEach(s) => OnceEach(t) /\ (e.kind = "error" \/ ~Speaks(t, e.client))
  <2> SUFFICES ASSUME OnceEach(s)
               PROVE  OnceEach(t) /\ (e.kind = "error" \/ ~Speaks(t, e.client))
    OBVIOUS
  <2>1. OnceEach(t)
    <3> SUFFICES ASSUME NEW i \in DOMAIN t, NEW j \in DOMAIN t, t[i].client = t[j].client,
                        t[i].kind # "error", t[j].kind # "error"
                 PROVE  i = j
      BY DEF OnceEach
    <3>1. i + 1 = j + 1
      BY <1>1, <1>3 DEF OnceEach
    <3> QED BY <1>1, <3>1
  <2>2. e.kind = "error" \/ ~Speaks(t, e.client)
    BY <1>1, <1>3, <1>4 DEF OnceEach, Speaks
  <2> QED BY <2>1, <2>2
<1>7. Said(s) = Said(t) \cup {e}
  <2>1. \A x \in Said(s) : x = e \/ x \in Said(t)
    BY <1>1, <1>2 DEF Said
  <2>2. \A x \in Said(t) : x \in Said(s)
    BY <1>1, <1>3 DEF Said
  <2>3. e \in Said(s)
    BY <1>1, <1>4 DEF Said
  <2> QED BY <2>1, <2>2, <2>3
<1> QED BY <1>1, <1>5, <1>6, <1>7 DEF t, e

\* Nobody speaks in an empty sequence.
LEMMA NobodySpeaks ==
    OnceEach(<<>>) /\ (\A c : ~Speaks(<<>>, c)) /\ Said(<<>>) = {}
  BY DEF OnceEach, Speaks, Said

\* All that is pending is an event or in the batch.
LEMMA PendingIsSaid ==
    /\ Pending = Said(events) \cup Said(batch)
    /\ Pending' = Said(events') \cup Said(batch')
    /\ \A s : \A e \in Said(s) : e.kind = "error" \/ Speaks(s, e.client)
  BY DEF Pending, Said, Speaks

\* What the commands of the pool are.
LEMMA CommandsTyped ==
    /\ NoCommand \in Commands
    /\ StopCommand \in Commands
    /\ NoCommand.kind = "none"
    /\ StopCommand.kind = "stop"
    /\ \A x \in Commands : x.kind = "none" => x = NoCommand
  BY DEF NoCommand, StopCommand, Command, Commands

\* What its events are.
LEMMA EventsTyped ==
    /\ \A c \in Clients, kind \in {"ready", "error"} :
        /\ Plain(c, kind) \in Happenings
        /\ Plain(c, kind).client = c
        /\ Plain(c, kind).kind = kind
    /\ \A c \in Clients, kind \in {"armed", "step"}, e \in Nat \X Nat, valid, ended \in BOOLEAN,
          x \in Commands : Event(c, kind, e, valid, ended, x) \in Happenings
  BY DEF NoCommand, StopCommand, Command, Commands, Plain, Event, Happenings

\* What is pending, and the results, are events of clients.
LEMMA PendingTyped ==
    PoolTypeOK =>
        /\ Pending \subseteq Happenings
        /\ \A e \in Pending \cup results : e.client \in Clients
<1> SUFFICES ASSUME PoolTypeOK
             PROVE  Pending \cup results \subseteq Happenings
  BY DEF Happenings
<1>1. \A s \in Seq(Happenings) : \A i \in DOMAIN s : s[i] \in Happenings
  OBVIOUS
<1>2. events \in Seq(Happenings) /\ batch \in Seq(Happenings) /\ results \subseteq Happenings
  BY DEF PoolTypeOK
<1> QED BY <1>1, <1>2 DEF Pending

\* The pool begins within its invariant.
LEMMA InitPoolInv == PoolInit => PoolInv
<1> SUFFICES ASSUME PoolInit PROVE PoolInv
  OBVIOUS
<1> USE CommandsTyped, NobodySpeaks DEF PoolInit
<1>1. PoolTypeOK
  BY DEF PoolTypeOK, Causes, NoneAvailable
<1>2. OneTurn
  BY DEF OneTurn, TurnAt, Places, NoneAvailable
<1>3. SpeakOnce
  BY DEF SpeakOnce
<1>4. Pending = {}
  BY PendingIsSaid
<1>5. CommandsSuit /\ EventsFit /\ ResultsFit /\ EpisodesFit
  BY <1>4 DEF CommandsSuit, Suits, EventsFit, ResultsFit, EpisodesFit, NoneAvailable
<1>6. DriverFits
  BY <1>4 DEF DriverFits, Quiet, NoneAvailable
<1> QED BY <1>1, <1>2, <1>3, <1>5, <1>6 DEF PoolInv

-----------------------------------------------------------------------------
(* The actors *)

\* A client that says something has the turn to say it: it was connecting or at a task.
LEMMA PutSpeaks ==
    ASSUME PoolTypeOK, SpeakOnce, NEW e \in Happenings, Put(e), UNCHANGED batch,
           e.kind = "error" \/ ~Speaks(events, e.client)
    PROVE  /\ events' \in Seq(Happenings)
           /\ \A c : Speaks(events', c) <=> Speaks(events, c) \/ (e.client = c /\ e.kind # "error")
           /\ SpeakOnce'
           /\ Pending' = Pending \cup {e}
<1>1. events \in Seq(Happenings) /\ events' = Append(events, e)
  BY DEF PoolTypeOK, Put
<1>2. OnceEach(events')
  BY <1>1, AppendSpeaks DEF SpeakOnce
<1>3. Said(events') = Said(events) \cup {e}
  BY <1>1, AppendSpeaks
<1>4. SpeakOnce'
  BY <1>2 DEF SpeakOnce
<1>5. Pending' = Pending \cup {e}
  BY <1>3, PendingIsSaid
<1> QED BY <1>1, <1>4, <1>5, AppendSpeaks

\* An actor that dies.
LEMMA DiesKeepsPool ==
    ASSUME PoolInv, NEW c \in Clients, Dies(c),
           UNCHANGED <<command, observing, episode, split, stopping, driverVars>>
    PROVE  PoolInv'
<1> USE DEF PoolInv
<1>1. /\ actor' = [actor EXCEPT ![c] = "gone"]
      /\ task' = [task EXCEPT ![c] = NoCommand]
      /\ UNCHANGED <<command, observing, episode, split, stopping, driver, awaited, batch,
                     available, results, round, policy, roundsLeft, cause>>
  BY DEF Dies, driverVars, roundVars
<1>2. /\ events' \in Seq(Happenings)
      /\ \A d : Speaks(events', d) <=> Speaks(events, d)
      /\ SpeakOnce'
      /\ Pending' = Pending \/ Pending' = Pending \cup {Plain(c, "error")}
  <2>1. CASE stopping[c]
    BY <1>1, <2>1 DEF PoolTypeOK, SpeakOnce, Pending, Dies
  <2>2. CASE ~stopping[c]
    BY <1>1, <2>2, PutSpeaks, EventsTyped DEF Dies
  <2> QED BY <2>1, <2>2
<1>3. /\ \A d \in Clients : actor'[d] = IF d = c THEN "gone" ELSE actor[d]
      /\ \A d \in Clients : task'[d] = IF d = c THEN NoCommand ELSE task[d]
  BY <1>1 DEF PoolTypeOK
<1>4. PoolTypeOK'
  BY <1>1, <1>2, CommandsTyped DEF PoolTypeOK
<1>5. OneTurn'
  <2> SUFFICES ASSUME NEW d \in Clients
               PROVE  \E place \in Places : TurnAt(d, place)'
    BY DEF OneTurn
  <2>1. PICK place \in Places : TurnAt(d, place)
    BY DEF OneTurn
  <2>2. (Speaks(events, d)' <=> Speaks(events, d)) /\ (Speaks(batch, d)' <=> Speaks(batch, d))
    BY <1>1, <1>2
  <2>3. TurnAt(d, place)'
    BY <1>1, <1>3, <2>1, <2>2 DEF TurnAt
  <2> QED BY <2>3
<1>6. CommandsSuit'
  BY <1>1, <1>3, CommandsTyped DEF CommandsSuit, Suits
<1>7. EventsFit'
  <2>1. \A e \in Pending : Fits(e)'
    BY <1>1, <1>3, PendingTyped DEF EventsFit, Fits
  <2>2. Fits(Plain(c, "error"))'
    BY <1>3, EventsTyped DEF Fits
  <2> QED BY <1>2, <2>1, <2>2 DEF EventsFit
<1>8. ResultsFit'
  BY <1>1 DEF ResultsFit, Fits
<1>9. EpisodesFit'
  BY <1>1 DEF EpisodesFit
<1>10. DriverFits'
  <2>1. Quiet => Quiet'
    BY <1>1, <1>2, <1>3, EventsTyped DEF Quiet
  <2> QED BY <1>1, <1>3, <2>1 DEF DriverFits, AllEnded
<1> QED BY <1>2, <1>4, <1>5, <1>6, <1>7, <1>8, <1>9, <1>10

\* An actor that has connected.
LEMMA ConnectKeepsPool ==
    ASSUME PoolInv, NEW c \in Clients, Connect(c)
    PROVE  PoolInv'
<1> USE DEF PoolInv
<1> DEFINE e == Plain(c, "ready")
<1>1. /\ actor[c] = "connecting"
      /\ actor' = [actor EXCEPT ![c] = "running"]
      /\ Put(e)
      /\ UNCHANGED <<command, task, observing, episode, split, stopping, driver, awaited, batch,
                     available, results, round, policy, roundsLeft, cause>>
  BY DEF Connect, driverVars, roundVars
<1>2. e \in Happenings /\ e.client = c /\ e.kind = "ready"
  BY EventsTyped
<1> HIDE DEF e
<1>3. TurnAt(c, "actor")
  BY <1>1 DEF OneTurn, TurnAt
<1>4. /\ events' \in Seq(Happenings)
      /\ \A d : Speaks(events', d) <=> Speaks(events, d) \/ d = c
      /\ SpeakOnce'
      /\ Pending' = Pending \cup {e}
  BY <1>1, <1>2, <1>3, PutSpeaks DEF TurnAt
<1>5. \A d \in Clients : actor'[d] = IF d = c THEN "running" ELSE actor[d]
  BY <1>1 DEF PoolTypeOK
<1>6. PoolTypeOK'
  BY <1>1, <1>4 DEF PoolTypeOK
<1>7. OneTurn'
  <2> SUFFICES ASSUME NEW d \in Clients
               PROVE  \E place \in Places : TurnAt(d, place)'
    BY DEF OneTurn
  <2>1. PICK place \in Places : TurnAt(d, place)
    BY DEF OneTurn
  <2>2. (Speaks(events, d)' <=> Speaks(events, d) \/ d = c) /\ (Speaks(batch, d)' <=> Speaks(batch, d))
    BY <1>1, <1>4
  <2>3. CASE d = c
    <3>1. TurnAt(d, "events")'
      BY <1>1, <1>3, <1>5, <2>2, <2>3 DEF TurnAt
    <3> QED BY <3>1 DEF Places
  <2>4. CASE d # c
    BY <1>1, <1>5, <2>1, <2>2, <2>4 DEF TurnAt
  <2> QED BY <2>3, <2>4
<1>8. CommandsSuit'
  BY <1>1, <1>5 DEF CommandsSuit, Suits
<1>9. EventsFit'
  <2>1. \A x \in Pending : Fits(x)'
    BY <1>1, <1>5, PendingTyped DEF EventsFit, Fits
  <2>2. Fits(e)'
    BY <1>1, <1>2 DEF Fits, DriverFits
  <2> QED BY <1>4, <2>1, <2>2 DEF EventsFit
<1>10. ResultsFit'
  BY <1>1 DEF ResultsFit, Fits
<1>11. EpisodesFit'
  BY <1>1 DEF EpisodesFit
<1>12. DriverFits'
  <2>1. Quiet => Quiet'
    BY <1>1, <1>2, <1>4 DEF Quiet
  <2> QED BY <1>1, <1>5, <2>1 DEF DriverFits, AllEnded
<1> QED BY <1>4, <1>6, <1>7, <1>8, <1>9, <1>10, <1>11, <1>12

\* An actor that takes its command: it has the observation that an action is for.
LEMMA TakeCommandKeepsPool ==
    ASSUME PoolInv, NEW c \in Clients, TakeCommand(c)
    PROVE  PoolInv'
<1> USE DEF PoolInv
<1>1. /\ actor[c] = "running" /\ task[c] = NoCommand
      /\ command[c].kind \in {"arm", "action"}
      /\ command[c].kind = "action" => observing[c]
  BY DEF TakeCommand, Waiting, CommandsSuit, Suits
<1>2. /\ command' = [command EXCEPT ![c] = NoCommand]
      /\ task' = [task EXCEPT ![c] = command[c]]
      /\ UNCHANGED <<actor, events, observing, episode, split, stopping, driver, awaited, batch,
                     available, results, round, policy, roundsLeft, cause>>
  BY <1>1 DEF TakeCommand, driverVars, roundVars
<1>3. /\ \A d \in Clients : command'[d] = IF d = c THEN NoCommand ELSE command[d]
      /\ \A d \in Clients : task'[d] = IF d = c THEN command[c] ELSE task[d]
      /\ command[c] \in Commands
  BY <1>2 DEF PoolTypeOK
<1>4. TurnAt(c, "command")
  BY <1>1 DEF OneTurn, TurnAt
<1>5. PoolTypeOK'
  BY <1>2, <1>3, CommandsTyped DEF PoolTypeOK
<1>6. OneTurn'
  <2> SUFFICES ASSUME NEW d \in Clients
               PROVE  \E place \in Places : TurnAt(d, place)'
    BY DEF OneTurn
  <2>1. PICK place \in Places : TurnAt(d, place)
    BY DEF OneTurn
  <2>2. CASE d = c
    <3>1. TurnAt(d, "task")'
      BY <1>2, <1>3, <1>4, <2>2, CommandsTyped DEF TurnAt
    <3> QED BY <3>1 DEF Places
  <2>3. CASE d # c
    BY <1>2, <1>3, <2>1, <2>3 DEF TurnAt
  <2> QED BY <2>2, <2>3
<1>7. CommandsSuit'
  BY <1>1, <1>2, <1>3, CommandsTyped DEF CommandsSuit, Suits
<1>8. Pending' = Pending
  BY <1>2 DEF Pending
<1>9. SpeakOnce' /\ EventsFit' /\ ResultsFit' /\ EpisodesFit'
  BY <1>2, <1>8 DEF SpeakOnce, EventsFit, ResultsFit, EpisodesFit, Fits
<1>10. DriverFits'
  <2>1. ~Quiet
    BY <1>1 DEF Quiet
  <2> QED BY <1>2, <2>1 DEF DriverFits, AllEnded
<1> QED BY <1>5, <1>6, <1>7, <1>9, <1>10

\* An actor that is told to stop.
LEMMA TakeStopKeepsPool ==
    ASSUME PoolInv, NEW c \in Clients, TakeStop(c)
    PROVE  PoolInv'
<1> USE DEF PoolInv
<1>1. /\ task[c] = NoCommand /\ command[c].kind = "stop"
      /\ command' = [command EXCEPT ![c] = NoCommand]
      /\ actor' = [actor EXCEPT ![c] = "gone"]
      /\ UNCHANGED <<task, events, observing, episode, split, stopping, driver, awaited, batch,
                     available, results, round, policy, roundsLeft, cause>>
  BY DEF TakeStop, Waiting, driverVars, roundVars
<1>2. /\ \A d \in Clients : command'[d] = IF d = c THEN NoCommand ELSE command[d]
      /\ \A d \in Clients : actor'[d] = IF d = c THEN "gone" ELSE actor[d]
  BY <1>1 DEF PoolTypeOK
<1>3. PoolTypeOK'
  BY <1>1, CommandsTyped DEF PoolTypeOK
<1>4. OneTurn'
  BY <1>1, <1>2, CommandsTyped DEF OneTurn, TurnAt
<1>5. CommandsSuit'
  BY <1>1, <1>2, CommandsTyped DEF CommandsSuit, Suits
<1>6. Pending' = Pending
  BY <1>1 DEF Pending
<1>7. SpeakOnce' /\ EventsFit' /\ ResultsFit' /\ EpisodesFit'
  BY <1>1, <1>2, <1>6, PendingTyped DEF SpeakOnce, EventsFit, ResultsFit, EpisodesFit, Fits
<1>8. DriverFits'
  <2>1. Quiet => Quiet'
    BY <1>1, <1>2, <1>6, CommandsTyped DEF Quiet
  <2> QED BY <1>1, <1>2, <2>1 DEF DriverFits, AllEnded
<1> QED BY <1>3, <1>4, <1>5, <1>7, <1>8

\* An actor that has done its task and says so: what it says fits the round.
LEMMA AnswerKeepsPool ==
    ASSUME PoolInv, NEW c \in Clients, task[c] # NoCommand, NEW e \in Happenings, Put(e),
           e.client = c, e.kind \in {"armed", "step"},
           CommandDone(c),
           observing' \in [Clients -> BOOLEAN],
           episode' \in [Clients -> Nat \X Nat],
           \A d \in Clients \ {c} : observing'[d] = observing[d] /\ episode'[d] = episode[d],
           observing'[c] => round > 0 /\ episode'[c] = <<round, policy>>,
           split' \in Nat,
           Fits(e)',
           UNCHANGED <<command, stopping, driverVars>>
    PROVE  PoolInv'
<1> USE DEF PoolInv
<1>1. /\ task' = [task EXCEPT ![c] = NoCommand]
      /\ actor' \in [Clients -> {"connecting", "running", "gone"}]
      /\ actor'[c] \in {"running", "gone"}
      /\ \A d \in Clients : actor'[d] = actor[d] \/ d = c
      /\ UNCHANGED <<command, driver, awaited, batch, available, results, round, policy, roundsLeft,
                     stopping, cause>>
  BY DEF CommandDone, driverVars, roundVars, PoolTypeOK
<1>2. \A d \in Clients : task'[d] = IF d = c THEN NoCommand ELSE task[d]
  BY <1>1 DEF PoolTypeOK
<1>3. TurnAt(c, "task")
  BY DEF OneTurn, TurnAt
<1>4. /\ events' \in Seq(Happenings)
      /\ \A d : Speaks(events', d) <=> Speaks(events, d) \/ d = c
      /\ SpeakOnce'
      /\ Pending' = Pending \cup {e}
  BY <1>1, <1>3, PutSpeaks DEF TurnAt
<1>5. PoolTypeOK'
  BY <1>1, <1>4, CommandsTyped DEF PoolTypeOK
<1>6. OneTurn'
  <2> SUFFICES ASSUME NEW d \in Clients
               PROVE  \E place \in Places : TurnAt(d, place)'
    BY DEF OneTurn
  <2>1. PICK place \in Places : TurnAt(d, place)
    BY DEF OneTurn
  <2>2. (Speaks(events, d)' <=> Speaks(events, d) \/ d = c) /\ (Speaks(batch, d)' <=> Speaks(batch, d))
    BY <1>1, <1>4
  <2>3. CASE d = c
    <3>1. TurnAt(d, "events")'
      BY <1>1, <1>2, <1>3, <2>2, <2>3 DEF TurnAt
    <3> QED BY <3>1 DEF Places
  <2>4. CASE d # c
    BY <1>1, <1>2, <2>1, <2>2, <2>4 DEF TurnAt
  <2> QED BY <2>3, <2>4
<1>7. CommandsSuit'
  BY <1>1, <1>2, <1>3, CommandsTyped DEF CommandsSuit, Suits, TurnAt
<1>8. \A x \in Pending \cup results : x.kind # "error" => x.client # c
  BY <1>3, PendingIsSaid DEF TurnAt, ResultsFit
<1>9. \A x \in Pending : Fits(x)'
  <2>1. \A x \in Pending : x.kind = "error" => x.client # c
    BY DEF EventsFit, Fits, CommandsSuit
  <2> QED BY <1>1, <1>8, <2>1, PendingTyped DEF EventsFit, Fits
<1>10. EventsFit'
  BY <1>4, <1>9 DEF EventsFit
<1>11. ResultsFit'
  BY <1>1, <1>8, PendingTyped DEF ResultsFit, Fits
<1>12. EpisodesFit'
  BY <1>1, <1>3 DEF EpisodesFit, TurnAt
<1>13. DriverFits'
  <2>1. ~Quiet
    BY DEF Quiet
  <2> QED BY <1>1, <2>1 DEF DriverFits, AllEnded
<1> QED BY <1>4, <1>5, <1>6, <1>7, <1>10, <1>11, <1>12, <1>13

\* An episode that has begun is the one of the current round.
LEMMA ResetKeepsPool ==
    ASSUME PoolInv, NEW c \in Clients, ResetReturns(c)
    PROVE  PoolInv' /\ observing' = [observing EXCEPT ![c] = TRUE]
                    /\ episode' = [episode EXCEPT ![c] = <<round, policy>>]
                    /\ split' \in {split, round}
                    /\ Put(Event(c, "armed", <<round, policy>>, TRUE, FALSE, task[c]))
<1>0. PICK e : e = Event(c, "armed", <<round, policy>>, TRUE, FALSE, task[c])
  OBVIOUS
<1>1. /\ PoolTypeOK
      /\ task[c].kind = "arm" /\ task[c] \in Commands /\ task[c] # NoCommand
      /\ task[c].round = round /\ task[c].policy = policy
      /\ round > 0
  BY CommandsTyped DEF PoolInv, ResetReturns, CommandsSuit, Suits, PoolTypeOK, DriverFits, Quiet
<1>2. /\ observing' = [observing EXCEPT ![c] = TRUE]
      /\ episode' = [episode EXCEPT ![c] = <<round, policy>>]
      /\ CommandDone(c)
      /\ UNCHANGED <<command, stopping, driverVars>>
  BY <1>1 DEF ResetReturns
<1>3. episode'[c] = <<round, policy>> /\ <<round, policy>> \in Nat \X Nat
  BY <1>1, <1>2 DEF PoolTypeOK
<1>4. Put(e)
  BY <1>0, <1>3 DEF ResetReturns
<1>5. /\ e \in Happenings
      /\ e.client = c /\ e.kind = "armed" /\ ~e.ended
      /\ e.round = round /\ e.policy = policy
  <2>1. e \in Happenings
    BY <1>0, <1>1, <1>3, EventsTyped
  <2> QED BY <1>0, <2>1 DEF Event
<1>6. /\ observing' \in [Clients -> BOOLEAN]
      /\ episode' \in [Clients -> Nat \X Nat]
      /\ observing'[c]
      /\ \A d \in Clients \ {c} : observing'[d] = observing[d] /\ episode'[d] = episode[d]
      /\ split' \in {split, round}
      /\ split' \in Nat
  BY <1>1, <1>2, <1>3 DEF PoolTypeOK, ResetReturns
<1>7. Fits(e)'
  BY <1>2, <1>5, <1>6 DEF Fits, driverVars, roundVars
<1>8. PoolInv'
  BY <1>1, <1>2, <1>3, <1>4, <1>5, <1>6, <1>7, AnswerKeepsPool
<1> QED BY <1>2, <1>4, <1>6, <1>8, <1>0

\* An action has been taken in the episode of the current round.
LEMMA StepKeepsPool ==
    ASSUME PoolInv, NEW c \in Clients, NEW ended \in BOOLEAN, StepReturns(c, ended)
    PROVE  PoolInv' /\ observing[c]
<1>0. PICK e : e = Event(c, "step", episode[c], ~ended, ended, task[c])
  OBVIOUS
<1>1. /\ PoolTypeOK
      /\ task[c].kind = "action" /\ task[c] \in Commands /\ task[c] # NoCommand
      /\ task[c].policy = policy
      /\ observing[c] /\ round > 0 /\ episode[c] = <<round, policy>>
  BY CommandsTyped DEF PoolInv, StepReturns, CommandsSuit, Suits, PoolTypeOK, EpisodesFit
<1>2. /\ observing' = [observing EXCEPT ![c] = ~ended]
      /\ Put(e)
      /\ CommandDone(c)
      /\ UNCHANGED <<command, episode, split, stopping, driverVars>>
  BY <1>0 DEF StepReturns
<1>3. /\ e \in Happenings
      /\ e.client = c /\ e.kind = "step" /\ e.ended = ended /\ e.valid = ~ended
      /\ e.round = round /\ e.policy = policy /\ e.by = policy
  <2>1. e \in Happenings
    BY <1>0, <1>1, EventsTyped DEF PoolTypeOK
  <2> QED BY <1>0, <1>1, <2>1 DEF Event
<1>4. /\ observing' \in [Clients -> BOOLEAN]
      /\ observing'[c] = ~ended
      /\ \A d \in Clients \ {c} : observing'[d] = observing[d]
  BY <1>1, <1>2 DEF PoolTypeOK
<1>5. Fits(e)'
  BY <1>2, <1>3, <1>4 DEF Fits, driverVars, roundVars
<1>6. PoolInv'
  <2>1. episode' \in [Clients -> Nat \X Nat] /\ split' \in Nat
    BY <1>1, <1>2 DEF PoolTypeOK
  <2> QED BY <1>1, <1>2, <1>3, <1>4, <1>5, <2>1, AnswerKeepsPool
<1> QED BY <1>1, <1>6

\* The actors keep the pool's invariant.
LEMMA ActorKeepsPool ==
    ASSUME PoolInv, NEW c \in Clients, ThreadStep(c) \/ CallReturns(c) \/ EnvironmentFails(c)
    PROVE  PoolInv'
<1>1. CASE GiveUpConnecting(c)
  BY <1>1, DiesKeepsPool DEF GiveUpConnecting
<1>2. CASE EnvironmentFails(c)
  BY <1>2, DiesKeepsPool DEF EnvironmentFails
<1> QED BY <1>1, <1>2, ConnectKeepsPool, TakeCommandKeepsPool, TakeStopKeepsPool, ResetKeepsPool,
           StepKeepsPool DEF ThreadStep, CallReturns

-----------------------------------------------------------------------------
(* The driving thread *)

\* Whatever a drive is at when it is aborted or over, the invariant holds while the
\* actors are stopped, one after the other.
LEMMA ClosingKeepsPool ==
    ASSUME PoolInv,
           driver' \in {"closing", "closed"}, awaited' \in SUBSET Clients, cause' \in Causes,
           stopping' \in [Clients -> BOOLEAN], command' \in [Clients -> Commands],
           \A c \in Clients : command'[c] = command[c] \/ command'[c] = StopCommand,
           events' = events \/ (events # <<>> /\ events' = Tail(events)),
           UNCHANGED <<actor, task, observing, episode, split, batch, available, results,
                       roundVars>>
    PROVE  PoolInv'
<1> USE DEF PoolInv, roundVars
<1>1. /\ events' \in Seq(Happenings)
      /\ \A c : Speaks(events', c) => Speaks(events, c)
      /\ OnceEach(events')
      /\ Said(events') \subseteq Said(events)
  <2>1. events \in Seq(Happenings) /\ OnceEach(events)
    BY DEF PoolTypeOK, SpeakOnce
  <2>2. CASE events' = events
    BY <2>1, <2>2
  <2>3. CASE events # <<>> /\ events' = Tail(events)
    BY <2>1, <2>3, TailSpeaks
  <2> QED BY <2>2, <2>3
<1>2. Pending' \subseteq Pending
  BY <1>1, PendingIsSaid
<1>3. PoolTypeOK' /\ SpeakOnce'
  BY <1>1 DEF PoolTypeOK, SpeakOnce
<1>4. OneTurn'
  <2> SUFFICES ASSUME NEW c \in Clients
               PROVE  \E place \in Places : TurnAt(c, place)'
    BY DEF OneTurn
  <2>1. PICK place \in Places : TurnAt(c, place)
    BY DEF OneTurn
  <2>2. (Speaks(events, c)' => Speaks(events, c)) /\ (Speaks(batch, c)' <=> Speaks(batch, c))
    BY <1>1
  <2>3. TurnAt(c, place)'
    BY <2>1, <2>2, CommandsTyped DEF TurnAt
  <2> QED BY <2>3
<1>5. CommandsSuit'
  BY CommandsTyped DEF CommandsSuit, Suits
<1>6. EventsFit' /\ ResultsFit' /\ EpisodesFit'
  BY <1>2 DEF EventsFit, ResultsFit, EpisodesFit, Fits
<1>7. DriverFits'
  <2>1. Quiet => Quiet'
    BY <1>2, CommandsTyped DEF Quiet
  <2> QED BY <2>1 DEF DriverFits
<1> QED BY <1>3, <1>4, <1>5, <1>6, <1>7

\* An abortion of the drive.
LEMMA FailKeepsPool ==
    ASSUME PoolInv, NEW why \in Causes, Fail(why), UNCHANGED actorVars,
           events' = events \/ (events # <<>> /\ events' = Tail(events))
    PROVE  PoolInv'
<1>1. command \in [Clients -> Commands] /\ stopping \in [Clients -> BOOLEAN]
  BY DEF PoolInv, PoolTypeOK
<1> QED BY <1>1, ClosingKeepsPool DEF Fail, actorVars

\* The end of the drives.
LEMMA CloseKeepsPool == ASSUME PoolInv, Close PROVE PoolInv'
<1>1. command \in [Clients -> Commands] /\ stopping \in [Clients -> BOOLEAN] /\ cause \in Causes
  BY DEF PoolInv, PoolTypeOK
<1> QED BY <1>1, ClosingKeepsPool DEF Close, actorVars

\* An actor is stopped.
LEMMA StopActorKeepsPool ==
    ASSUME PoolInv, NEW c \in Clients, StopActor(c)
    PROVE  PoolInv'
<1>1. PoolTypeOK
  BY DEF PoolInv
<1>2. /\ stopping' \in [Clients -> BOOLEAN]
      /\ command' \in [Clients -> Commands]
      /\ \A d \in Clients : command'[d] = command[d] \/ command'[d] = StopCommand
  BY <1>1, CommandsTyped DEF StopActor, StopTold, PoolTypeOK
<1>3. driver' \in {"closing", "closed"} /\ awaited' \in SUBSET Clients /\ cause' \in Causes
  BY <1>1 DEF StopActor, PoolTypeOK
<1> QED BY <1>2, <1>3, ClosingKeepsPool DEF StopActor, roundVars

\* The start: each client is ready once, and nothing else is said by one that lives.
LEMMA TakeReadyKeepsPool ==
    ASSUME PoolInv, TakeReady
    PROVE  /\ PoolInv'
           /\ Head(events).kind \in {"ready", "error"}
           /\ \/ cause' = cause
              \/ cause' = "startup"
              \/ cause' = "client" /\ \E c \in Clients : actor[c] = "gone"
<1> USE DEF PoolInv
<1> DEFINE e == Head(events)
<1>1. /\ driver = "starting" /\ round = 0 /\ Quiet /\ batch = <<>>
      /\ events \in Seq(Happenings) /\ events # <<>> /\ events' = Tail(events)
      /\ UNCHANGED <<actor, command, task, observing, episode, split, stopping>>
  BY DEF TakeReady, actorVars, DriverFits, PoolTypeOK
<1>2. /\ e \in Pending /\ e \in Happenings /\ e.client \in Clients
      /\ Tail(events) \in Seq(Happenings)
      /\ \A c : Speaks(events, c) <=> Speaks(Tail(events), c) \/ (e.client = c /\ e.kind # "error")
      /\ OnceEach(Tail(events))
      /\ e.kind = "error" \/ ~Speaks(Tail(events), e.client)
      /\ Pending = Pending' \cup {e}
  <2>1. batch' = batch
    BY DEF TakeReady, Fail
  <2>2. OnceEach(events)
    BY DEF SpeakOnce
  <2>3. Said(events) = Said(events') \cup {e}
    BY <1>1, TailSpeaks
  <2>4. Pending = Pending' \cup {e}
    BY <2>1, <2>3, PendingIsSaid
  <2>5. e \in Happenings /\ e.client \in Clients
    BY <1>1, TailSpeaks DEF Happenings
  <2>6. e \in Pending
    BY <2>4
  <2> HIDE DEF e
  <2> QED BY <1>1, <2>2, <2>4, <2>5, <2>6, TailSpeaks DEF e
<1> HIDE DEF e
<1>3. e.kind = "error" \/ (e.kind = "ready" /\ e.client \in awaited)
  BY <1>1, <1>2 DEF EventsFit, Fits, Quiet
<1>4. CASE e.kind = "error"
  <2>1. Fail("client") /\ UNCHANGED actorVars
    BY <1>4 DEF TakeReady, e
  <2>2. actor[e.client] = "gone"
    BY <1>2, <1>4 DEF EventsFit, Fits
  <2>3. PoolInv'
    BY <1>1, <2>1, FailKeepsPool DEF Causes
  <2> QED BY <1>2, <1>4, <2>1, <2>2, <2>3 DEF Fail, e
<1>5. CASE Fail("startup") /\ UNCHANGED actorVars
  <2>1. PoolInv'
    BY <1>1, <1>5, FailKeepsPool DEF Causes
  <2> QED BY <1>3, <1>5, <2>1 DEF Fail, e
<1>6. CASE /\ e.kind = "ready"
           /\ awaited' = awaited \ {e.client}
           /\ driver' = IF awaited' = {} THEN "idle" ELSE "starting"
           /\ UNCHANGED <<batch, available, results, roundVars, cause>>
  <2>1. /\ e.kind = "ready"
        /\ awaited' = awaited \ {e.client}
        /\ driver' = IF awaited' = {} THEN "idle" ELSE "starting"
        /\ UNCHANGED <<batch, available, results, round, policy, roundsLeft, cause>>
    BY <1>6 DEF roundVars
  <2>2. TurnAt(e.client, "events")
    BY <1>2, <2>1 DEF OneTurn, TurnAt
  <2>3. PoolTypeOK' /\ SpeakOnce'
    BY <1>1, <1>2, <2>1 DEF PoolTypeOK, SpeakOnce
  <2>4. OneTurn'
    <3> SUFFICES ASSUME NEW c \in Clients
                 PROVE  \E place \in Places : TurnAt(c, place)'
      BY DEF OneTurn
    <3>1. PICK place \in Places : TurnAt(c, place)
      BY DEF OneTurn
    <3>2. (Speaks(events, c)' => Speaks(events, c)) /\ (Speaks(batch, c)' <=> Speaks(batch, c))
      BY <1>1, <1>2, <2>1
    <3>3. TurnAt(c, place)'
      BY <1>1, <2>1, <3>1, <3>2 DEF TurnAt
    <3> QED BY <3>3
  <2>5. CommandsSuit' /\ ResultsFit' /\ EpisodesFit'
    BY <1>1, <2>1 DEF CommandsSuit, Suits, ResultsFit, Fits, EpisodesFit
  <2>6. \A x \in Pending' : x.kind = "error" \/ (x.kind = "ready" /\ x.client \in awaited')
    <3>1. \A x \in Pending' : x.kind = "error" \/ Speaks(Tail(events), x.client)
      BY <1>1, <2>1, PendingIsSaid, NobodySpeaks
    <3> QED BY <1>1, <1>2, <2>1, <3>1 DEF EventsFit, Fits, Quiet
  <2>7. EventsFit'
    <3>1. \A x \in Pending' : x.kind = "ready" => driver' = "starting"
      BY <2>1, <2>6
    <3> QED BY <1>1, <1>2, <2>1, <2>6, <3>1 DEF EventsFit, Fits
  <2>8. \A c \in Clients : actor[c] = "connecting" => c \in awaited'
    BY <1>1, <2>1, <2>2 DEF DriverFits, TurnAt
  <2>9. DriverFits'
    <3>1. Quiet'
      BY <1>1, <1>2, <2>1 DEF Quiet
    <3> QED BY <1>1, <2>1, <2>8, <3>1 DEF DriverFits
  <2> QED BY <2>1, <2>3, <2>4, <2>5, <2>7, <2>9 DEF e
<1>7. \/ e.kind = "error"
      \/ Fail("startup") /\ UNCHANGED actorVars
      \/ /\ e.kind = "ready"
         /\ awaited' = awaited \ {e.client}
         /\ driver' = IF awaited' = {} THEN "idle" ELSE "starting"
         /\ UNCHANGED <<batch, available, results, roundVars, cause>>
  BY <1>3 DEF TakeReady, e
<1> QED BY <1>4, <1>5, <1>6, <1>7

\* Between two rounds nothing is under way: nobody plays, or speaks but of its end.
LEMMA BetweenRounds ==
    ASSUME PoolInv, driver = "boundary" \/ driver = "idle"
    PROVE  /\ batch = <<>>
           /\ \A e \in Pending : e.kind = "error"
           /\ \A c \in Clients :
                /\ actor[c] # "connecting"
                /\ ~observing[c]
                /\ command[c] = NoCommand
                /\ task[c] = NoCommand
                /\ ~Speaks(events, c)
                /\ ~Speaks(batch, c)
                /\ available[c] = "none"
<1> USE DEF PoolInv
<1>1. batch = <<>> /\ Pending = Said(events)
  BY PendingIsSaid, NobodySpeaks DEF DriverFits
<1>2. \A e \in Pending : e.kind # "ready"
  BY DEF EventsFit, Fits
<1>3. ASSUME NEW c \in Clients
      PROVE  /\ actor[c] # "connecting"
             /\ command[c].kind \notin {"arm", "action"}
             /\ task[c] = NoCommand
             /\ ~Speaks(events, c)
             /\ ~Speaks(batch, c)
             /\ available[c] = "none"
             /\ ~observing[c]
  <2>1. actor[c] # "connecting" /\ ~Speaks(batch, c)
    BY <1>1, NobodySpeaks DEF DriverFits
  <2>2. CASE round = 0
    <3>1. \A i \in DOMAIN events : events[i] \in Pending
      BY <1>1 DEF Said
    <3>2. ~Speaks(events, c)
      BY <1>2, <2>2, <3>1 DEF DriverFits, Quiet, Speaks
    <3> QED BY <2>1, <2>2, <3>2 DEF DriverFits, Quiet, EpisodesFit
  <2>3. CASE round # 0
    <3>1. round > 0
      BY <2>3 DEF PoolTypeOK
    <3>2. PICK r \in results : r.client = c
      BY <3>1 DEF DriverFits, AllEnded
    <3>3. TurnAt(c, "results")
      BY <3>2 DEF OneTurn, TurnAt
    <3>4. ~observing[c]
      BY <3>2 DEF ResultsFit, Fits, PoolTypeOK, Happenings
    <3> QED BY <2>1, <3>3, <3>4 DEF TurnAt
  <2> QED BY <2>2, <2>3
<1>4. \A c \in Clients : command[c] = NoCommand
  BY <1>3, CommandsTyped DEF CommandsSuit, PoolTypeOK, Commands
<1>5. \A e \in Pending : e.kind = "error"
  BY <1>1, <1>3, PendingIsSaid, PendingTyped
<1> QED BY <1>1, <1>3, <1>4, <1>5

\* A round begins with everyone to be armed.
LEMMA BeginRoundKeepsPool ==
    ASSUME PoolInv, driver = "boundary" \/ driver = "idle",
           NEW v \in Versions, BeginRound(v), roundsLeft' \in Nat
    PROVE  PoolInv'
<1> USE DEF PoolInv
<1>1. /\ round' = round + 1 /\ round' > 0 /\ round' \in Nat
      /\ policy' = v /\ policy' \in Versions /\ policy' \in Nat
      /\ driver' = "arming" /\ awaited' = Clients /\ available' = NoneAvailable /\ results' = {}
      /\ UNCHANGED <<actor, command, task, observing, episode, split, stopping, events, batch,
                     cause>>
  BY PoolAssumption DEF BeginRound, actorVars, PoolTypeOK
<1>2. \A c \in Clients : available'[c] = "none"
  BY <1>1 DEF NoneAvailable
<1>3. PoolTypeOK'
  BY <1>1 DEF PoolTypeOK, NoneAvailable
<1>4. OneTurn'
  <2> SUFFICES ASSUME NEW c \in Clients
               PROVE  \E place \in Places : TurnAt(c, place)'
    BY DEF OneTurn
  <2>1. (Speaks(events, c)' <=> Speaks(events, c)) /\ (Speaks(batch, c)' <=> Speaks(batch, c))
    BY <1>1
  <2>2. TurnAt(c, "awaited")'
    BY <1>1, <1>2, <2>1, BetweenRounds, CommandsTyped DEF TurnAt
  <2> QED BY <2>2 DEF Places
<1>5. Pending' = Pending
  BY <1>1 DEF Pending
<1>6. CommandsSuit'
  BY <1>1, BetweenRounds, CommandsTyped DEF CommandsSuit, Suits
<1>7. EventsFit'
  BY <1>1, <1>5, BetweenRounds DEF EventsFit, Fits
<1>8. SpeakOnce' /\ ResultsFit' /\ EpisodesFit'
  BY <1>1, <1>2, BetweenRounds DEF SpeakOnce, ResultsFit, EpisodesFit
<1>9. DriverFits'
  BY <1>1, BetweenRounds DEF DriverFits
<1> QED BY <1>3, <1>4, <1>6, <1>7, <1>8, <1>9

\* The queue of a client that is to be armed is empty.
LEMMA SubmitArmKeepsPool ==
    ASSUME PoolInv, NEW c \in Clients, SubmitArm(c)
    PROVE  PoolInv' /\ cause' = cause
<1> USE DEF PoolInv
<1>1. driver = "arming" /\ c \in awaited
  BY DEF SubmitArm
<1>2. TurnAt(c, "awaited")
  BY <1>1 DEF OneTurn, TurnAt
<1>3. command[c] = NoCommand
  BY <1>1, <1>2, CommandsTyped DEF TurnAt, CommandsSuit, PoolTypeOK, Commands
<1>4. /\ command' = [command EXCEPT ![c] = ArmCommand]
      /\ awaited' = awaited \ {c}
      /\ driver' \in {"collecting", "arming"}
      /\ UNCHANGED <<actor, task, observing, episode, split, stopping, events, batch, available,
                     results, round, policy, roundsLeft, cause>>
  BY <1>1, <1>3 DEF SubmitArm, Submit, roundVars
<1>5. /\ ArmCommand \in Commands /\ ArmCommand.kind = "arm" /\ ~ArmCommand.start
      /\ ArmCommand.round = round /\ ArmCommand.policy = policy
  BY DEF ArmCommand, Command, Commands, PoolTypeOK
<1>6. \A d \in Clients : command'[d] = IF d = c THEN ArmCommand ELSE command[d]
  BY <1>4 DEF PoolTypeOK
<1>7. PoolTypeOK'
  BY <1>4, <1>5 DEF PoolTypeOK
<1>8. OneTurn'
  <2> SUFFICES ASSUME NEW d \in Clients
               PROVE  \E place \in Places : TurnAt(d, place)'
    BY DEF OneTurn
  <2>1. PICK place \in Places : TurnAt(d, place)
    BY DEF OneTurn
  <2>2. (Speaks(events, d)' <=> Speaks(events, d)) /\ (Speaks(batch, d)' <=> Speaks(batch, d))
    BY <1>4
  <2>3. CASE d = c
    <3>1. TurnAt(d, "command")'
      BY <1>2, <1>4, <2>2, <2>3 DEF TurnAt
    <3> QED BY <3>1 DEF Places
  <2>4. CASE d # c
    BY <1>1, <1>4, <1>6, <2>1, <2>2, <2>4 DEF TurnAt
  <2> QED BY <2>3, <2>4
<1>9. CommandsSuit'
  BY <1>1, <1>4, <1>5, <1>6 DEF CommandsSuit, Suits, EpisodesFit
<1>10. Pending' = Pending
  BY <1>4 DEF Pending
<1>11. SpeakOnce' /\ EventsFit' /\ ResultsFit' /\ EpisodesFit'
  BY <1>1, <1>4, <1>10 DEF SpeakOnce, EventsFit, ResultsFit, EpisodesFit, Fits
<1>12. DriverFits'
  BY <1>1, <1>4 DEF DriverFits, PoolTypeOK
<1> QED BY <1>4, <1>7, <1>8, <1>9, <1>11, <1>12

\* The queue of a client that has an observation to answer is empty.
LEMMA SubmitActionKeepsPool ==
    ASSUME PoolInv, NEW c \in Clients, SubmitAction(c)
    PROVE  PoolInv' /\ cause' = cause
<1> USE DEF PoolInv
<1>1. driver = "acting" /\ available[c] # "none"
  BY DEF SubmitAction
<1>2. TurnAt(c, "available")
  BY <1>1 DEF OneTurn, TurnAt
<1>3. command[c] = NoCommand
  BY <1>1, <1>2, CommandsTyped DEF TurnAt, CommandsSuit, PoolTypeOK, Commands
<1>4. /\ command' = [command EXCEPT ![c] = ActionCommand(c)]
      /\ available' = [available EXCEPT ![c] = "none"]
      /\ driver' \in {"collecting", "acting"}
      /\ UNCHANGED <<actor, task, observing, episode, split, stopping, events, awaited, batch,
                     results, round, policy, roundsLeft, cause>>
  BY <1>1, <1>3 DEF SubmitAction, Submit, roundVars
<1>5. /\ ActionCommand(c) \in Commands /\ ActionCommand(c).kind = "action"
      /\ ActionCommand(c).policy = policy
  BY DEF ActionCommand, Command, Commands, PoolTypeOK
<1>6. /\ \A d \in Clients : command'[d] = IF d = c THEN ActionCommand(c) ELSE command[d]
      /\ \A d \in Clients : available'[d] = IF d = c THEN "none" ELSE available[d]
  BY <1>4 DEF PoolTypeOK
<1>7. PoolTypeOK'
  BY <1>4, <1>5 DEF PoolTypeOK
<1>8. OneTurn'
  <2> SUFFICES ASSUME NEW d \in Clients
               PROVE  \E place \in Places : TurnAt(d, place)'
    BY DEF OneTurn
  <2>1. PICK place \in Places : TurnAt(d, place)
    BY DEF OneTurn
  <2>2. (Speaks(events, d)' <=> Speaks(events, d)) /\ (Speaks(batch, d)' <=> Speaks(batch, d))
    BY <1>4
  <2>3. CASE d = c
    <3>1. TurnAt(d, "command")'
      BY <1>2, <1>4, <1>6, <2>2, <2>3 DEF TurnAt
    <3> QED BY <3>1 DEF Places
  <2>4. CASE d # c
    BY <1>1, <1>4, <1>6, <2>1, <2>2, <2>4 DEF TurnAt
  <2> QED BY <2>3, <2>4
<1>9. CommandsSuit'
  BY <1>1, <1>4, <1>5, <1>6 DEF CommandsSuit, Suits, EpisodesFit
<1>10. Pending' = Pending
  BY <1>4 DEF Pending
<1>11. SpeakOnce' /\ EventsFit' /\ ResultsFit' /\ EpisodesFit'
  BY <1>1, <1>4, <1>6, <1>10 DEF SpeakOnce, EventsFit, ResultsFit, EpisodesFit, Fits
<1>12. DriverFits'
  BY <1>1, <1>4 DEF DriverFits, PoolTypeOK
<1> QED BY <1>4, <1>7, <1>8, <1>9, <1>11, <1>12

\* What is on its way is taken into the hands of the driving thread.
LEMMA TakeEventsKeepsPool ==
    ASSUME PoolInv, TakeEvents
    PROVE  PoolInv' /\ cause' = cause
<1> USE DEF PoolInv
<1>1. /\ driver = "collecting" /\ batch = <<>> /\ round > 0
      /\ batch' = events /\ events' = <<>> /\ driver' = "handling"
      /\ UNCHANGED <<actor, command, task, observing, episode, split, stopping, awaited, available,
                     results, round, policy, roundsLeft, cause>>
  BY DEF TakeEvents, actorVars, roundVars, DriverFits
<1>2. PoolTypeOK'
  BY <1>1 DEF PoolTypeOK
<1>3. SpeakOnce'
  BY <1>1, NobodySpeaks DEF SpeakOnce
<1>4. OneTurn'
  <2> SUFFICES ASSUME NEW c \in Clients
               PROVE  \E place \in Places : TurnAt(c, place)'
    BY DEF OneTurn
  <2>1. PICK place \in Places : TurnAt(c, place)
    BY DEF OneTurn
  <2>2. (Speaks(batch, c)' <=> Speaks(events, c)) /\ ~Speaks(events, c)' /\ ~Speaks(batch, c)
    BY <1>1, NobodySpeaks
  <2>3. CASE Speaks(events, c)
    <3>1. TurnAt(c, "batch")'
      BY <1>1, <2>1, <2>2, <2>3 DEF TurnAt
    <3> QED BY <3>1 DEF Places
  <2>4. CASE ~Speaks(events, c)
    BY <1>1, <2>1, <2>2, <2>4 DEF TurnAt
  <2> QED BY <2>3, <2>4
<1>5. Pending' = Pending
  BY <1>1, PendingIsSaid
<1>6. CommandsSuit' /\ EventsFit' /\ ResultsFit' /\ EpisodesFit'
  BY <1>1, <1>5 DEF CommandsSuit, Suits, EventsFit, ResultsFit, EpisodesFit, Fits
<1>7. DriverFits'
  BY <1>1 DEF DriverFits, PoolTypeOK
<1> QED BY <1>1, <1>2, <1>3, <1>4, <1>6, <1>7

\* The event that is handled is taken from the batch.
LEMMA HandledIsTaken ==
    ASSUME PoolInv, NextEvent, batch' = Tail(batch), UNCHANGED events
    PROVE  /\ Handled \in Pending /\ Handled \in Happenings /\ Handled.client \in Clients
           /\ batch' \in Seq(Happenings)
           /\ SpeakOnce'
           /\ \A c : Speaks(batch, c) <=>
                Speaks(batch', c) \/ (Handled.client = c /\ Handled.kind # "error")
           /\ Handled.kind = "error" \/ ~Speaks(batch', Handled.client)
           /\ Pending = Pending' \cup {Handled}
<1> DEFINE e == Handled
<1>1. batch \in Seq(Happenings) /\ batch # <<>> /\ OnceEach(batch) /\ OnceEach(events)
  BY DEF PoolInv, PoolTypeOK, NextEvent, SpeakOnce
<1>2. e = Head(batch)
  BY DEF Handled
<1> HIDE DEF e
<1>3. Said(batch) = Said(batch') \cup {e}
  BY <1>1, <1>2, TailSpeaks
<1>4. Pending = Pending' \cup {e}
  BY <1>3, PendingIsSaid
<1>5. e \in Happenings /\ e.client \in Clients
  BY <1>1, <1>2, TailSpeaks DEF Happenings
<1>6. OnceEach(batch') /\ batch' \in Seq(Happenings)
      /\ (e.kind = "error" \/ ~Speaks(batch', e.client))
  BY <1>1, <1>2, TailSpeaks
<1>7. SpeakOnce'
  BY <1>1, <1>6 DEF SpeakOnce
<1>8. \A c : Speaks(batch, c) <=> Speaks(batch', c) \/ (e.client = c /\ e.kind # "error")
  BY <1>1, <1>2, TailSpeaks
<1>9. e \in Pending
  BY <1>4
<1> QED BY <1>4, <1>5, <1>6, <1>7, <1>8, <1>9 DEF e

\* An episode that was armed for this round is to be acted in.
LEMMA HandleArmedKeepsPool ==
    ASSUME PoolInv, HandleArmed
    PROVE  PoolInv' /\ cause' = cause
<1> USE DEF PoolInv
<1>1. PICK c : c = Handled.client
  OBVIOUS
<1>2. /\ driver = "handling" /\ Handled.kind = "armed"
      /\ batch' = Tail(batch)
      /\ available' = [available EXCEPT ![c] = "first"]
      /\ UNCHANGED <<actor, command, task, observing, episode, split, stopping, events, driver,
                     awaited, results, round, policy, roundsLeft, cause>>
  BY <1>1 DEF HandleArmed, NextEvent, actorVars, roundVars
<1>3. /\ Handled \in Pending /\ c \in Clients
      /\ batch' \in Seq(Happenings)
      /\ SpeakOnce'
      /\ \A d : Speaks(batch, d) <=> Speaks(batch', d) \/ c = d
      /\ ~Speaks(batch', c)
      /\ Pending' \subseteq Pending
  BY <1>1, <1>2, HandledIsTaken DEF HandleArmed
<1>4. TurnAt(c, "batch")
  BY <1>3 DEF OneTurn, TurnAt
<1>5. observing[c]
  BY <1>1, <1>2, <1>3 DEF EventsFit, Fits
<1>6. \A d \in Clients : available'[d] = IF d = c THEN "first" ELSE available[d]
  BY <1>2 DEF PoolTypeOK
<1>7. PoolTypeOK'
  BY <1>2, <1>3 DEF PoolTypeOK
<1>8. OneTurn'
  <2> SUFFICES ASSUME NEW d \in Clients
               PROVE  \E place \in Places : TurnAt(d, place)'
    BY DEF OneTurn
  <2>1. PICK place \in Places : TurnAt(d, place)
    BY DEF OneTurn
  <2>2. /\ Speaks(events, d)' <=> Speaks(events, d)
        /\ Speaks(batch, d)' <=> Speaks(batch, d) /\ d # c
    BY <1>2, <1>3
  <2>3. CASE d = c
    <3>1. TurnAt(d, "available")'
      BY <1>2, <1>4, <2>2, <2>3 DEF TurnAt
    <3> QED BY <3>1 DEF Places
  <2>4. CASE d # c
    BY <1>2, <1>6, <2>1, <2>2, <2>4 DEF TurnAt
  <2> QED BY <2>3, <2>4
<1>9. CommandsSuit' /\ EventsFit' /\ ResultsFit'
  BY <1>2, <1>3 DEF CommandsSuit, Suits, EventsFit, ResultsFit, Fits
<1>10. EpisodesFit'
  BY <1>2, <1>5, <1>6 DEF EpisodesFit
<1>11. DriverFits'
  BY <1>2 DEF DriverFits, PoolTypeOK
<1> QED BY <1>2, <1>3, <1>7, <1>8, <1>9, <1>10, <1>11

\* A step that was taken in this round leads to a next one, or to a result.
LEMMA HandleStepKeepsPool ==
    ASSUME PoolInv, HandleStep
    PROVE  PoolInv' /\ cause' = cause
<1> USE DEF PoolInv
<1>0. PICK c : c = Handled.client
  OBVIOUS
<1>1. PICK e : e = Handled
  OBVIOUS
<1>2. /\ driver = "handling" /\ e.kind = "step" /\ e.client = c
      /\ batch' = Tail(batch)
      /\ UNCHANGED <<actor, command, task, observing, episode, split, stopping, events, driver,
                     awaited, round, policy, roundsLeft, cause>>
      /\ IF e.ended
         THEN results' = results \cup {e} /\ UNCHANGED available
         ELSE available' = [available EXCEPT ![c] = "next"] /\ UNCHANGED results
  BY <1>0, <1>1 DEF HandleStep, NextEvent, actorVars, roundVars
<1>3. /\ e \in Pending /\ e \in Happenings /\ c \in Clients
      /\ batch' \in Seq(Happenings)
      /\ SpeakOnce'
      /\ \A d : Speaks(batch, d) <=> Speaks(batch', d) \/ c = d
      /\ ~Speaks(batch', c)
      /\ Pending' \subseteq Pending
  BY <1>0, <1>1, <1>2, HandledIsTaken DEF HandleStep
<1>4. TurnAt(c, "batch")
  BY <1>3 DEF OneTurn, TurnAt
<1>5. Fits(e) /\ Fits(e)' /\ observing[c] = ~e.ended
  BY <1>2, <1>3 DEF EventsFit, Fits
<1>6. PoolTypeOK'
  BY <1>2, <1>3 DEF PoolTypeOK
<1>7. \A d \in Clients \ {c} : /\ available'[d] = available[d]
                               /\ \A r \in results' : r.client = d => r \in results
  BY <1>2 DEF PoolTypeOK
<1>8. OneTurn'
  <2> SUFFICES ASSUME NEW d \in Clients
               PROVE  \E place \in Places : TurnAt(d, place)'
    BY DEF OneTurn
  <2>1. PICK place \in Places : TurnAt(d, place)
    BY DEF OneTurn
  <2>2. /\ Speaks(events, d)' <=> Speaks(events, d)
        /\ Speaks(batch, d)' <=> Speaks(batch, d) /\ d # c
    BY <1>2, <1>3
  <2>3. CASE d = c /\ e.ended
    <3>1. TurnAt(d, "results")'
      BY <1>2, <1>4, <2>2, <2>3 DEF TurnAt
    <3> QED BY <3>1 DEF Places
  <2>4. CASE d = c /\ ~e.ended
    <3>1. TurnAt(d, "available")'
      BY <1>2, <1>4, <2>2, <2>4 DEF TurnAt
    <3> QED BY <3>1 DEF Places
  <2>5. CASE d # c
    BY <1>2, <1>7, <2>1, <2>2, <2>5 DEF TurnAt
  <2> QED BY <2>3, <2>4, <2>5
<1>9. CommandsSuit' /\ EventsFit'
  BY <1>2, <1>3 DEF CommandsSuit, Suits, EventsFit, Fits
<1>10. ResultsFit'
  <2>1. \A r \in results : Fits(r)'
    BY <1>2 DEF ResultsFit, Fits
  <2> QED BY <1>2, <1>5, <2>1 DEF ResultsFit
<1>11. EpisodesFit'
  <2>1. available'[c] # "none" => observing[c]
    BY <1>2, <1>3, <1>4, <1>5 DEF TurnAt, PoolTypeOK
  <2> QED BY <1>2, <1>7, <2>1 DEF EpisodesFit
<1>12. DriverFits'
  BY <1>2 DEF DriverFits, PoolTypeOK
<1> QED BY <1>2, <1>3, <1>6, <1>8, <1>9, <1>10, <1>11, <1>12

\* Nothing but the error of a client that is gone aborts a drive that handles events.
LEMMA HandleFailureKeepsPool ==
    ASSUME PoolInv, HandleFailure
    PROVE  PoolInv' /\ Handled.kind = "error" /\ Fail("client") /\ actor[Handled.client] = "gone"
                    /\ Handled.client \in Clients
<1>1. /\ driver = "handling" /\ batch # <<>> /\ batch \in Seq(Happenings)
  BY DEF PoolInv, PoolTypeOK, HandleFailure, NextEvent
<1>2. Handled \in Pending
  <2>1. Handled \in Said(batch)
    BY <1>1 DEF Handled, Said
  <2> QED BY <2>1, PendingIsSaid
<1>3. Fits(Handled) /\ Handled.client \in Clients
  BY <1>2, PendingTyped DEF PoolInv, EventsFit
<1>4. Handled.kind = "error" /\ Fail("client") /\ actor[Handled.client] = "gone"
  BY <1>1, <1>3 DEF HandleFailure, Fits
<1>5. PoolInv'
  BY <1>4, FailKeepsPool DEF HandleFailure, Causes
<1> QED BY <1>3, <1>4, <1>5

\* A batch has been handled and the round is not over.
LEMMA FinishBatchKeepsPool ==
    ASSUME PoolInv, FinishBatch
    PROVE  PoolInv' /\ cause' = cause
<1> USE DEF PoolInv
<1>1. /\ driver = "handling" /\ batch = <<>> /\ driver' \in {"acting", "collecting"}
      /\ UNCHANGED <<actor, command, task, observing, episode, split, stopping, events, awaited,
                     batch, available, results, round, policy, roundsLeft, cause>>
  BY DEF FinishBatch, BatchHandled, actorVars, roundVars
<1>2. PoolTypeOK' /\ SpeakOnce'
  BY <1>1 DEF PoolTypeOK, SpeakOnce
<1>3. OneTurn' /\ CommandsSuit' /\ EpisodesFit'
  BY <1>1 DEF OneTurn, TurnAt, CommandsSuit, Suits, EpisodesFit, Speaks
<1>4. Pending' = Pending
  BY <1>1 DEF Pending
<1>5. EventsFit' /\ ResultsFit'
  BY <1>1, <1>4 DEF EventsFit, ResultsFit, Fits
<1>6. DriverFits'
  BY <1>1 DEF DriverFits, PoolTypeOK
<1> QED BY <1>1, <1>2, <1>3, <1>5, <1>6

\* Between a round's last step and its end, and after it.
LEMMA RestKeepsPool ==
    ASSUME PoolInv, batch = <<>>, driver \in {"handling", "boundary"},
           driver' \in {"boundary", "idle"}, AllEnded,
           UNCHANGED <<actorVars, events, awaited, batch, available, results, roundVars, cause>>
    PROVE  PoolInv'
<1> USE DEF PoolInv, actorVars, roundVars
<1>1. PoolTypeOK' /\ SpeakOnce'
  BY DEF PoolTypeOK, SpeakOnce
<1>2. OneTurn' /\ CommandsSuit' /\ EpisodesFit'
  BY DEF OneTurn, TurnAt, CommandsSuit, Suits, EpisodesFit, Speaks
<1>3. Pending' = Pending
  BY DEF Pending
<1>4. EventsFit' /\ ResultsFit'
  BY <1>3 DEF EventsFit, ResultsFit, Fits
<1>5. DriverFits'
  BY DEF DriverFits, AllEnded, PoolTypeOK
<1> QED BY <1>1, <1>2, <1>4, <1>5

\* The results of a round that has ended are of that round and its policy, and refused
\* only for rounds of the server that differ.
LEMMA FinishRoundKeepsPool ==
    ASSUME PoolInv, FinishRound
    PROVE  /\ PoolInv'
           /\ UNCHANGED <<actorVars, round>>
           /\ cause' = cause \/ (cause' = "refused" /\ split = round)
<1>1. ResultsAgree
  BY DEF PoolInv, ResultsFit, Fits, ResultsAgree
<1>2. batch = <<>> /\ driver = "handling" /\ AllEnded /\ UNCHANGED <<actorVars, events>>
  BY DEF FinishRound, BatchHandled
<1>3. CASE /\ driver' = "boundary"
           /\ UNCHANGED <<awaited, batch, available, results, roundVars, cause>>
  BY <1>2, <1>3, RestKeepsPool DEF roundVars
<1>4. CASE MayContradict /\ Fail("refused")
  BY <1>2, <1>4, FailKeepsPool DEF MayContradict, Fail, Causes, roundVars
<1> QED BY <1>1, <1>3, <1>4 DEF FinishRound

\* A drive is over.
LEMMA EndDriveKeepsPool ==
    ASSUME PoolInv, driver = "boundary", EndDrive
    PROVE  PoolInv'
  BY RestKeepsPool DEF EndDrive, PoolInv, DriverFits

\* Nothing is there in time.
LEMMA TimeoutKeepsPool ==
    ASSUME PoolInv, StartupTimesOut
    PROVE  PoolInv' /\ cause' = "startup" /\ UNCHANGED actor
  BY FailKeepsPool DEF StartupTimesOut, Fail, Causes, actorVars

\* Why a drive was aborted stays so, whatever the actors do next.
LEMMA CauseStays ==
    ASSUME AbortsHaveCause, UNCHANGED <<actor, split, round, cause>>
    PROVE  AbortsHaveCause'
  BY DEF AbortsHaveCause

\* A drive that begins a round was not aborted.
LEMMA BeginRoundKeepsCause ==
    ASSUME PoolInv, AbortsHaveCause, NEW v, BeginRound(v), driver \in {"idle", "boundary"}
    PROVE  AbortsHaveCause'
  BY DEF PoolInv, DriverFits, BeginRound, AbortsHaveCause

\* What a drive does keeps the pool's invariant, whoever asked for it, and is only
\* aborted for a client that is gone, the start, or a round that is split.
LEMMA DriverKeepsPool ==
    ASSUME PoolInv, AbortsHaveCause, DriverStep \/ HandleStep \/ StartupTimesOut
    PROVE  PoolInv' /\ AbortsHaveCause'
<1> USE DEF actorVars, roundVars
<1>1. CASE TakeReady
  <2>1. UNCHANGED <<actor, split, round>>
    BY <1>1 DEF TakeReady, Fail
  <2> QED BY <1>1, <2>1, TakeReadyKeepsPool DEF AbortsHaveCause
<1>2. CASE \E c \in Clients : SubmitArm(c)
  BY <1>2, SubmitArmKeepsPool, CauseStays DEF SubmitArm, Fail
<1>3. CASE \E c \in Clients : SubmitAction(c)
  BY <1>3, SubmitActionKeepsPool, CauseStays DEF SubmitAction, Fail
<1>4. CASE \E c \in Clients : StopActor(c)
  BY <1>4, StopActorKeepsPool, CauseStays DEF StopActor
<1>5. CASE TakeEvents
  BY <1>5, TakeEventsKeepsPool, CauseStays DEF TakeEvents
<1>6. CASE HandleArmed
  BY <1>6, HandleArmedKeepsPool, CauseStays DEF HandleArmed
<1>7. CASE HandleFailure
  <2>1. UNCHANGED actor
    BY <1>7 DEF HandleFailure
  <2>2. PoolInv' /\ cause' = "client" /\ \E c \in Clients : actor[c] = "gone"
    BY <1>7, HandleFailureKeepsPool DEF Fail
  <2> QED BY <2>1, <2>2 DEF AbortsHaveCause
<1>8. CASE FinishBatch
  BY <1>8, FinishBatchKeepsPool, CauseStays DEF FinishBatch
<1>9. CASE FinishRound
  BY <1>9, FinishRoundKeepsPool DEF AbortsHaveCause
<1>10. CASE HandleStep
  BY <1>10, HandleStepKeepsPool, CauseStays DEF HandleStep
<1>11. CASE StartupTimesOut
  BY <1>11, TimeoutKeepsPool DEF AbortsHaveCause
<1> QED BY <1>1, <1>2, <1>3, <1>4, <1>5, <1>6, <1>7, <1>8, <1>9, <1>10, <1>11 DEF DriverStep

\* An actor that is gone stays so, and actors abort nothing.
LEMMA ActorKeepsCause ==
    ASSUME PoolInv, AbortsHaveCause,
           NEW c \in Clients, ThreadStep(c) \/ CallReturns(c) \/ EnvironmentFails(c)
    PROVE  AbortsHaveCause'
<1>1. cause' = cause
  BY DEF ThreadStep, CallReturns, Connect, GiveUpConnecting, TakeCommand, TakeStop, ResetReturns,
         StepReturns, EnvironmentFails, driverVars
<1>2. /\ actor \in [Clients -> {"connecting", "running", "gone"}]
      /\ task[c] # NoCommand => actor[c] = "running"
  BY DEF PoolInv, PoolTypeOK, CommandsSuit
<1>3. ASSUME NEW d \in Clients, actor[d] = "gone"
      PROVE  actor'[d] = "gone"
  <2>1. CASE ResetReturns(c) \/ \E ended \in BOOLEAN : StepReturns(c, ended)
    <3>1. task[c].kind # "none"
      BY <2>1 DEF ResetReturns, StepReturns
    <3>2. d # c
      BY <1>2, <1>3, <3>1, CommandsTyped
    <3> QED BY <1>2, <1>3, <2>1, <3>2 DEF ResetReturns, StepReturns, CommandDone
  <2>2. CASE ThreadStep(c) \/ EnvironmentFails(c)
    BY <1>2, <1>3, <2>2 DEF ThreadStep, Connect, GiveUpConnecting, TakeCommand, TakeStop,
                            EnvironmentFails, Dies
  <2> QED BY <2>1, <2>2 DEF CallReturns
<1>4. round' = round /\ (split' = split \/ split' = round)
  <2>1. CASE ResetReturns(c)
    BY <2>1, ResetKeepsPool DEF ResetReturns, driverVars, roundVars
  <2>2. CASE ~ResetReturns(c)
    BY <2>2 DEF ThreadStep, CallReturns, Connect, GiveUpConnecting, TakeCommand, TakeStop,
                StepReturns, EnvironmentFails, driverVars, roundVars
  <2> QED BY <2>1, <2>2
<1> QED BY <1>1, <1>3, <1>4 DEF AbortsHaveCause

\* Every step of the pool keeps its invariant.
LEMMA StepPoolInv ==
    ASSUME PoolInv, AbortsHaveCause, [PoolNext]_poolVars
    PROVE  PoolInv' /\ AbortsHaveCause'
<1>1. CASE \E c \in Clients : ThreadStep(c) \/ CallReturns(c) \/ EnvironmentFails(c)
  BY <1>1, ActorKeepsPool, ActorKeepsCause
<1>2. CASE DriverStep \/ HandleStep \/ StartupTimesOut
  BY <1>2, DriverKeepsPool
<1>3. ASSUME NEW v \in Versions, Drive(v)
      PROVE  PoolInv' /\ AbortsHaveCause'
  <2>1. BeginRound(v) /\ driver = "idle" /\ roundsLeft' \in Nat
    BY <1>3, PoolAssumption DEF Drive
  <2> QED BY <2>1, BeginRoundKeepsPool, BeginRoundKeepsCause
<1>4. CASE EvaluationBoundary
  <2>1. driver = "boundary" /\ roundsLeft \in Nat /\ policy \in Versions
    BY <1>4 DEF EvaluationBoundary, PoolInv, PoolTypeOK, DriverFits
  <2>2. CASE roundsLeft = 1 /\ EndDrive
    BY <2>1, <2>2, EndDriveKeepsPool, CauseStays DEF EndDrive, actorVars, roundVars
  <2>3. CASE roundsLeft > 1 /\ BeginRound(policy) /\ roundsLeft' = roundsLeft - 1
    <3>1. roundsLeft' \in Nat
      BY <2>1, <2>3
    <3> QED BY <2>1, <2>3, <3>1, BeginRoundKeepsPool, BeginRoundKeepsCause
  <2> QED BY <1>4, <2>2, <2>3 DEF EvaluationBoundary
<1>5. CASE Close
  BY <1>5, CloseKeepsPool, CauseStays DEF Close, actorVars, roundVars
<1>6. CASE UNCHANGED poolVars
  <2>1. UNCHANGED <<actor, command, task, observing, episode, split, stopping, events, driver,
                    awaited, batch, available, results, round, policy, roundsLeft, cause>>
    BY <1>6 DEF poolVars, actorVars, driverVars, roundVars
  <2>2. Pending' = Pending
    BY <2>1 DEF Pending
  <2>3. PoolTypeOK' /\ OneTurn' /\ SpeakOnce' /\ CommandsSuit'
    BY <2>1 DEF PoolInv, PoolTypeOK, OneTurn, TurnAt, SpeakOnce, CommandsSuit, Suits
  <2>4. EventsFit' /\ ResultsFit' /\ EpisodesFit' /\ DriverFits'
    BY <2>1, <2>2 DEF PoolInv, EventsFit, ResultsFit, Fits, EpisodesFit, DriverFits, Quiet, AllEnded
  <2> QED BY <2>1, <2>3, <2>4 DEF PoolInv, AbortsHaveCause
<1> QED BY <1>1, <1>2, <1>3, <1>4, <1>5, <1>6 DEF PoolNext

\* The pool's invariant holds throughout an evaluation.
THEOREM PoolInvariant == PoolSpec => [](PoolInv /\ AbortsHaveCause)
<1>1. PoolInit => PoolInv /\ AbortsHaveCause
  BY InitPoolInv DEF PoolInit, AbortsHaveCause
<1>2. PoolInv /\ AbortsHaveCause /\ [PoolNext]_poolVars => (PoolInv /\ AbortsHaveCause)'
  BY StepPoolInv
<1> QED BY <1>1, <1>2, PTL DEF PoolSpec

\* A drive of an evaluation is only ever aborted because a client failed or did not
\* start in time, or because reconcile_round refuses a round whose clients play
\* different rounds of the server: its commands, events and results never come at the
\* wrong time, and the results of a round are always of it and its policy.
THEOREM PoolAbortsHaveCause == PoolSpec => []AbortsHaveCause
  BY PoolInvariant, PTL

-----------------------------------------------------------------------------
(* The pool plays global rounds *)

\* A client's part in the current round, as the refinement maps it.
Part(c) ==
    IF observing[c] THEN "playing" ELSE IF round = 0 \/ Ended(c) THEN "ended" ELSE "due"

\* The ends of the current round that are known, or are on their way to be.
Ends == {e \in results \cup Pending : e.kind = "step" /\ e.ended}

\* Whoever has ended is one whose end is known or on its way.
LEMMA EndedByEnds ==
    /\ \A c : Ended(c) <=> \E e \in Ends : e.client = c
    /\ \A c : Ended(c)' <=> \E e \in Ends' : e.client = c
  BY DEF Ended, Ends

\* A step in which no episode begins or ends is no step of the global round.
LEMMA RoundsStutter ==
    ASSUME UNCHANGED <<round, policy, observing, episode>>, Ends' = Ends
    PROVE  UNCHANGED Rounds!globalVars
<1>1. \A c : Ended(c)' <=> Ended(c)
  BY EndedByEnds
<1>2. [c \in Clients |-> Part(c)]' = [c \in Clients |-> Part(c)]
  BY <1>1 DEF Part
<1> QED BY <1>2 DEF Rounds!globalVars, Part

\* What an actor says is pending.
LEMMA PutPending ==
    ASSUME PoolTypeOK, NEW e \in Happenings, Put(e), UNCHANGED driverVars
    PROVE  Pending' = Pending \cup {e} /\ UNCHANGED <<batch, results, round, policy>>
<1>1. Said(events') = Said(events) \cup {e} /\ UNCHANGED <<batch, results, round, policy>>
  BY AppendSpeaks DEF PoolTypeOK, Put, driverVars, roundVars
<1> QED BY <1>1, PendingIsSaid

\* A client whose episode begins has neither begun nor ended one in this round.
LEMMA ResetIsDue ==
    ASSUME PoolInv, NEW c \in Clients, ResetReturns(c)
    PROVE  Part(c) = "due"
<1>1. task[c] # NoCommand /\ task[c].kind = "arm"
  BY CommandsTyped DEF ResetReturns
<1>2. TurnAt(c, "task")
  BY <1>1 DEF PoolInv, OneTurn, TurnAt
<1>3. ~observing[c] /\ round # 0
  BY <1>1 DEF PoolInv, CommandsSuit, Suits, DriverFits, Quiet
<1>4. \A x \in results \cup Pending : x.kind # "error" => x.client # c
  BY <1>2, PendingIsSaid DEF TurnAt
<1> QED BY <1>3, <1>4 DEF Ended, Part

\* What the actors do to the global round: episodes begin and end.
LEMMA ActorPlaysRounds ==
    ASSUME PoolInv, NEW c \in Clients, ThreadStep(c) \/ CallReturns(c) \/ EnvironmentFails(c)
    PROVE  [Rounds!GlobalNext]_Rounds!globalVars
<1>1. PoolTypeOK
  BY DEF PoolInv
<1>3. ASSUME UNCHANGED <<observing, episode, driverVars>>,
             UNCHANGED events \/ \E kind \in {"ready", "error"} : Put(Plain(c, kind))
      PROVE  [Rounds!GlobalNext]_Rounds!globalVars
  <2>1. UNCHANGED <<batch, results, round, policy, observing, episode>>
    BY <1>3 DEF driverVars, roundVars
  <2>2. Ends' = Ends
    <3>1. CASE UNCHANGED events
      BY <2>1, <3>1 DEF Ends, Pending
    <3>2. ASSUME NEW kind \in {"ready", "error"}, Put(Plain(c, kind))
          PROVE  Ends' = Ends
      BY <1>1, PutPending, <1>3, <2>1, <3>2, EventsTyped DEF Ends
    <3> QED BY <1>3, <3>1, <3>2
  <2> QED BY <2>1, <2>2, RoundsStutter
<1>4. CASE ThreadStep(c) \/ EnvironmentFails(c)
  <2>1. /\ UNCHANGED <<observing, episode, driverVars>>
        /\ UNCHANGED events \/ \E kind \in {"ready", "error"} : Put(Plain(c, kind))
    BY <1>4 DEF ThreadStep, Connect, GiveUpConnecting, TakeCommand, TakeStop, EnvironmentFails, Dies
  <2> QED BY <1>3, <2>1
<1>5. CASE ResetReturns(c)
  <2>1. PICK e : e = Event(c, "armed", <<round, policy>>, TRUE, FALSE, task[c])
    OBVIOUS
  <2>2. /\ observing' = [observing EXCEPT ![c] = TRUE]
        /\ episode' = [episode EXCEPT ![c] = <<round, policy>>]
        /\ Put(e)
        /\ UNCHANGED driverVars
    BY <1>5, <2>1, ResetKeepsPool DEF ResetReturns
  <2>3. task[c] \in Commands /\ task[c] # NoCommand /\ task[c].kind = "arm"
    BY <1>1, <1>5, CommandsTyped DEF ResetReturns, PoolTypeOK
  <2>4. e \in Happenings /\ e.kind = "armed"
    <3>1. e \in Happenings
      BY <1>1, <2>1, <2>3, EventsTyped DEF PoolTypeOK
    <3> QED BY <2>1, <3>1 DEF Event
  <2>5. Ends' = Ends /\ UNCHANGED <<round, policy>>
    BY <1>1, PutPending, <2>2, <2>4 DEF Ends
  <2>6. \A d \in Clients : Part(d)' = IF d = c THEN "playing" ELSE Part(d)
    BY <1>1, <2>2, <2>5, EndedByEnds DEF Part, PoolTypeOK
  <2>7. Part(c) = "due"
    BY <1>5, ResetIsDue
  <2>8. [d \in Clients |-> Part(d)]' = [[d \in Clients |-> Part(d)] EXCEPT ![c] = "playing"]
    BY <2>6
  <2>9. Rounds!BeginEpisode(c)
    BY <2>2, <2>5, <2>7, <2>8 DEF Rounds!BeginEpisode, Part
  <2> QED BY <2>9 DEF Rounds!GlobalNext
<1>6. ASSUME NEW ended \in BOOLEAN, StepReturns(c, ended)
      PROVE  [Rounds!GlobalNext]_Rounds!globalVars
  <2>1. PICK e : e = Event(c, "step", episode[c], ~ended, ended, task[c])
    OBVIOUS
  <2>2. /\ observing' = [observing EXCEPT ![c] = ~ended]
        /\ Put(e)
        /\ UNCHANGED <<episode, driverVars>>
    BY <1>6, <2>1 DEF StepReturns
  <2>3. e \in Happenings /\ e.client = c /\ e.kind = "step" /\ e.ended = ended
    <3>1. e \in Happenings
      BY <1>1, <2>1, EventsTyped DEF PoolTypeOK
    <3> QED BY <2>1, <3>1 DEF Event
  <2>4. observing[c]
    BY <1>6, StepKeepsPool
  <2>5. Pending' = Pending \cup {e} /\ UNCHANGED <<results, round, policy>>
    BY <1>1, PutPending, <2>2, <2>3
  <2>6. CASE ~ended
    <3>1. UNCHANGED observing
      BY <1>1, <2>2, <2>4, <2>6 DEF PoolTypeOK
    <3>2. Ends' = Ends
      BY <2>3, <2>5, <2>6 DEF Ends
    <3> QED BY <2>2, <2>5, <3>1, <3>2, RoundsStutter
  <2>7. CASE ended
    <3>1. Ends' = Ends \cup {e}
      BY <2>3, <2>5, <2>7 DEF Ends
    <3>2. \A d \in Clients : Part(d)' = IF d = c THEN "ended" ELSE Part(d)
      BY <1>1, <2>2, <2>3, <2>5, <2>7, <3>1, EndedByEnds DEF Part, PoolTypeOK
    <3>3. Part(c) = "playing"
      BY <2>4 DEF Part
    <3>4. [d \in Clients |-> Part(d)]' = [[d \in Clients |-> Part(d)] EXCEPT ![c] = "ended"]
      BY <3>2
    <3>5. Rounds!EndEpisode(c)
      BY <2>2, <2>5, <3>3, <3>4 DEF Rounds!EndEpisode, Part
    <3> QED BY <3>5 DEF Rounds!GlobalNext
  <2> QED BY <2>6, <2>7
<1> QED BY <1>4, <1>5, <1>6 DEF CallReturns

\* What the driving thread does within a drive leaves the global round alone, in
\* whosever hands the ends of its episodes are.
LEMMA DriverPlaysRounds ==
    ASSUME PoolInv, DriverStep \/ HandleStep \/ StartupTimesOut
    PROVE  UNCHANGED Rounds!globalVars
<1>1. UNCHANGED <<round, policy, observing, episode>>
  BY DEF DriverStep, HandleStep, StartupTimesOut, TakeReady, SubmitArm, SubmitAction, StopActor,
         TakeEvents, HandleArmed, HandleFailure, FinishBatch, FinishRound, Fail, actorVars, roundVars
<1>2. CASE UNCHANGED <<events, batch, results>>
  BY <1>1, <1>2, RoundsStutter DEF Ends, Pending
<1>3. CASE TakeReady
  <2>1. /\ events \in Seq(Happenings) /\ events # <<>> /\ events' = Tail(events)
        /\ UNCHANGED <<batch, results>>
    BY <1>3 DEF TakeReady, Fail, PoolInv, PoolTypeOK
  <2>2. Said(events) = Said(events') \cup {Head(events)}
    BY <2>1, TailSpeaks
  <2>3. Head(events).kind # "step"
    BY <1>3, TakeReadyKeepsPool
  <2>4. Ends' = Ends
    BY <2>1, <2>2, <2>3, PendingIsSaid DEF Ends
  <2> QED BY <1>1, <2>4, RoundsStutter
<1>4. CASE TakeEvents
  <2>1. batch = <<>> /\ batch' = events /\ events' = <<>> /\ UNCHANGED results
    BY <1>4 DEF TakeEvents, PoolInv, DriverFits
  <2>2. Pending' = Pending
    BY <2>1, PendingIsSaid
  <2> QED BY <1>1, <2>1, <2>2, RoundsStutter DEF Ends
<1>5. CASE HandleArmed \/ HandleStep
  <2>1. NextEvent /\ batch' = Tail(batch) /\ UNCHANGED events
    BY <1>5 DEF HandleArmed, HandleStep
  <2>2. Handled \in Pending /\ Pending = Pending' \cup {Handled}
    BY <2>1, HandledIsTaken
  <2>3. \/ Handled.kind = "armed" /\ UNCHANGED results
        \/ Handled.kind = "step" /\ ~Handled.ended /\ UNCHANGED results
        \/ results' = results \cup {Handled}
    BY <1>5 DEF HandleArmed, HandleStep
  <2>4. PICK e : e = Handled
    OBVIOUS
  <2>5. Ends' = Ends
    BY <2>2, <2>3, <2>4 DEF Ends
  <2> QED BY <1>1, <2>5, RoundsStutter
<1>6. CASE \/ FinishBatch \/ FinishRound \/ HandleFailure \/ StartupTimesOut
           \/ \E c \in Clients : SubmitArm(c) \/ SubmitAction(c) \/ StopActor(c)
  BY <1>2, <1>6 DEF FinishBatch, FinishRound, HandleFailure, StartupTimesOut, SubmitArm,
                    SubmitAction, StopActor, Fail
<1> QED BY <1>3, <1>4, <1>5, <1>6 DEF DriverStep

\* A round begins when the last has ended for every client.
LEMMA BeginRoundOpensRound ==
    ASSUME PoolInv, driver = "boundary" \/ driver = "idle", NEW v \in Versions, BeginRound(v)
    PROVE  Rounds!GlobalNext
<1>1. /\ round \in Nat /\ round' = round + 1 /\ policy' = v /\ results' = {}
      /\ UNCHANGED <<events, batch, observing, episode>>
  BY DEF BeginRound, actorVars, PoolInv, PoolTypeOK
<1>2. \A c \in Clients : ~observing[c]
  BY BetweenRounds
<1>3. \A c \in Clients : Part(c) = "ended"
  <2>1. round # 0 => AllEnded
    BY <1>1 DEF PoolInv, DriverFits
  <2>2. \A r \in results : r.kind = "step" /\ r.ended
    BY DEF PoolInv, ResultsFit
  <2> QED BY <1>2, <2>1, <2>2 DEF Part, Ended, AllEnded
<1>4. \A c \in Clients : Part(c)' = "due"
  <2>1. Pending' = Pending
    BY <1>1 DEF Pending
  <2>2. Ends' = {}
    BY <1>1, <2>1, BetweenRounds DEF Ends
  <2>3. round' # 0
    BY <1>1
  <2> QED BY <1>1, <1>2, <2>2, <2>3, EndedByEnds DEF Part
<1>5. [c \in Clients |-> Part(c)]' = [c \in Clients |-> "due"]
  BY <1>4
<1>6. Rounds!OpenRound(v)
  BY <1>1, <1>3, <1>5 DEF Rounds!OpenRound, Part
<1> QED BY <1>6 DEF Rounds!GlobalNext

\* The pool begins where global rounds do.
LEMMA InitPlaysRounds == PoolInit => Rounds!GlobalInit
  BY DEF PoolInit, Rounds!GlobalInit

\* Every step of the pool is a step of global rounds, or none.
LEMMA StepPlaysRounds ==
    ASSUME PoolInv, [PoolNext]_poolVars
    PROVE  [Rounds!GlobalNext]_Rounds!globalVars
<1>1. CASE \E c \in Clients : ThreadStep(c) \/ CallReturns(c) \/ EnvironmentFails(c)
  BY <1>1, ActorPlaysRounds
<1>2. CASE DriverStep \/ HandleStep \/ StartupTimesOut
  BY <1>2, DriverPlaysRounds
<1>3. CASE \E v \in Versions : Drive(v)
  BY <1>3, BeginRoundOpensRound DEF Drive
<1>4. ASSUME UNCHANGED <<round, policy, observing, episode, events, batch, results>>
      PROVE  UNCHANGED Rounds!globalVars
  BY <1>4, RoundsStutter DEF Ends, Pending
<1>5. CASE EvaluationBoundary
  <2>1. CASE EndDrive
    BY <1>4, <2>1 DEF EndDrive, actorVars, roundVars
  <2>2. CASE driver = "boundary" /\ BeginRound(policy)
    <3>1. policy \in Versions
      BY <2>2 DEF PoolInv, DriverFits
    <3> QED BY <2>2, <3>1, BeginRoundOpensRound
  <2> QED BY <1>5, <2>1, <2>2 DEF EvaluationBoundary
<1>6. CASE Close
  BY <1>4, <1>6 DEF Close, actorVars, roundVars
<1>7. CASE UNCHANGED poolVars
  BY <1>4, <1>7 DEF poolVars, actorVars, driverVars, roundVars
<1> QED BY <1>1, <1>2, <1>3, <1>5, <1>6, <1>7 DEF PoolNext

\* The pool implements global rounds: while a round lasts its number and policy stay,
\* every client plays one episode armed with them, and the next round waits for all.
THEOREM PoolImplementsRounds == PoolSpec => PoolPlaysRounds
  BY PoolInvariant, InitPlaysRounds, StepPlaysRounds, PTL
     DEF PoolSpec, PoolPlaysRounds, Rounds!GlobalSpec

-----------------------------------------------------------------------------
(* The training *)

Transitions == [round : Nat, start : BOOLEAN, by : Nat]

\* The domains of the training's own variables.
TrainTypeOK ==
    /\ collecting \in BOOLEAN
    /\ rolloutPolicy \in Nat
    /\ kept \in [Clients -> Seq(Transitions)]
    /\ optimizing \in BOOLEAN
    /\ source \in Nat
    /\ output \in {"none", "result", "failure"}
    /\ active \in Nat
    /\ updates \in Nat

InRound == driver \in {"arming", "collecting", "handling", "acting", "boundary"}

\* A round is played by the active policy, and the rollout that is filled, or that the
\* optimiser has, is of that policy too: it is either filled, optimised or handed over.
PoliciesFit ==
    /\ active = updates
    /\ updates <= Updates
    /\ InRound => policy = active /\ updates < Updates
    /\ collecting => rolloutPolicy = active /\ ~optimizing /\ output = "none"
    /\ optimizing => output = "none"
    /\ optimizing \/ output = "result" => source = active /\ rolloutPolicy = active

\* The transitions that are kept are of rounds that have begun.
RoundsKept == \A c \in Clients : \A i \in DOMAIN kept[c] : kept[c][i].round <= round

\* The last transition kept of a client is of the current round.
Current(c) == kept[c] # <<>> /\ kept[c][Len(kept[c])].round = round

\* While more of a client can be kept, the action it is at starts an episode exactly
\* when none of the current round is kept: wherever the client has its turn.
StartFits(c) ==
    collecting /\ Len(kept[c]) < RolloutLength =>
        /\ Part(c) = "due" => ~Current(c)
        /\ available[c] = "first" => ~Current(c)
        /\ available[c] = "next" => Current(c)
        /\ command[c].kind = "action" => (command[c].start <=> ~Current(c))
        /\ task[c].kind = "action" => (task[c].start <=> ~Current(c))
        /\ \A e \in Pending :
            e.client = c =>
                /\ e.kind = "armed" => ~Current(c)
                /\ e.kind = "step" /\ e.valid => (e.start <=> ~Current(c))

StartsFit == \A c \in Clients : StartFits(c)

TrainInv ==
    /\ PoolInv
    /\ AbortsHaveCause
    /\ TrainTypeOK
    /\ PoliciesFit
    /\ RoundsKept
    /\ RolloutOfOnePolicy
    /\ StartsFit
    /\ StartsMarkRounds

-----------------------------------------------------------------------------
(* The pool in a training *)

\* Versions are numbers, and those that a training makes are among them.
LEMMA VersionsCount ==
    /\ Versions \subseteq Nat
    /\ Updates \in Nat \ {0}
    /\ RolloutLength \in Nat \ {0}
    /\ \A v \in Nat : v <= Updates => v \in Versions
  BY PoolAssumption, TrainingAssumption

\* The results of the optimiser are neither stale nor refused but for its own failure.
LEMMA RefusedForFailure ==
    ASSUME PoliciesFit, driver = "boundary", RefuseResult
    PROVE  Fail("optimizer") /\ UNCHANGED <<actorVars, events>>
  BY DEF RefuseResult, PoliciesFit, InRound

\* No transition meets a rollout of another policy.
LEMMA NothingMixed == ASSUME PoliciesFit, NextEvent PROVE ~MixesPolicies
  BY DEF NextEvent, PoliciesFit, InRound, MixesPolicies

\* A step of a training that begins a round.
LEMMA TrainBeginsRound ==
    ASSUME TrainInv, NEW v \in Versions, BeginRound(v), UNCHANGED roundsLeft,
           driver = "boundary" \/ driver = "idle"
    PROVE  PoolInv' /\ AbortsHaveCause'
<1>1. roundsLeft' \in Nat
  BY DEF TrainInv, PoolInv, PoolTypeOK
<1> QED BY <1>1, BeginRoundKeepsPool, BeginRoundKeepsCause DEF TrainInv

\* The version that plays the next round.
LEMMA NextVersion ==
    ASSUME TrainInv
    PROVE  /\ active \in Nat /\ active \in Versions
           /\ driver = "boundary" => updates + 1 <= Updates
           /\ AdoptPolicy /\ driver = "boundary" =>
                active' = active + 1 /\ updates' = updates + 1 /\ active' \in Versions
<1>1. active \in Nat /\ updates \in Nat /\ active = updates /\ updates <= Updates
  BY DEF TrainInv, TrainTypeOK, PoliciesFit
<1>2. driver = "boundary" => updates + 1 <= Updates
  BY <1>1, VersionsCount DEF TrainInv, PoliciesFit, InRound
<1>3. AdoptPolicy => active' = active + 1 /\ updates' = updates + 1
  BY DEF AdoptPolicy, TrainInv, PoliciesFit
<1> QED BY <1>1, <1>2, <1>3, VersionsCount

\* Every step of a training keeps the pool's invariant, and aborts nothing of itself.
LEMMA TrainKeepsPool ==
    ASSUME TrainInv, TrainNext
    PROVE  PoolInv' /\ AbortsHaveCause'
<1> USE DEF TrainInv
<1>1. CASE ActorNext
  BY <1>1, ActorKeepsPool, ActorKeepsCause DEF ActorNext
<1>2. CASE DriveNext
  BY <1>2, DriverKeepsPool DEF DriveNext
<1>3. CASE TrainingStep
  BY <1>3, NothingMixed, DriverKeepsPool DEF TrainingStep
<1>4. CASE OptimizerEnds
  <2>1. UNCHANGED poolVars
    BY <1>4 DEF OptimizerEnds
  <2> QED BY <2>1, StepPoolInv
<1>5. CASE Boundary
  <2>1. driver = "boundary"
    BY <1>5 DEF Boundary
  <2>2. CASE KeepPolicy
    BY <2>1, <2>2, NextVersion, TrainBeginsRound DEF KeepPolicy
  <2>3. CASE AdoptPolicy
    <3>1. CASE BeginRound(active') /\ UNCHANGED roundsLeft
      BY <2>1, <2>3, <3>1, NextVersion, TrainBeginsRound
    <3>2. CASE EndDrive
      BY <2>1, <3>2, EndDriveKeepsPool, CauseStays DEF EndDrive, actorVars, roundVars
    <3> QED BY <2>3, <3>1, <3>2 DEF AdoptPolicy
  <2>4. CASE RefuseResult
    <3>1. Fail("optimizer") /\ UNCHANGED <<actorVars, events>>
      BY <2>1, <2>4, RefusedForFailure
    <3> QED BY <3>1, FailKeepsPool DEF Fail, Causes, AbortsHaveCause, actorVars
  <2> QED BY <1>5, <2>2, <2>3, <2>4 DEF Boundary
<1>6. CASE StartTraining
  BY <1>6, NextVersion, TrainBeginsRound DEF StartTraining
<1>7. CASE EndTraining
  BY <1>7, CloseKeepsPool, CauseStays DEF EndTraining, Close, actorVars, roundVars
<1> QED BY <1>1, <1>2, <1>3, <1>4, <1>5, <1>6, <1>7 DEF TrainNext

-----------------------------------------------------------------------------
(* Types and policies *)

\* What is kept of an event.
LEMMA KeptTyped ==
    \A e \in Happenings : Kept(e) \in Transitions /\ Kept(e).round = e.round
                          /\ Kept(e).start = e.start /\ Kept(e).by = e.by
  BY DEF Kept, Transitions, Happenings

\* A transition is kept at the end of its client's, while there is room for it.
LEMMA AddKeeps ==
    ASSUME TrainTypeOK, NEW e \in Happenings
    PROVE  /\ Add(e) \in [Clients -> Seq(Transitions)]
           /\ \A c \in Clients \ {e.client} : Add(e)[c] = kept[c]
           /\ Len(kept[e.client]) < RolloutLength =>
                Add(e)[e.client] = Append(kept[e.client], Kept(e))
           /\ ~(Len(kept[e.client]) < RolloutLength) => Add(e) = kept
<1>1. e.client \in Clients /\ Kept(e) \in Transitions
  BY KeptTyped DEF Happenings
<1>2. kept \in [Clients -> Seq(Transitions)] /\ kept[e.client] \in Seq(Transitions)
  BY <1>1 DEF TrainTypeOK
<1>3. Append(kept[e.client], Kept(e)) \in Seq(Transitions)
  BY <1>1, <1>2
<1> QED BY <1>1, <1>2, <1>3 DEF Add

\* The event that a training keeps.
LEMMA StepHandled ==
    ASSUME TrainInv, TrainingStep
    PROVE  /\ HandleStep
           /\ Handled \in Happenings /\ Handled.client \in Clients /\ Fits(Handled)
           /\ Handled.kind = "step" /\ Handled.round = round /\ Handled.by = policy
           /\ \/ ~Handled.valid /\ UNCHANGED trainingVars
              \/ Handled.valid /\ ReceiveTransition(Handled)
<1>1. HandleStep
  BY NothingMixed DEF TrainingStep, TrainInv
<1>2. Handled \in Pending /\ Handled \in Happenings /\ Handled.client \in Clients
  BY <1>1, HandledIsTaken DEF HandleStep, TrainInv
<1>3. Fits(Handled)
  BY <1>2 DEF TrainInv, PoolInv, EventsFit
<1>4. Handled.kind = "step"
  BY DEF TrainingStep
<1> QED BY <1>1, <1>2, <1>3, <1>4, NothingMixed DEF TrainingStep, Fits, TrainInv

\* Every step keeps the types.
LEMMA StepTrainTypeOK ==
    ASSUME TrainInv, TrainNext
    PROVE  TrainTypeOK'
<1>1. TrainTypeOK
  BY DEF TrainInv
<1>2. CASE UNCHANGED trainingVars
  BY <1>1, <1>2 DEF TrainTypeOK, trainingVars
<1>3. CASE TrainingStep
  <2>1. CASE ReceiveTransition(Handled)
    <3>1. Add(Handled) \in [Clients -> Seq(Transitions)]
      BY <1>1, <1>3, StepHandled, AddKeeps
    <3> QED BY <1>1, <2>1, <3>1 DEF ReceiveTransition, TrainTypeOK, Complete
  <2> QED BY <1>2, <1>3, <2>1, StepHandled
<1>4. CASE OptimizerEnds
  BY <1>1, <1>4 DEF OptimizerEnds, TrainTypeOK
<1>5. CASE AdoptPolicy
  <2>1. /\ active' \in Nat /\ updates' \in Nat /\ output' = "none"
        /\ UNCHANGED <<optimizing, source>>
    BY <1>1, <1>5 DEF AdoptPolicy, TrainTypeOK
  <2>2. /\ kept' = EmptyRollout \/ kept' = kept
        /\ collecting' = TRUE \/ collecting' = collecting
        /\ rolloutPolicy' = active' \/ rolloutPolicy' = rolloutPolicy
    BY <1>5 DEF AdoptPolicy, NextRollout
  <2>3. EmptyRollout \in [Clients -> Seq(Transitions)]
    BY DEF EmptyRollout
  <2> QED BY <1>1, <2>1, <2>2, <2>3 DEF TrainTypeOK
<1>6. CASE RefuseResult
  BY <1>1, <1>6 DEF RefuseResult, TrainTypeOK
<1> QED BY <1>2, <1>3, <1>4, <1>5, <1>6
        DEF TrainNext, ActorNext, DriveNext, Boundary, KeepPolicy, StartTraining, EndTraining

\* A drive stays in its round, or leaves it.
LEMMA DriverStaysInRound ==
    ASSUME DriverStep \/ HandleStep \/ StartupTimesOut
    PROVE  policy' = policy /\ (InRound' => InRound)
  BY DEF DriverStep, HandleStep, StartupTimesOut, TakeReady, SubmitArm, SubmitAction, StopActor,
         TakeEvents, HandleArmed, HandleFailure, NextEvent, BatchHandled, FinishBatch, FinishRound,
         Fail, actorVars, roundVars, InRound

\* Every step keeps policies, rollouts and rounds together.
LEMMA StepPoliciesFit ==
    ASSUME TrainInv, TrainNext
    PROVE  PoliciesFit'
<1>1. PoliciesFit /\ TrainTypeOK
  BY DEF TrainInv
<1>2. CASE UNCHANGED trainingVars /\ policy' = policy /\ (InRound' => InRound)
  BY <1>1, <1>2 DEF PoliciesFit, trainingVars
<1>3. CASE ActorNext
  BY <1>2, <1>3 DEF ActorNext, ThreadStep, CallReturns, Connect, GiveUpConnecting, TakeCommand,
                    TakeStop, ResetReturns, StepReturns, EnvironmentFails, driverVars, roundVars,
                    InRound
<1>4. CASE DriveNext
  BY <1>2, <1>4, DriverStaysInRound DEF DriveNext
<1>5. CASE TrainingStep
  <2>1. policy' = policy /\ (InRound' => InRound)
    BY <1>5, StepHandled, DriverStaysInRound
  <2>2. CASE ReceiveTransition(Handled)
    BY <1>1, <2>1, <2>2 DEF ReceiveTransition, PoliciesFit, TrainTypeOK
  <2> QED BY <1>2, <1>5, <2>1, <2>2, StepHandled
<1>6. CASE OptimizerEnds
  <2>1. policy' = policy /\ driver' = driver
    BY <1>6 DEF OptimizerEnds, poolVars, driverVars, roundVars
  <2> QED BY <1>1, <1>6, <2>1 DEF OptimizerEnds, PoliciesFit, InRound
<1>7. CASE Boundary /\ KeepPolicy
  <2>1. policy' = active /\ updates < Updates
    BY <1>1, <1>7 DEF Boundary, KeepPolicy, BeginRound, PoliciesFit, InRound
  <2> QED BY <1>1, <1>7, <2>1 DEF KeepPolicy, PoliciesFit, trainingVars
<1>8. CASE Boundary /\ AdoptPolicy
  <2>1. /\ updates' <= Updates /\ active' = updates'
        /\ output' = "none" /\ ~optimizing /\ UNCHANGED optimizing
    BY <1>1, <1>8, NextVersion DEF Boundary, AdoptPolicy, PoliciesFit
  <2>2. CASE updates' < Updates
    <3>1. policy' = active' /\ rolloutPolicy' = active'
      BY <1>8, <2>2 DEF AdoptPolicy, BeginRound, NextRollout
    <3> QED BY <2>1, <2>2, <3>1 DEF PoliciesFit
  <2>3. CASE ~(updates' < Updates)
    <3>1. driver' = "idle" /\ UNCHANGED collecting
      BY <1>8, <2>3 DEF AdoptPolicy, EndDrive, NextRollout
    <3>2. ~collecting
      BY <1>1, <1>8 DEF AdoptPolicy, PoliciesFit
    <3> QED BY <2>1, <3>1, <3>2 DEF PoliciesFit, InRound
  <2> QED BY <2>2, <2>3
<1>9. CASE Boundary /\ RefuseResult
  <2>1. driver' = "closing"
    BY <1>1, <1>9, RefusedForFailure DEF Boundary, Fail
  <2> QED BY <1>1, <1>9, <2>1 DEF RefuseResult, PoliciesFit, InRound
<1>10. CASE StartTraining
  <2>1. policy' = active /\ updates < Updates
    BY <1>10, VersionsCount DEF StartTraining, BeginRound
  <2> QED BY <1>1, <1>10, <2>1 DEF StartTraining, PoliciesFit, trainingVars
<1>11. CASE EndTraining
  BY <1>2, <1>11 DEF EndTraining, Close, InRound, roundVars
<1> QED BY <1>3, <1>4, <1>5, <1>6, <1>7, <1>8, <1>9, <1>10, <1>11 DEF TrainNext, Boundary

-----------------------------------------------------------------------------
(* What is kept *)

\* A round only gives way to a later one.
LEMMA RoundMovesOn ==
    ASSUME TrainInv, TrainNext
    PROVE  round \in Nat /\ round' \in Nat /\ round <= round'
<1>1. round \in Nat
  BY DEF TrainInv, PoolInv, PoolTypeOK
<1>2. \/ round' = round
      \/ round' = round + 1
  <2>1. CASE ActorNext \/ OptimizerEnds
    BY <2>1 DEF ActorNext, ThreadStep, CallReturns, Connect, GiveUpConnecting, TakeCommand, TakeStop,
                ResetReturns, StepReturns, EnvironmentFails, OptimizerEnds, poolVars, driverVars,
                roundVars
  <2>2. CASE DriveNext \/ TrainingStep
    BY <2>2, StepHandled DEF DriveNext, DriverStep, HandleStep, StartupTimesOut, TakeReady, SubmitArm,
                SubmitAction, StopActor, TakeEvents, HandleArmed, HandleFailure, FinishBatch,
                FinishRound, Fail, roundVars
  <2>3. CASE Boundary \/ StartTraining \/ EndTraining
    BY <2>3 DEF Boundary, KeepPolicy, AdoptPolicy, RefuseResult, StartTraining, EndTraining, BeginRound,
                EndDrive, Close, Fail, roundVars
  <2> QED BY <2>1, <2>2, <2>3 DEF TrainNext
<1> QED BY <1>1, <1>2

\* A step keeps one more transition of one client, or none, or begins a new rollout.
LEMMA KeptChanges ==
    ASSUME TrainInv, TrainNext
    PROVE  \/ UNCHANGED <<kept, rolloutPolicy>>
           \/ kept' = EmptyRollout
           \/ /\ TrainingStep /\ collecting /\ Handled.valid
              /\ kept' = Add(Handled)
              /\ UNCHANGED rolloutPolicy
<1>1. CASE TrainingStep
  <2>1. CASE UNCHANGED trainingVars
    BY <2>1 DEF trainingVars
  <2>2. CASE Handled.valid /\ ReceiveTransition(Handled)
    BY <1>1, <2>2 DEF ReceiveTransition
  <2> QED BY <1>1, <2>1, <2>2, StepHandled
<1>2. CASE Boundary
  BY <1>2 DEF Boundary, KeepPolicy, AdoptPolicy, RefuseResult, NextRollout, trainingVars
<1> QED BY <1>1, <1>2 DEF TrainNext, ActorNext, DriveNext, OptimizerEnds, StartTraining, EndTraining,
                          trainingVars

\* The transition that is kept next.
LEMMA KeepsTransition ==
    ASSUME TrainInv, TrainingStep
    PROVE  LET c == Handled.client
               t == Add(Handled)[c]
               n == Len(kept[c]) IN
           /\ c \in Clients
           /\ \A d \in Clients \ {c} : Add(Handled)[d] = kept[d]
           /\ n < RolloutLength =>
                /\ DOMAIN t = DOMAIN kept[c] \cup {n + 1}
                /\ \A i \in DOMAIN kept[c] : t[i] = kept[c][i]
                /\ t[n + 1] = Kept(Handled)
                /\ Len(t) = n + 1
           /\ ~(n < RolloutLength) => t = kept[c]
<1>1. Handled \in Happenings /\ Handled.client \in Clients
  BY StepHandled
<1>2. kept[Handled.client] \in Seq(Transitions) /\ Kept(Handled) \in Transitions /\ TrainTypeOK
  BY <1>1, KeptTyped DEF TrainInv, TrainTypeOK
<1>3. \A u \in Seq(Transitions), x \in Transitions :
        /\ DOMAIN Append(u, x) = DOMAIN u \cup {Len(u) + 1}
        /\ \A i \in DOMAIN u : Append(u, x)[i] = u[i]
        /\ Append(u, x)[Len(u) + 1] = x
        /\ Len(Append(u, x)) = Len(u) + 1
  OBVIOUS
<1>4. ~(Len(kept[Handled.client]) < RolloutLength) => Add(Handled) = kept
  BY <1>1, <1>2, AddKeeps
<1>5. Len(kept[Handled.client]) < RolloutLength =>
        Add(Handled)[Handled.client] = Append(kept[Handled.client], Kept(Handled))
  BY <1>1, <1>2, AddKeeps
<1>6. \A d \in Clients \ {Handled.client} : Add(Handled)[d] = kept[d]
  BY <1>1, <1>2, AddKeeps
<1> QED BY <1>1, <1>2, <1>3, <1>4, <1>5, <1>6

\* Every step keeps the rounds of what is kept.
LEMMA StepRoundsKept ==
    ASSUME TrainInv, TrainNext
    PROVE  RoundsKept'
<1> SUFFICES ASSUME NEW c \in Clients, NEW i \in DOMAIN kept'[c]
             PROVE  kept'[c][i].round <= round'
  BY DEF RoundsKept
<1>1. \A d \in Clients : \A j \in DOMAIN kept[d] : kept[d][j].round \in Nat
  <2> SUFFICES ASSUME NEW d \in Clients, NEW j \in DOMAIN kept[d]
               PROVE  kept[d][j].round \in Nat
    OBVIOUS
  <2>1. kept[d] \in Seq(Transitions)
    BY DEF TrainInv, TrainTypeOK
  <2>2. kept[d][j] \in Transitions
    BY <2>1
  <2> QED BY <2>2 DEF Transitions
<1>2. \A d \in Clients : \A j \in DOMAIN kept[d] : kept[d][j].round <= round'
  BY <1>1, RoundMovesOn DEF TrainInv, RoundsKept
<1>3. CASE kept' = EmptyRollout
  BY <1>3 DEF EmptyRollout
<1>4. CASE TrainingStep /\ kept' = Add(Handled)
  <2>1. Kept(Handled).round = round
    BY <1>4, StepHandled, KeptTyped
  <2>2. (i \in DOMAIN kept[c] /\ kept'[c][i] = kept[c][i]) \/ kept'[c][i] = Kept(Handled)
    BY <1>4, KeepsTransition
  <2> QED BY <1>2, <2>1, <2>2, RoundMovesOn
<1> QED BY <1>2, <1>3, <1>4, KeptChanges

\* A rollout stays of one policy: what is added to it was sampled by the policy of the
\* round, which is the rollout's.
LEMMA StepOnePolicy ==
    ASSUME TrainInv, TrainNext
    PROVE  RolloutOfOnePolicy'
<1> SUFFICES ASSUME NEW c \in Clients, NEW i \in DOMAIN kept'[c]
             PROVE  kept'[c][i].by = rolloutPolicy'
  BY DEF RolloutOfOnePolicy
<1>1. CASE UNCHANGED <<kept, rolloutPolicy>>
  BY <1>1 DEF TrainInv, RolloutOfOnePolicy
<1>2. CASE kept' = EmptyRollout
  BY <1>2 DEF EmptyRollout
<1>3. CASE TrainingStep /\ collecting /\ kept' = Add(Handled) /\ UNCHANGED rolloutPolicy
  <2>1. Kept(Handled).by = policy
    BY <1>3, StepHandled, KeptTyped
  <2>2. policy = rolloutPolicy
    BY <1>3 DEF TrainingStep, NextEvent, TrainInv, PoliciesFit, InRound
  <2>3. (i \in DOMAIN kept[c] /\ kept'[c][i] = kept[c][i]) \/ kept'[c][i] = Kept(Handled)
    BY <1>3, KeepsTransition
  <2> QED BY <1>3, <2>1, <2>2, <2>3 DEF TrainInv, RolloutOfOnePolicy
<1> QED BY <1>1, <1>2, <1>3, KeptChanges

\* The marks of what is kept stay right: the transition that is added is marked when
\* none of its round is kept, which is when the last one is of another round.
LEMMA StepStartsMark ==
    ASSUME TrainInv, TrainNext
    PROVE  StartsMarkRounds'
<1> SUFFICES ASSUME NEW c \in Clients, NEW i \in DOMAIN kept'[c]
             PROVE  kept'[c][i].start <=> (i = 1 \/ kept'[c][i].round # kept'[c][i - 1].round)
  BY DEF StartsMarkRounds
<1>1. CASE UNCHANGED kept
  BY <1>1 DEF TrainInv, StartsMarkRounds
<1>2. CASE kept' = EmptyRollout
  BY <1>2 DEF EmptyRollout
<1>3. CASE TrainingStep /\ collecting /\ Handled.valid /\ kept' = Add(Handled)
  <2>1. kept[c] \in Seq(Transitions)
    BY DEF TrainInv, TrainTypeOK
  <2>2. DOMAIN kept[c] = 1..Len(kept[c]) /\ Len(kept[c]) \in Nat
    BY <2>1
  <2>3. CASE kept'[c] = kept[c]
    BY <2>3 DEF TrainInv, StartsMarkRounds
  <2>4. CASE c = Handled.client /\ Len(kept[c]) < RolloutLength
    <3> DEFINE n == Len(kept[c])
    <3>1. /\ DOMAIN kept'[c] = DOMAIN kept[c] \cup {n + 1}
          /\ \A j \in DOMAIN kept[c] : kept'[c][j] = kept[c][j]
          /\ kept'[c][n + 1] = Kept(Handled)
      BY <1>3, <2>4, KeepsTransition
    <3>2. CASE i \in DOMAIN kept[c]
      <4>1. i - 1 \in DOMAIN kept[c] \/ i = 1
        BY <2>2, <3>2
      <4> QED BY <3>1, <3>2, <4>1 DEF TrainInv, StartsMarkRounds
    <3>3. CASE i = n + 1
      <4>1. Kept(Handled).start = Handled.start /\ Kept(Handled).round = round
        BY <1>3, StepHandled, KeptTyped
      <4>2. Handled \in Pending /\ Handled.kind = "step"
        BY <1>3, StepHandled, HandledIsTaken DEF HandleStep, TrainInv
      <4>3. Handled.start <=> ~Current(c)
        BY <1>3, <2>4, <4>2 DEF TrainInv, StartsFit, StartFits
      <4>4. Current(c) <=> i # 1 /\ kept[c][i - 1].round = round
        BY <2>1, <2>2, <3>3 DEF Current
      <4>5. i # 1 => i - 1 \in DOMAIN kept[c]
        BY <2>2, <3>3
      <4> QED BY <3>1, <3>3, <4>1, <4>3, <4>4, <4>5
    <3> QED BY <3>1, <3>2, <3>3
  <2> QED BY <1>3, <2>3, <2>4, KeepsTransition
<1> QED BY <1>1, <1>2, <1>3, KeptChanges

-----------------------------------------------------------------------------
(* Where episodes start *)

\* Within a round nobody is due again.
LEMMA DueStays ==
    ASSUME round \in Nat, round' = round, [Rounds!GlobalNext]_Rounds!globalVars
    PROVE  \A c \in Clients : Part(c)' = "due" => Part(c) = "due"
<1> DEFINE parts == [c \in Clients |-> Part(c)]
<1>1. CASE UNCHANGED Rounds!globalVars
  <2>1. parts' = parts
    BY <1>1 DEF Rounds!globalVars, Part
  <2> QED BY <2>1
<1>2. CASE \E v \in Versions : Rounds!OpenRound(v)
  BY <1>2 DEF Rounds!OpenRound
<1>3. ASSUME NEW d \in Clients, Rounds!BeginEpisode(d) \/ Rounds!EndEpisode(d)
      PROVE  \A c \in Clients : Part(c)' = "due" => Part(c) = "due"
  <2>1. parts' = [parts EXCEPT ![d] = "playing"] \/ parts' = [parts EXCEPT ![d] = "ended"]
    BY <1>3 DEF Rounds!BeginEpisode, Rounds!EndEpisode, Part
  <2>2. \A c \in Clients : parts'[c] = "due" => parts[c] = "due"
    BY <2>1
  <2> QED BY <2>2
<1> QED BY <1>1, <1>2, <1>3 DEF Rounds!GlobalNext

\* A client of which nothing is kept, and whose turn only moves on, stays marked.
LEMMA StartStays ==
    ASSUME TrainInv, NEW c \in Clients,
           UNCHANGED <<kept, collecting, round>>,
           Part(c)' = "due" => Part(c) = "due",
           available'[c] = available[c] \/ available'[c] = "none",
           command'[c] = command[c] \/ command'[c].kind # "action",
           task'[c] = task[c] \/ task'[c] = command[c] \/ task'[c].kind # "action",
           \A e \in Pending' : e.client = c => e \in Pending \/ e.kind \in {"ready", "error"}
    PROVE  StartFits(c)'
<1>1. StartFits(c) /\ (Current(c)' <=> Current(c))
  BY DEF TrainInv, StartsFit, Current
<1> QED BY <1>1 DEF StartFits

\* What the clients say of their episodes keeps the marks.
LEMMA ActorKeepsStarts ==
    ASSUME TrainInv, ActorNext
    PROVE  StartsFit'
<1> SUFFICES ASSUME NEW d \in Clients PROVE StartFits(d)'
  BY DEF StartsFit
<1>1. PICK c \in Clients : ThreadStep(c) \/ CallReturns(c) \/ EnvironmentFails(c)
  BY DEF ActorNext
<1>2. PoolInv /\ PoolTypeOK /\ round \in Nat /\ StartFits(c) /\ StartFits(d)
  BY DEF TrainInv, PoolInv, PoolTypeOK, StartsFit
<1>3. UNCHANGED <<driverVars, available, round, kept, collecting>>
  BY <1>1 DEF ActorNext, trainingVars, driverVars, roundVars, ThreadStep, CallReturns, Connect,
              GiveUpConnecting, TakeCommand, TakeStop, ResetReturns, StepReturns, EnvironmentFails
<1>4. Part(d)' = "due" => Part(d) = "due"
  BY <1>1, <1>2, <1>3, ActorPlaysRounds, DueStays
<1>5. Current(d)' <=> Current(d)
  BY <1>3 DEF Current
<1>6. CASE ThreadStep(c) \/ EnvironmentFails(c)
  <2>1. /\ command'[d] = command[d] \/ command'[d] = NoCommand
        /\ task'[d] = task[d] \/ task'[d] = command[d] \/ task'[d] = NoCommand
        /\ UNCHANGED events \/ \E kind \in {"ready", "error"} : Put(Plain(c, kind))
    BY <1>2, <1>6 DEF PoolTypeOK, ThreadStep, Connect, GiveUpConnecting, TakeCommand, TakeStop,
                      EnvironmentFails, Dies
  <2>2. \A e \in Pending' : e \in Pending \/ e.kind \in {"ready", "error"}
    <3>1. CASE UNCHANGED events
      BY <1>3, <3>1 DEF Pending, driverVars
    <3>2. ASSUME NEW kind \in {"ready", "error"}, Put(Plain(c, kind))
          PROVE  \A e \in Pending' : e \in Pending \/ e.kind \in {"ready", "error"}
      BY <1>2, <1>3, <3>2, PutPending, EventsTyped
    <3> QED BY <2>1, <3>1, <3>2
  <2> QED BY <1>3, <1>4, <2>1, <2>2, StartStays, CommandsTyped
<1>7. CASE CallReturns(c)
  <2>1. PICK kind \in {"armed", "step"}, valid \in BOOLEAN, ended \in BOOLEAN, e \in Nat \X Nat :
            /\ Put(Event(c, kind, e, valid, ended, task[c]))
            /\ kind = "armed" => task[c].kind = "arm" /\ Part(c) = "due"
            /\ kind = "step" => task[c].kind = "action"
    <3>1. ASSUME ResetReturns(c)
          PROVE  /\ Put(Event(c, "armed", <<round, policy>>, TRUE, FALSE, task[c]))
                 /\ task[c].kind = "arm" /\ Part(c) = "due"
                 /\ <<round, policy>> \in Nat \X Nat
      BY <1>2, <3>1, ResetKeepsPool, ResetIsDue DEF ResetReturns, PoolTypeOK
    <3>2. ASSUME NEW over \in BOOLEAN, StepReturns(c, over)
          PROVE  /\ Put(Event(c, "step", episode[c], ~over, over, task[c]))
                 /\ task[c].kind = "action"
                 /\ episode[c] \in Nat \X Nat /\ (~over) \in BOOLEAN
      <4>1. episode[c] \in Nat \X Nat
        BY <1>2 DEF PoolTypeOK
      <4>2. (~over) \in BOOLEAN
        OBVIOUS
      <4> QED BY <3>2, <4>1, <4>2 DEF StepReturns
    <3> QED BY <1>7, <3>1, <3>2 DEF CallReturns
  <2>2. PICK x : x = Event(c, kind, e, valid, ended, task[c])
    OBVIOUS
  <2>3. /\ x \in Happenings
        /\ x.client = c /\ x.kind = kind /\ x.start = task[c].start
    <3>1. x \in Happenings
      BY <1>2, <2>2, EventsTyped DEF PoolTypeOK
    <3> QED BY <2>2, <3>1 DEF Event
  <2>4. Pending' = Pending \cup {x}
    BY <1>2, <1>3, <2>1, <2>2, <2>3, PutPending
  <2>5. UNCHANGED command /\ (task'[d] = task[d] \/ task'[d] = NoCommand)
    BY <1>2, <1>7 DEF CallReturns, ResetReturns, StepReturns, CommandDone, PoolTypeOK
  <2>6. CASE d # c
    BY <1>3, <1>4, <2>3, <2>4, <2>5, <2>6, StartStays, CommandsTyped
  <2>7. CASE d = c
    BY <1>2, <1>3, <1>4, <1>5, <2>1, <2>3, <2>4, <2>5, <2>7, CommandsTyped DEF StartFits
  <2> QED BY <2>6, <2>7
<1> QED BY <1>1, <1>6, <1>7

\* So does what the driving thread does with it, but for the steps it handles.
LEMMA DriverKeepsStarts ==
    ASSUME TrainInv, DriveNext
    PROVE  StartsFit'
<1> SUFFICES ASSUME NEW d \in Clients PROVE StartFits(d)'
  BY DEF StartsFit
<1>1. PoolInv /\ PoolTypeOK /\ round \in Nat /\ StartsFit
  BY DEF TrainInv, PoolInv, PoolTypeOK
<1>2. UNCHANGED <<kept, collecting, round, task>>
  BY DEF DriveNext, trainingVars, DriverStep, StartupTimesOut, TakeReady, SubmitArm, SubmitAction,
         StopActor, TakeEvents, HandleArmed, HandleFailure, FinishBatch, FinishRound, Fail, actorVars,
         roundVars
<1>3. Part(d)' = "due" => Part(d) = "due"
  BY <1>1, <1>2, DriverPlaysRounds, DueStays DEF DriveNext
<1>4. Current(d)' <=> Current(d)
  BY <1>2 DEF Current
<1>5. CASE TakeReady
  <2>1. /\ events \in Seq(Happenings) /\ events # <<>> /\ events' = Tail(events)
        /\ UNCHANGED <<batch, command, available>>
    BY <1>1, <1>5 DEF TakeReady, Fail, PoolTypeOK, actorVars
  <2>2. Pending' \subseteq Pending
    BY <2>1, TailSpeaks, PendingIsSaid
  <2> QED BY <1>2, <1>3, <2>1, <2>2, StartStays
<1>6. CASE TakeEvents
  <2>1. batch = <<>> /\ batch' = events /\ events' = <<>> /\ UNCHANGED <<command, available>>
    BY <1>1, <1>6 DEF TakeEvents, PoolInv, DriverFits, actorVars
  <2>2. Pending' = Pending
    BY <2>1, PendingIsSaid
  <2> QED BY <1>2, <1>3, <2>1, <2>2, StartStays
<1>7. CASE HandleArmed
  <2>1. NextEvent /\ batch' = Tail(batch) /\ UNCHANGED <<events, command>>
    BY <1>7 DEF HandleArmed, actorVars
  <2>2. Handled \in Pending /\ Pending' \subseteq Pending
    BY <1>1, <2>1, HandledIsTaken
  <2>3. available'[d] = IF d = Handled.client THEN "first" ELSE available[d]
    BY <1>1, <1>7 DEF HandleArmed, PoolTypeOK
  <2>4. CASE d = Handled.client
    BY <1>1, <1>2, <1>3, <1>4, <1>7, <2>1, <2>2, <2>3, <2>4 DEF HandleArmed, StartsFit, StartFits
  <2> QED BY <1>2, <1>3, <2>1, <2>2, <2>3, <2>4, StartStays
<1>8. ASSUME NEW c \in Clients, SubmitAction(c)
      PROVE  StartFits(d)'
  <2>1. /\ command' = command \/ command' = [command EXCEPT ![c] = ActionCommand(c)]
        /\ available' = available \/ available' = [available EXCEPT ![c] = "none"]
        /\ available[c] # "none"
        /\ UNCHANGED <<events, batch>>
    BY <1>8 DEF SubmitAction, Submit, Fail
  <2>2. Pending' = Pending
    BY <2>1 DEF Pending
  <2>3. available'[d] = available[d] \/ available'[d] = "none"
    BY <1>1, <2>1 DEF PoolTypeOK
  <2>4. CASE command'[d] = command[d]
    BY <1>2, <1>3, <2>2, <2>3, <2>4, StartStays
  <2>5. CASE d = c /\ command'[d] = ActionCommand(c)
    <3>1. command'[d].start <=> available[d] = "first"
      <4>1. ActionCommand(c).start = (available[c] = "first")
        BY DEF ActionCommand, Command
      <4> QED BY <2>5, <4>1
    <3>2. available[d] \in {"first", "next"}
      BY <1>1, <2>1, <2>5 DEF PoolTypeOK
    <3> QED BY <1>1, <1>2, <1>3, <1>4, <2>2, <2>3, <3>1, <3>2 DEF StartsFit, StartFits
  <2> QED BY <1>1, <2>1, <2>4, <2>5 DEF PoolTypeOK
<1>9. CASE \/ FinishBatch \/ FinishRound \/ HandleFailure \/ StartupTimesOut
           \/ \E c \in Clients : SubmitArm(c) \/ StopActor(c)
  <2>1. UNCHANGED <<events, batch, available>>
    BY <1>9 DEF FinishBatch, FinishRound, HandleFailure, StartupTimesOut, SubmitArm, StopActor, Fail
  <2>2. Pending' = Pending
    BY <2>1 DEF Pending
  <2>3. command'[d] = command[d] \/ command'[d].kind # "action"
    <3>1. ArmCommand.kind = "arm"
      BY DEF ArmCommand, Command
    <3> QED BY <1>1, <1>9, <3>1, CommandsTyped DEF FinishBatch, FinishRound, HandleFailure,
               StartupTimesOut, SubmitArm, Submit, StopActor, StopTold, actorVars, PoolTypeOK
  <2> QED BY <1>2, <1>3, <2>1, <2>2, <2>3, StartStays
<1> QED BY <1>5, <1>6, <1>7, <1>8, <1>9 DEF DriveNext, DriverStep

\* A step that is handled is the last word of its client, and it is kept if there is
\* room: then the client's next action does not start an episode.
LEMMA HandledKeepsStarts ==
    ASSUME TrainInv, TrainingStep
    PROVE  StartsFit'
<1> SUFFICES ASSUME NEW d \in Clients PROVE StartFits(d)'
  BY DEF StartsFit
<1>1. PoolInv /\ PoolTypeOK /\ round \in Nat /\ StartsFit
  BY DEF TrainInv, PoolInv, PoolTypeOK
<1>2. HandleStep /\ Handled.client \in Clients /\ Handled.kind = "step" /\ Fits(Handled)
  BY StepHandled
<1>3. /\ NextEvent /\ batch' = Tail(batch)
      /\ UNCHANGED <<events, command, task, observing, round>>
  BY <1>2 DEF HandleStep, actorVars, roundVars
<1>4. /\ Handled \in Pending /\ Pending' \subseteq Pending
      /\ Speaks(batch, Handled.client) /\ ~Speaks(batch', Handled.client)
  BY <1>1, <1>2, <1>3, HandledIsTaken
<1>5. Part(d)' = "due" => Part(d) = "due"
  BY <1>1, <1>2, <1>3, DriverPlaysRounds, DueStays
<1>6. CASE d # Handled.client
  <2>1. kept'[d] = kept[d] /\ (collecting' => collecting)
    <3>1. CASE UNCHANGED trainingVars
      BY <3>1 DEF trainingVars
    <3>2. CASE ReceiveTransition(Handled)
      BY <1>6, <3>2, KeepsTransition DEF ReceiveTransition
    <3> QED BY <3>1, <3>2, StepHandled
  <2>2. available'[d] = available[d]
    BY <1>1, <1>2, <1>6 DEF HandleStep, PoolTypeOK
  <2>3. Current(d)' <=> Current(d)
    BY <1>3, <2>1 DEF Current
  <2> QED BY <1>1, <1>3, <1>4, <1>5, <2>1, <2>2, <2>3 DEF StartsFit, StartFits
<1>7. CASE d = Handled.client
  <2>1. TurnAt(d, "batch")
    BY <1>1, <1>4, <1>7 DEF PoolInv, OneTurn, TurnAt
  <2>2. /\ command'[d].kind # "action" /\ task'[d].kind # "action"
        /\ \A e \in Pending' : e.client = d => e.kind = "error"
    BY <1>3, <1>4, <1>7, <2>1, PendingIsSaid, CommandsTyped DEF TurnAt
  <2>3. CASE ~Handled.valid /\ UNCHANGED trainingVars
    <3>1. Handled.ended
      BY <1>2, <2>3 DEF Fits
    <3>2. UNCHANGED <<available, kept, collecting>>
      BY <1>2, <2>3, <3>1 DEF HandleStep, trainingVars
    <3>3. Current(d)' <=> Current(d)
      BY <1>3, <3>2 DEF Current
    <3> QED BY <1>1, <1>5, <2>2, <3>2, <3>3 DEF StartsFit, StartFits
  <2>4. CASE Handled.valid /\ ReceiveTransition(Handled)
    <3>1. ~Handled.ended /\ observing[d]
      BY <1>2, <1>7, <2>4 DEF Fits
    <3>2. available'[d] = "next"
      BY <1>1, <1>2, <1>7, <3>1 DEF HandleStep, PoolTypeOK
    <3>3. Part(d)' # "due"
      BY <1>3, <3>1 DEF Part
    <3>4. ASSUME collecting', Len(kept'[d]) < RolloutLength
          PROVE  Current(d)'
      <4>1. collecting /\ kept' = Add(Handled)
        BY <2>4, <3>4 DEF ReceiveTransition
      <4>2. Len(kept[d]) < RolloutLength
        BY <1>7, <3>4, <4>1, KeepsTransition
      <4>3. kept[d] \in Seq(Transitions) /\ Kept(Handled) \in Transitions
            /\ kept'[d] = Append(kept[d], Kept(Handled))
        BY <1>7, <4>1, <4>2, StepHandled, AddKeeps, KeptTyped DEF TrainInv, TrainTypeOK
      <4>4. kept'[d] # <<>> /\ kept'[d][Len(kept'[d])] = Kept(Handled)
        BY <4>3
      <4>5. Kept(Handled).round = round'
        BY <1>3, StepHandled, KeptTyped
      <4> QED BY <4>4, <4>5 DEF Current
    <3> QED BY <2>2, <3>2, <3>3, <3>4 DEF StartFits
  <2> QED BY <2>3, <2>4, StepHandled
<1> QED BY <1>6, <1>7

\* The first round of a rollout and every later one begin with nothing kept of them.
LEMMA BeginRoundKeepsStarts ==
    ASSUME TrainInv, NEW v \in Versions, BeginRound(v), driver = "boundary" \/ driver = "idle",
           kept' = kept \/ kept' = EmptyRollout
    PROVE  StartsFit'
<1> SUFFICES ASSUME NEW c \in Clients PROVE StartFits(c)'
  BY DEF StartsFit
<1>1. PoolInv /\ round \in Nat
  BY DEF TrainInv, PoolInv, PoolTypeOK
<1>2. /\ round' = round + 1 /\ available'[c] = "none"
      /\ UNCHANGED <<command, task, events, batch>>
  BY DEF BeginRound, NoneAvailable, actorVars
<1>3. Pending' = Pending
  BY <1>2 DEF Pending
<1>4. ~Current(c)'
  <2>1. CASE kept' = EmptyRollout
    BY <2>1 DEF Current, EmptyRollout
  <2>2. CASE kept' = kept /\ kept[c] # <<>>
    <3>1. kept[c] \in Seq(Transitions)
      BY DEF TrainInv, TrainTypeOK
    <3>2. Len(kept[c]) \in DOMAIN kept[c] /\ kept[c][Len(kept[c])] \in Transitions
      BY <2>2, <3>1
    <3>3. kept[c][Len(kept[c])].round <= round /\ kept[c][Len(kept[c])].round \in Nat
      BY <3>2 DEF TrainInv, RoundsKept, Transitions
    <3> QED BY <1>1, <1>2, <2>2, <3>3 DEF Current
  <2>3. CASE kept' = kept /\ kept[c] = <<>>
    BY <2>3 DEF Current
  <2> QED BY <2>1, <2>2, <2>3
<1> QED BY <1>1, <1>2, <1>3, <1>4, BetweenRounds, CommandsTyped DEF StartFits

\* Every step keeps the marks of what is to come.
LEMMA StepStartsFit ==
    ASSUME TrainInv, TrainNext
    PROVE  StartsFit'
<1>1. ASSUME UNCHANGED <<kept, collecting, round, policy, observing, episode, events, batch, results,
                         available, command, task>>
      PROVE  StartsFit'
  <2>1. Ends' = Ends /\ Pending' = Pending
    BY <1>1 DEF Ends, Pending
  <2>2. [Rounds!GlobalNext]_Rounds!globalVars /\ round \in Nat
    BY <1>1, <2>1, RoundsStutter DEF TrainInv, PoolInv, PoolTypeOK
  <2>3. \A c \in Clients : Part(c)' = "due" => Part(c) = "due"
    BY <1>1, <2>2, DueStays
  <2> QED BY <1>1, <2>1, <2>3, StartStays DEF StartsFit
<1>2. CASE OptimizerEnds
  BY <1>1, <1>2 DEF OptimizerEnds, poolVars, actorVars, driverVars, roundVars
<1>3. CASE Boundary
  <2>1. driver = "boundary"
    BY <1>3 DEF Boundary
  <2>2. CASE KeepPolicy
    BY <2>1, <2>2, NextVersion, BeginRoundKeepsStarts DEF KeepPolicy, trainingVars
  <2>3. CASE AdoptPolicy /\ updates' < Updates
    <3>1. BeginRound(active') /\ kept' = EmptyRollout /\ active' \in Versions
      BY <2>1, <2>3, NextVersion DEF AdoptPolicy, NextRollout
    <3> QED BY <2>1, <3>1, BeginRoundKeepsStarts
  <2>4. CASE AdoptPolicy /\ ~(updates' < Updates)
    BY <1>1, <2>4 DEF AdoptPolicy, NextRollout, EndDrive, actorVars, roundVars
  <2>5. CASE RefuseResult
    BY <1>1, <2>1, <2>5, RefusedForFailure DEF RefuseResult, Fail, TrainInv, actorVars, roundVars
  <2> QED BY <1>3, <2>2, <2>3, <2>4, <2>5 DEF Boundary
<1>4. CASE StartTraining
  BY <1>4, NextVersion, BeginRoundKeepsStarts DEF StartTraining, trainingVars
<1>5. CASE EndTraining
  BY <1>1, <1>5 DEF EndTraining, Close, trainingVars, actorVars, roundVars
<1> QED BY <1>2, <1>3, <1>4, <1>5, ActorKeepsStarts, DriverKeepsStarts, HandledKeepsStarts DEF TrainNext

-----------------------------------------------------------------------------
(* Theorems *)

\* A training begins within its invariant.
LEMMA InitTrainInv == TrainInit => TrainInv
<1> SUFFICES ASSUME TrainInit PROVE TrainInv
  OBVIOUS
<1>1. PoolInv /\ PoolInit
  BY InitPoolInv DEF TrainInit
<1>2. TrainTypeOK
  <2>1. EmptyRollout \in [Clients -> Seq(Transitions)]
    BY DEF EmptyRollout
  <2> QED BY <2>1 DEF TrainInit, TrainTypeOK
<1>3. PoliciesFit
  BY <1>1, VersionsCount DEF TrainInit, PoolInit, PoliciesFit, InRound
<1>4. \A c \in Clients : kept[c] = <<>> /\ DOMAIN kept[c] = {}
  BY DEF TrainInit, EmptyRollout
<1>5. RoundsKept /\ RolloutOfOnePolicy /\ StartsMarkRounds
  BY <1>4 DEF RoundsKept, RolloutOfOnePolicy, StartsMarkRounds
<1>6. StartsFit
  <2>1. Pending = {}
    BY <1>1, PendingIsSaid, NobodySpeaks DEF PoolInit
  <2>2. \A c \in Clients : available[c] = "none" /\ command[c] = NoCommand /\ task[c] = NoCommand
    BY <1>1 DEF PoolInit, NoneAvailable
  <2> QED BY <1>4, <2>1, <2>2, CommandsTyped DEF StartsFit, StartFits, Current
<1>7. AbortsHaveCause
  BY <1>1 DEF PoolInit, AbortsHaveCause
<1> QED BY <1>1, <1>2, <1>3, <1>5, <1>6, <1>7 DEF TrainInv

\* Every step of a training keeps its invariant.
LEMMA StepTrainInv ==
    ASSUME TrainInv, [TrainNext]_trainVars
    PROVE  TrainInv'
<1>1. CASE TrainNext
  BY <1>1, TrainKeepsPool, StepTrainTypeOK, StepPoliciesFit, StepRoundsKept, StepOnePolicy,
     StepStartsFit, StepStartsMark DEF TrainInv
<1>2. CASE UNCHANGED trainVars
  <2>1. UNCHANGED poolVars /\ UNCHANGED trainingVars
    BY <1>2 DEF trainVars
  <2>2. UNCHANGED <<collecting, rolloutPolicy, kept, optimizing, source, output, active, updates,
                    driver, policy, round, available, command, task, observing, episode, events,
                    batch, results>>
    BY <2>1 DEF trainingVars, poolVars, actorVars, driverVars, roundVars
  <2>3. PoolInv' /\ AbortsHaveCause'
    BY <2>1, StepPoolInv DEF TrainInv
  <2>4. TrainTypeOK' /\ PoliciesFit' /\ RoundsKept' /\ RolloutOfOnePolicy' /\ StartsMarkRounds'
    BY <2>2 DEF TrainInv, TrainTypeOK, PoliciesFit, InRound, RoundsKept, RolloutOfOnePolicy,
                StartsMarkRounds
  <2>5. Pending' = Pending /\ Ends' = Ends
    BY <2>2 DEF Pending, Ends
  <2>6. \A c : Ended(c)' <=> Ended(c)
    BY <2>5, EndedByEnds
  <2>7. StartsFit'
    BY <2>2, <2>5, <2>6 DEF TrainInv, StartsFit, StartFits, Current, Part
  <2> QED BY <2>3, <2>4, <2>7 DEF TrainInv
<1> QED BY <1>1, <1>2

\* The invariant of a training.
THEOREM TrainInvariant == TrainSpec => []TrainInv
  BY InitTrainInv, StepTrainInv, PTL DEF TrainSpec

\* A training is only ever aborted because a client, the start or the optimiser failed,
\* or because reconcile_round refuses a round whose clients play different rounds of the
\* server: no result of the optimiser is stale, and no transition meets another
\* policy's rollout.
THEOREM TrainingAbortsHaveCause == TrainSpec => []AbortsHaveCause
  BY TrainInvariant, PTL DEF TrainInv

\* Every transition of a rollout was sampled by the policy the rollout is of, whenever
\* the optimiser's result is ready.
THEOREM RolloutsAreOfOnePolicy == TrainSpec => []RolloutOfOnePolicy
  BY TrainInvariant, PTL DEF TrainInv

\* The marks that episodes are cut by are right in every rollout, for any length.
THEOREM RolloutsMarkStarts == TrainSpec => []StartsMarkRounds
  BY TrainInvariant, PTL DEF TrainInv

\* Every step of a training is a step of global rounds, or none.
LEMMA TrainStepPlaysRounds ==
    ASSUME TrainInv, [TrainNext]_trainVars
    PROVE  [Rounds!GlobalNext]_Rounds!globalVars
<1>1. PoolInv
  BY DEF TrainInv
<1>2. ASSUME UNCHANGED <<round, policy, observing, episode, events, batch, results>>
      PROVE  UNCHANGED Rounds!globalVars
  BY <1>2, RoundsStutter DEF Ends, Pending
<1>3. CASE ActorNext
  BY <1>1, <1>3, ActorPlaysRounds DEF ActorNext
<1>4. CASE DriveNext
  BY <1>1, <1>4, DriverPlaysRounds DEF DriveNext
<1>5. CASE TrainingStep
  BY <1>1, <1>5, StepHandled, DriverPlaysRounds
<1>6. CASE OptimizerEnds
  BY <1>2, <1>6 DEF OptimizerEnds, poolVars, actorVars, driverVars, roundVars
<1>7. CASE Boundary
  <2>1. driver = "boundary"
    BY <1>7 DEF Boundary
  <2>2. CASE KeepPolicy
    BY <1>1, <2>1, <2>2, NextVersion, BeginRoundOpensRound DEF KeepPolicy
  <2>3. CASE AdoptPolicy
    <3>1. active' \in Versions
      BY <2>1, <2>3, NextVersion
    <3>2. CASE BeginRound(active')
      BY <1>1, <2>1, <3>1, <3>2, BeginRoundOpensRound
    <3>3. CASE EndDrive
      BY <1>2, <3>3 DEF EndDrive, actorVars, roundVars
    <3> QED BY <2>3, <3>2, <3>3 DEF AdoptPolicy
  <2>4. CASE RefuseResult
    BY <1>2, <2>4 DEF RefuseResult, Fail, actorVars, roundVars
  <2> QED BY <1>7, <2>2, <2>3, <2>4 DEF Boundary
<1>8. CASE StartTraining
  BY <1>1, <1>8, NextVersion, BeginRoundOpensRound DEF StartTraining
<1>9. CASE EndTraining
  BY <1>2, <1>9 DEF EndTraining, Close, actorVars, roundVars
<1>10. CASE UNCHANGED trainVars
  BY <1>2, <1>10 DEF trainVars, poolVars, actorVars, driverVars, roundVars
<1> QED BY <1>3, <1>4, <1>5, <1>6, <1>7, <1>8, <1>9, <1>10 DEF TrainNext

\* A training plays global rounds: a policy that is ready in the middle of a round
\* never plays in it.
THEOREM TrainingImplementsRounds == TrainSpec => PoolPlaysRounds
<1>1. TrainInit => Rounds!GlobalInit
  BY InitPlaysRounds DEF TrainInit
<1> QED BY <1>1, TrainInvariant, TrainStepPlaysRounds, PTL
        DEF TrainSpec, PoolPlaysRounds, Rounds!GlobalSpec

=============================================================================
