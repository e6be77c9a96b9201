---------------------------- MODULE GlobalRounds ----------------------------
(***************************************************************************)
(* What a client pool promises whoever drives it: global rounds.  A round  *)
(* has a number and a policy that do not change while it lasts; every      *)
(* client plays one episode of it, armed with that number and policy, each *)
(* at its own pace; the next round begins when all of them have ended.     *)
(*                                                                         *)
(* ClientPool!Rounds is the refinement mapping.                            *)
(***************************************************************************)
EXTENDS Naturals

CONSTANTS Clients, Versions

VARIABLES
    number,     \* of the current round, 0 before the first
    version,    \* of the policy that plays it
    part,       \* what each client has done of it: "due", "playing" or "ended"
    played      \* the number and version each client's last episode was armed with

globalVars == <<number, version, part, played>>

GlobalInit ==
    /\ number = 0
    /\ version = 0
    /\ part = [c \in Clients |-> "ended"]
    /\ played = [c \in Clients |-> <<0, 0>>]

OpenRound(v) ==
    /\ \A c \in Clients : part[c] = "ended"
    /\ number' = number + 1
    /\ version' = v
    /\ part' = [c \in Clients |-> "due"]
    /\ UNCHANGED played

BeginEpisode(c) ==
    /\ part[c] = "due"
    /\ part' = [part EXCEPT ![c] = "playing"]
    /\ played' = [played EXCEPT ![c] = <<number, version>>]
    /\ UNCHANGED <<number, version>>

EndEpisode(c) ==
    /\ part[c] = "playing"
    /\ part' = [part EXCEPT ![c] = "ended"]
    /\ UNCHANGED <<number, version, played>>

GlobalNext ==
    \/ \E v \in Versions : OpenRound(v)
    \/ \E c \in Clients : BeginEpisode(c) \/ EndEpisode(c)

GlobalSpec == GlobalInit /\ [][GlobalNext]_globalVars

=============================================================================
