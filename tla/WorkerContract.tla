--------------------------- MODULE WorkerContract ---------------------------
(***************************************************************************)
(* What a worker promises the API about the commands that have an effect   *)
(* at the provider, a send or the completion of a link, whichever provider *)
(* process stands behind it.                                               *)
(*                                                                         *)
(* The provider hears of a command at most once and never after its answer.*)
(* A command is answered at most once.  "ok" is answered only for an       *)
(* effect the provider has accepted, "unknown" only when the worker has    *)
(* lost sight of the effect.  "failed" means that there is no effect, that *)
(* the worker has lost sight of it, or that the provider has accepted and  *)
(* a step the command takes after that has failed.                         *)
(***************************************************************************)
CONSTANT Commands

VARIABLES answer,   \* answer[c]: what the worker wrote to the API
          effect,   \* effect[c]: what became of c at the provider
          blind,    \* the commands whose outcome the worker cannot see any more
          partial   \* the commands of which a step after the effect has failed

contractVars == <<answer, effect, blind, partial>>

Answers == {"ok", "failed", "unknown"}
Effects == {"none", "open", "accepted", "refused"}

ContractTypeOK ==
    /\ answer \in [Commands -> Answers \cup {"none"}]
    /\ effect \in [Commands -> Effects]
    /\ blind \in SUBSET Commands
    /\ partial \in SUBSET Commands

ContractInit ==
    /\ answer = [c \in Commands |-> "none"]
    /\ effect = [c \in Commands |-> "none"]
    /\ blind = {}
    /\ partial = {}

\* The request goes to the provider process.
Submit(c) ==
    /\ answer[c] = "none"
    /\ effect[c] = "none"
    /\ effect' = [effect EXCEPT ![c] = "open"]
    /\ UNCHANGED <<answer, blind, partial>>

\* The provider decides; the worker may have given up on it by then.
Decide(c) ==
    /\ effect[c] = "open"
    /\ \E d \in {"accepted", "refused"} : effect' = [effect EXCEPT ![c] = d]
    /\ UNCHANGED <<answer, blind, partial>>

\* A time limit passes, the provider process or the link to it is lost, or
\* what it says cannot be read.  Several commands can be hit at once.
LoseSight(C) ==
    /\ \A c \in C : effect[c] # "none" /\ answer[c] = "none"
    /\ blind' = blind \cup C
    /\ UNCHANGED <<answer, effect, partial>>

\* The worker has been told that the provider accepted, and what it does next
\* for the command fails.
FallShort(c) ==
    /\ effect[c] = "accepted"
    /\ answer[c] = "none"
    /\ partial' = partial \cup {c}
    /\ UNCHANGED <<answer, effect, blind>>

Answer(c, a) ==
    /\ answer[c] = "none"
    /\ a = "ok" => effect[c] = "accepted"
    /\ a = "unknown" => c \in blind
    /\ a = "failed" => effect[c] \in {"none", "refused"} \/ c \in blind \cup partial
    /\ answer' = [answer EXCEPT ![c] = a]
    /\ UNCHANGED <<effect, blind, partial>>

ContractNext ==
    \/ \E c \in Commands : Submit(c) \/ Decide(c) \/ FallShort(c)
    \/ \E c \in Commands, a \in Answers : Answer(c, a)
    \/ \E C \in SUBSET Commands : LoseSight(C)

ContractSpec == ContractInit /\ [][ContractNext]_contractVars
=============================================================================
