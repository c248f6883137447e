---------------------------- MODULE EventContract ----------------------------
(***************************************************************************)
(* What the inbound path promises about provider messages, without spools, *)
(* connections and acknowledgements: a message the worker has taken charge *)
(* of is not stored while it is there already, it is announced to the      *)
(* clients by the same step that stores it, and the worker lets go of it   *)
(* only after it has been stored.  Reading history may store a message     *)
(* without announcing it.  Retention drops stored messages, and what the   *)
(* worker still holds is then stored and announced once more.              *)
(***************************************************************************)
EXTENDS Naturals, Sequences

CONSTANT Messages

VARIABLES held,      \* the messages the worker is in charge of
          stored,    \* the messages in the database
          dropped,   \* the messages that were there and have been deleted
          announced  \* the messages announced to clients, in commit order

contractVars == <<held, stored, dropped, announced>>

ContractInit ==
    /\ held = {}
    /\ stored = {}
    /\ dropped = {}
    /\ announced = <<>>

\* The provider may hand over the same message again at any time.
Hold(m) ==
    /\ held' = held \cup {m}
    /\ UNCHANGED <<stored, dropped, announced>>

Store(m) ==
    /\ m \in held
    /\ m \notin stored
    /\ stored' = stored \cup {m}
    /\ announced' = Append(announced, m)
    /\ UNCHANGED <<held, dropped>>

Cache(m) ==
    /\ stored' = stored \cup {m}
    /\ UNCHANGED <<held, dropped, announced>>

Release(m) ==
    /\ m \in held
    /\ m \in stored \cup dropped
    /\ held' = held \ {m}
    /\ UNCHANGED <<stored, dropped, announced>>

Drop(M) ==
    /\ M \subseteq stored
    /\ stored' = stored \ M
    /\ dropped' = dropped \cup M
    /\ UNCHANGED <<held, announced>>

ContractNext ==
    \/ \E m \in Messages : Hold(m) \/ Store(m) \/ Cache(m) \/ Release(m)
    \/ \E M \in SUBSET Messages : Drop(M)

ContractSpec == ContractInit /\ [][ContractNext]_contractVars
=============================================================================
