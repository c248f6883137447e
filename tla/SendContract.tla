---------------------------- MODULE SendContract ----------------------------
(***************************************************************************)
(* What POST /conversations/{id}/messages promises for one idempotency     *)
(* key, with requests, retries, connections and crashes abstracted away.   *)
(*                                                                         *)
(* A key is submitted at most once, put on the wire at most once, reaches  *)
(* the provider at most once, and settles at most once.  It may settle as  *)
(* "sent" only after the provider took it.  The provider may take it at    *)
(* any time after dispatch, also after the API has given up on it.         *)
(***************************************************************************)
CONSTANT Keys

VARIABLES stage,      \* stage[k]: how far the command for key k has come
          delivered   \* the keys whose message the provider accepted

contractVars == <<stage, delivered>>

Settled == {"completed", "failed", "unknown"}
Stages  == {"none", "pending", "dispatched"} \cup Settled

ContractTypeOK ==
    /\ stage \in [Keys -> Stages]
    /\ delivered \in SUBSET Keys

ContractInit ==
    /\ stage = [k \in Keys |-> "none"]
    /\ delivered = {}

Submit(k) ==
    /\ stage[k] = "none"
    /\ stage' = [stage EXCEPT ![k] = "pending"]
    /\ UNCHANGED delivered

Dispatch(k) ==
    /\ stage[k] = "pending"
    /\ stage' = [stage EXCEPT ![k] = "dispatched"]
    /\ UNCHANGED delivered

\* The provider accepts the message: once, and never before dispatch.
Accept(k) ==
    /\ stage[k] \notin {"none", "pending"}
    /\ k \notin delivered
    /\ delivered' = delivered \cup {k}
    /\ UNCHANGED stage

Settle(k, s) ==
    /\ stage[k] = "dispatched"
    /\ s = "completed" => k \in delivered
    /\ stage' = [stage EXCEPT ![k] = s]
    /\ UNCHANGED delivered

ContractNext ==
    \E k \in Keys :
        \/ Submit(k)
        \/ Dispatch(k)
        \/ Accept(k)
        \/ \E s \in Settled : Settle(k, s)

ContractSpec == ContractInit /\ [][ContractNext]_contractVars
=============================================================================
