------------------------------ MODULE WorkerHub ------------------------------
(***************************************************************************)
(* Worker connections of one account: enrolment and authentication         *)
(* (postgres.AccountStore), the register of live connections and the       *)
(* account's status (gateway.Hub), deletion of the account and restart of  *)
(* the API.                                                                *)
(*                                                                         *)
(* Several worker processes may have been given the account's enrolment    *)
(* token.  A connection is one call of ServeWorker; its slot is free again *)
(* when the call has returned.  Heartbeats only move last_seen_at and are  *)
(* left out; their absence is the read deadline of Leave.                  *)
(***************************************************************************)
EXTENDS Naturals, Sequences, FiniteSets

CONSTANTS Workers,     \* worker processes
          Conns,       \* slots for calls of ServeWorker
          NoWorker,    \* a free slot has no owner
          NoConn,      \* no connection is registered
          MaxFailures, \* bound on crashes, lost connections, store errors
          MaxRestarts  \* bound on restarts of a worker process

ASSUME NoWorkerAssumption == NoWorker \notin Workers
ASSUME NoConnAssumption == NoConn \notin Conns
ASSUME BoundsAssumption == MaxFailures \in Nat /\ MaxRestarts \in Nat

VARIABLES
    account,    \* the row of accounts and its pairing token
    conn,       \* the calls of ServeWorker
    registered, \* Hub.workers of the account
    up,         \* the API serves requests
    deletion,   \* progress of API.deleteAccount
    token,      \* what a worker presents in its hello
    linked,     \* the worker's provider account is linked
    reports,    \* the worker's account.status events not yet acknowledged
    unset,      \* an offline status could not be written
    restarts,   \* worker restarts so far
    failures    \* failures so far

workerVars == <<token, linked, reports, restarts>>
hubVars == <<conn, registered>>
vars == <<account, conn, registered, up, deletion, token, linked, reports, unset,
          restarts, failures>>

Tokens == {"enrollment", "credential"}
Statuses == {"offline", "unlinked", "live"}
Reported == {"unlinked", "live"}

Phases == {"free", "hello", "authenticated", "ready", "serving", "leaving"}

Slot == [phase  : Phases,
         owner  : Workers \cup {NoWorker},
         token  : Tokens,
         gen    : Nat,      \* workerConnection.generation
         issued : BOOLEAN,  \* the ready envelope carries a credential
         ready  : BOOLEAN,  \* the ready envelope is under way
         peer   : BOOLEAN,  \* the worker's end is open
         broken : BOOLEAN]  \* the hub's next read or write fails

TypeOK ==
    /\ account \in [exists : BOOLEAN, redeemed : BOOLEAN, expired : BOOLEAN,
                    generation : Nat, status : Statuses]
    /\ conn \in [Conns -> Slot]
    /\ registered \in Conns \cup {NoConn}
    /\ up \in BOOLEAN
    /\ deletion \in {"none", "deleted", "unconfirmed", "done"}
    /\ token \in [Workers -> Tokens]
    /\ linked \in [Workers -> BOOLEAN]
    /\ reports \in [Workers -> Seq(Reported)]
    /\ unset \in BOOLEAN
    /\ restarts \in 0..MaxRestarts
    /\ failures \in 0..MaxFailures

Free == [phase |-> "free", owner |-> NoWorker, token |-> "enrollment", gen |-> 0,
         issued |-> FALSE, ready |-> FALSE, peer |-> FALSE, broken |-> FALSE]

\* CreateAccount has stored the account, unlinked, and its token; each worker
\* has put its first status, "unlinked", into its spool.
Init ==
    /\ account = [exists |-> TRUE, redeemed |-> FALSE, expired |-> FALSE,
                  generation |-> 0, status |-> "unlinked"]
    /\ conn = [c \in Conns |-> Free]
    /\ registered = NoConn
    /\ up = TRUE
    /\ deletion = "none"
    /\ token = [w \in Workers |-> "enrollment"]
    /\ linked = [w \in Workers |-> FALSE]
    /\ reports = [w \in Workers |-> <<"unlinked">>]
    /\ unset = FALSE
    /\ restarts = 0
    /\ failures = 0

Fail == failures < MaxFailures /\ failures' = failures + 1

Connected(w) == \E c \in Conns : conn[c].owner = w /\ conn[c].peer

-----------------------------------------------------------------------------
(* Handshake                                                               *)

\* Client.connect: the worker dials and sends its hello.
Dial(w, c) ==
    /\ up
    /\ conn[c] = Free
    /\ ~Connected(w)
    /\ conn' = [conn EXCEPT ![c] = [Free EXCEPT !.phase = "hello", !.owner = w,
                                                !.token = token[w], !.peer = TRUE]]
    /\ UNCHANGED <<account, registered, up, deletion, workerVars, unset, failures>>

\* AuthenticateWorker with a credential that is stored and not revoked.
AuthenticateCredential(c) ==
    /\ conn[c].phase = "hello"
    /\ conn[c].token = "credential"
    /\ account.exists
    /\ conn' = [conn EXCEPT ![c].phase = "authenticated", ![c].gen = account.generation]
    /\ UNCHANGED <<account, registered, up, deletion, workerVars, unset, failures>>

\* Mutation: the token may be redeemed until it expires.
Redeemable_Again == account.exists /\ ~account.expired

Redeemable == account.exists /\ ~account.redeemed /\ ~account.expired

\* Mutation: the connection keeps the generation read before the update.
RedeemEnrollment_Stale(c) ==
    /\ conn[c].phase = "hello"
    /\ conn[c].token = "enrollment"
    /\ Redeemable
    /\ account' = [account EXCEPT !.redeemed = TRUE, !.status = "offline",
                                  !.generation = account.generation + 1]
    /\ conn' = [conn EXCEPT ![c].phase = "authenticated", ![c].issued = TRUE,
                            ![c].gen = account.generation]
    /\ UNCHANGED <<registered, up, deletion, workerVars, unset, failures>>

\* redeemEnrollment: one transaction that holds the token's and the account's
\* rows; the credential leaves with the ready envelope only.
RedeemEnrollment(c) ==
    /\ conn[c].phase = "hello"
    /\ conn[c].token = "enrollment"
    /\ Redeemable
    /\ account' = [account EXCEPT !.redeemed = TRUE, !.status = "offline",
                                  !.generation = account.generation + 1]
    /\ conn' = [conn EXCEPT ![c].phase = "authenticated", ![c].issued = TRUE,
                            ![c].gen = account.generation + 1]
    /\ UNCHANGED <<registered, up, deletion, workerVars, unset, failures>>

\* invalid_token, expired_token: the connection is closed.
AuthenticationFails(c) ==
    /\ conn[c].phase = "hello"
    /\ IF conn[c].token = "credential" THEN ~account.exists ELSE ~Redeemable
    /\ conn' = [conn EXCEPT ![c] = Free]
    /\ UNCHANGED <<account, registered, up, deletion, workerVars, unset, failures>>

\* Mutation: the newcomer replaces the connection that is there.
Register_Replaces(c) ==
    /\ conn[c].phase = "authenticated"
    /\ registered' = c
    /\ conn' = [conn EXCEPT ![c].phase = "ready"]
    /\ UNCHANGED <<account, up, deletion, workerVars, unset, failures>>

\* Hub.register
Register(c) ==
    /\ conn[c].phase = "authenticated"
    /\ registered = NoConn
    /\ registered' = c
    /\ conn' = [conn EXCEPT ![c].phase = "ready"]
    /\ UNCHANGED <<account, up, deletion, workerVars, unset, failures>>

\* already_connected
RegisterRefused(c) ==
    /\ conn[c].phase = "authenticated"
    /\ registered # NoConn
    /\ conn' = [conn EXCEPT ![c] = Free]
    /\ UNCHANGED <<account, registered, up, deletion, workerVars, unset, failures>>

\* The ready envelope is written; what is written to an end that has gone is
\* lost.
SendReady(c) ==
    /\ conn[c].phase = "ready"
    /\ ~conn[c].broken
    /\ conn' = [conn EXCEPT ![c].phase = "serving", ![c].ready = conn[c].peer]
    /\ UNCHANGED <<account, registered, up, deletion, workerVars, unset, failures>>

\* Mutation: the worker stores what the envelope carries even if it is empty.
ReceiveReady_Empty(c) ==
    /\ conn[c].ready
    /\ conn' = [conn EXCEPT ![c].ready = FALSE]
    /\ token' = [token EXCEPT ![conn[c].owner] = IF conn[c].issued THEN "credential" ELSE ""]
    /\ UNCHANGED <<account, registered, up, deletion, linked, reports, restarts, unset,
                   failures>>

\* The worker reads the ready envelope and stores the credential it carries.
ReceiveReady(c) ==
    /\ conn[c].ready
    /\ conn' = [conn EXCEPT ![c].ready = FALSE]
    /\ token' = IF conn[c].issued
                THEN [token EXCEPT ![conn[c].owner] = "credential"] ELSE token
    /\ UNCHANGED <<account, registered, up, deletion, linked, reports, restarts, unset,
                   failures>>

-----------------------------------------------------------------------------
(* Service                                                                 *)

\* SetWorkerStatus and SetWorkerIdentity update the row of the connection's
\* generation, if there is one.
WithStatus(c, s) ==
    IF account.exists /\ account.generation = conn[c].gen
    THEN [account EXCEPT !.status = s] ELSE account

\* account.status: SetWorkerIdentity, then the acknowledgement, which removes
\* the event from the worker's spool if the worker is still there.
HandleStatus(c) ==
    /\ conn[c].phase = "serving"
    /\ ~conn[c].ready
    /\ ~conn[c].broken
    /\ reports[conn[c].owner] # <<>>
    /\ account' = WithStatus(c, Head(reports[conn[c].owner]))
    /\ reports' = IF conn[c].peer
                  THEN [reports EXCEPT ![conn[c].owner] = Tail(reports[conn[c].owner])]
                  ELSE reports
    /\ UNCHANGED <<conn, registered, up, deletion, token, linked, restarts, unset,
                   failures>>

\* Mutation: the read deadline is never set.
Leave_NoDeadline(c) ==
    /\ conn[c].phase \in {"ready", "serving"}
    /\ conn[c].broken
    /\ registered' = IF registered = c THEN NoConn ELSE registered
    /\ conn' = [conn EXCEPT ![c].phase = "leaving", ![c].peer = FALSE,
                            ![c].ready = FALSE]
    /\ UNCHANGED <<account, up, deletion, workerVars, unset, failures>>

\* The call returns: a failed read or write, or the heartbeat deadline after
\* the worker's end has gone.  unregister takes the connection out of the
\* register under the hub's lock and releases the lock.
Leave(c) ==
    /\ conn[c].phase \in {"ready", "serving"}
    /\ conn[c].broken \/ ~conn[c].peer
    /\ registered' = IF registered = c THEN NoConn ELSE registered
    /\ conn' = [conn EXCEPT ![c].phase = "leaving", ![c].peer = FALSE,
                            ![c].ready = FALSE]
    /\ UNCHANGED <<account, up, deletion, workerVars, unset, failures>>

\* unregister: the status is written after the lock has been released.
SetOffline(c) ==
    /\ conn[c].phase = "leaving"
    /\ account' = WithStatus(c, "offline")
    /\ conn' = [conn EXCEPT ![c] = Free]
    /\ UNCHANGED <<registered, up, deletion, workerVars, unset, failures>>

\* unregister: the error is logged and nothing else.
SetOfflineFails(c) ==
    /\ conn[c].phase = "leaving"
    /\ Fail
    /\ unset' = TRUE
    /\ conn' = [conn EXCEPT ![c] = Free]
    /\ UNCHANGED <<account, registered, up, deletion, workerVars>>

-----------------------------------------------------------------------------
(* Account, worker processes, failures                                     *)

\* Ten minutes have passed.
TokenExpires ==
    /\ account.exists
    /\ ~account.expired
    /\ account' = [account EXCEPT !.expired = TRUE]
    /\ UNCHANGED <<hubVars, up, deletion, workerVars, unset, failures>>

\* DeleteAccount: the row and, by cascade, token and credential.
DeleteAccount ==
    /\ up
    /\ account.exists
    /\ account' = [account EXCEPT !.exists = FALSE]
    /\ deletion' = "deleted"
    /\ UNCHANGED <<hubVars, up, workerVars, unset, failures>>

\* DeleteAccount has committed and its reply is lost, with the connection to the
\* database or because the client has gone: deleteAccount answers with an error
\* and does not disconnect.  A retry finds no account and does not either.
DeleteUnconfirmed ==
    /\ up
    /\ account.exists
    /\ Fail
    /\ account' = [account EXCEPT !.exists = FALSE]
    /\ deletion' = "unconfirmed"
    /\ UNCHANGED <<hubVars, up, workerVars, unset>>

\* Mutation: the connection is left open.
Disconnect_Skipped ==
    /\ up
    /\ deletion = "deleted"
    /\ deletion' = "done"
    /\ UNCHANGED <<account, conn, registered, up, workerVars, unset, failures>>

\* Hub.Disconnect closes the connection registered at this moment.
Disconnect ==
    /\ up
    /\ deletion = "deleted"
    /\ deletion' = "done"
    /\ conn' = IF registered \in Conns
               THEN [conn EXCEPT ![registered].broken = TRUE] ELSE conn
    /\ UNCHANGED <<account, registered, up, workerVars, unset, failures>>

\* finishLink, authorizationStateReady: the provider account is linked.
Link(w) ==
    /\ token[w] = "credential"
    /\ ~linked[w]
    /\ linked' = [linked EXCEPT ![w] = TRUE]
    /\ reports' = [reports EXCEPT ![w] = Append(reports[w], "live")]
    /\ UNCHANGED <<account, hubVars, up, deletion, token, restarts, unset, failures>>

Hang(c) == [conn[c] EXCEPT !.peer = FALSE, !.ready = FALSE]

\* The worker process starts again: it reads its credential and its spool and
\* reports the state it finds.
WorkerRestart(w) ==
    /\ restarts < MaxRestarts
    /\ restarts' = restarts + 1
    /\ conn' = [c \in Conns |-> IF conn[c].owner = w THEN Hang(c) ELSE conn[c]]
    /\ reports' = [reports EXCEPT ![w] = Append(reports[w],
                                           IF linked[w] THEN "live" ELSE "unlinked")]
    /\ UNCHANGED <<account, registered, up, deletion, token, linked, unset, failures>>

\* The worker's end is lost, the hub does not know yet.
PeerDrops(c) ==
    /\ conn[c].peer
    /\ Fail
    /\ conn' = [conn EXCEPT ![c] = Hang(c)]
    /\ UNCHANGED <<account, registered, up, deletion, workerVars, unset>>

\* The hub's read or write, TouchWorker or SetWorkerIdentity fails.
HubError(c) ==
    /\ conn[c].phase \in {"ready", "serving"}
    /\ ~conn[c].broken
    /\ Fail
    /\ conn' = [conn EXCEPT ![c].broken = TRUE]
    /\ UNCHANGED <<account, registered, up, deletion, workerVars, unset>>

ApiCrash ==
    /\ up
    /\ Fail
    /\ up' = FALSE
    /\ conn' = [c \in Conns |-> Free]
    /\ registered' = NoConn
    /\ deletion' = IF deletion = "deleted" THEN "done" ELSE deletion
    /\ UNCHANGED <<account, workerVars, unset>>

\* Mutation: the API starts without resetting worker presence.
MarkWorkersOffline_Skipped ==
    /\ ~up
    /\ up' = TRUE
    /\ UNCHANGED <<account, hubVars, deletion, workerVars, unset, failures>>

\* main: MarkWorkersOffline, then the server listens.
MarkWorkersOffline ==
    /\ ~up
    /\ up' = TRUE
    /\ account' = IF account.status = "live"
                  THEN [account EXCEPT !.status = "offline"] ELSE account
    /\ unset' = FALSE
    /\ UNCHANGED <<hubVars, deletion, workerVars, failures>>

-----------------------------------------------------------------------------
HubStep(c) ==
    \/ AuthenticateCredential(c)
    \/ RedeemEnrollment(c)
    \/ AuthenticationFails(c)
    \/ Register(c)
    \/ RegisterRefused(c)
    \/ SendReady(c)
    \/ Leave(c)
    \/ SetOffline(c)

Next ==
    \/ \E w \in Workers, c \in Conns : Dial(w, c)
    \/ \E c \in Conns :
          \/ HubStep(c)
          \/ ReceiveReady(c)
          \/ HandleStatus(c)
          \/ SetOfflineFails(c)
          \/ PeerDrops(c)
          \/ HubError(c)
    \/ \E w \in Workers : Link(w) \/ WorkerRestart(w)
    \/ TokenExpires
    \/ DeleteAccount
    \/ DeleteUnconfirmed
    \/ Disconnect
    \/ ApiCrash
    \/ MarkWorkersOffline

Spec == Init /\ [][Next]_vars

\* Handlers run to their end, the read deadline fires, workers keep dialling
\* and reading, a crashed API is started again.
Fairness ==
    /\ \A c \in Conns : /\ WF_vars(HubStep(c))
                        /\ WF_vars(ReceiveReady(c))
                        /\ WF_vars(HandleStatus(c))
    /\ \A w \in Workers : WF_vars(\E c \in Conns : Dial(w, c))
    /\ WF_vars(Disconnect)
    /\ WF_vars(MarkWorkersOffline)

FairSpec == Spec /\ Fairness

-----------------------------------------------------------------------------
(* Properties                                                              *)

Active(c) == conn[c].phase \in {"ready", "serving"}

\* "An account has exactly one active worker connection" (PLAN.md): the
\* connections being served are the registered one, however handshakes,
\* disconnects and reconnects of several workers interleave.
OneActiveWorker == \A c \in Conns : Active(c) => registered = c

Keyholders ==
    {w \in Workers :
        \/ token[w] = "credential"
        \/ \E c \in Conns : conn[c].owner = w /\ conn[c].issued}

\* The enrolment token is single use: a credential is given to one worker, even
\* when several present the token at the same time or again after a failure.
OneKeyholder == \A v, w \in Keyholders : v = w

\* The writes of a registered worker are not silently dropped by the generation
\* clause of SetWorkerIdentity and SetWorkerStatus.
RegisteredIsCurrent ==
    registered # NoConn => conn[registered].gen = account.generation

\* An account is not shown as live when no worker is there: a connection is
\* registered or about to write its offline status.
LiveMeansConnected ==
    up /\ account.exists /\ account.status = "live"
        => \/ registered # NoConn
           \/ \E c \in Conns : conn[c].phase = "leaving"
           \/ unset

\* A worker that has its credential is connected again in the end, also when
\* the hub has not noticed yet that its previous connection is dead.
KeyholderReconnects ==
    \A w \in Workers :
        token[w] = "credential"
            ~> \/ ~account.exists
               \/ \E c \in Conns : registered = c /\ conn[c].owner = w /\ conn[c].peer

\* A connection that is registered when its account is deleted is closed, if the
\* handler has learned that the account is deleted.  Of a deletion that stays
\* unconfirmed the worker hears nothing.
DeletedIsClosed ==
    \A c \in Conns :
        (deletion = "deleted" /\ registered = c) ~> registered # c

\* "Deleting an account revokes its workers immediately" (PLAN.md): once the
\* delete request has been answered, no worker of the account is served.
DeletedHasNoWorker ==
    deletion = "done" => \A c \in Conns : Active(c) => conn[c].broken

\* "Worker reachability is visible in the API" (PLAN.md): an account whose
\* linked worker stays connected is not shown as offline for ever.
ReachableIsReported ==
    \A c \in Conns :
        (registered = c /\ account.exists /\ linked[conn[c].owner])
            ~> (registered # c \/ ~account.exists \/ account.status # "offline")
=============================================================================
