------------------------------ MODULE Realtime -------------------------------
(***************************************************************************)
(* The way to the clients of one user: transactions that insert into the   *)
(* outbox (insertOutbox), the loop that publishes pending entries          *)
(* (drainOutbox), and the realtime hub with its bounded queue per client   *)
(* connection (realtime.Hub).                                              *)
(*                                                                         *)
(* An outbox id is taken from the database sequence when a transaction     *)
(* inserts, so ids commit in any order.  account.status events are         *)
(* published straight from the worker event handler; each is the id 0.     *)
(***************************************************************************)
EXTENDS Naturals, Sequences, FiniteSets

CONSTANTS MaxEvents,   \* bound on outbox insertions
          BatchLimit,  \* the limit drainOutbox passes to PendingOutbox
          QueueLimit,  \* capacity of subscriber.events
          Subscribers, \* client connections
          MaxStatus,   \* bound on account.status events
          MaxToggles,  \* bound on subscribe and unsubscribe requests
          MaxFailures  \* bound on crashes and failed updates

ASSUME LimitsAssumption == BatchLimit \in Nat \ {0} /\ QueueLimit \in Nat \ {0}
ASSUME BoundsAssumption ==
    MaxEvents \in Nat /\ MaxStatus \in Nat /\ MaxToggles \in Nat /\ MaxFailures \in Nat

VARIABLES
    outbox,     \* the state of each id's row
    inserted,   \* ids taken so far
    batch,      \* the ids drainOutbox still has to publish
    published,  \* the head of batch is published and not yet marked
    times,      \* how often an id has been published
    sub,        \* the client connections
    due,        \* what was published for a connection while it was active
    received,   \* what the connection's client was sent
    statuses, toggles, failures

storeVars == <<outbox, inserted>>
drainVars == <<batch, published>>
clientVars == <<sub, due, received>>
vars == <<storeVars, drainVars, times, clientVars, statuses, toggles, failures>>

Ids == 1..MaxEvents

\* What is published: an outbox entry, or 0 for an account.status.
Events == 0..MaxEvents

Subscriber == [phase  : {"new", "open", "gone"},
               active : BOOLEAN,          \* subscriber.active
               done   : BOOLEAN,          \* subscriber.done is closed
               queue  : Seq(Events)]

TypeOK ==
    /\ outbox \in [Ids -> {"none", "inserted", "aborted", "pending", "delivered", "pruned"}]
    /\ inserted \in 0..MaxEvents
    /\ batch \in Seq(Ids)
    /\ published \in BOOLEAN
    /\ times \in [Ids -> Nat]
    /\ sub \in [Subscribers -> Subscriber]
    /\ \A s \in Subscribers : Len(sub[s].queue) <= QueueLimit
    /\ due \in [Subscribers -> Seq(Events)]
    /\ received \in [Subscribers -> Seq(Events)]
    /\ statuses \in 0..MaxStatus
    /\ toggles \in 0..MaxToggles
    /\ failures \in 0..MaxFailures

Closed == [phase |-> "gone", active |-> FALSE, done |-> TRUE, queue |-> <<>>]

Init ==
    /\ outbox = [i \in Ids |-> "none"]
    /\ inserted = 0
    /\ batch = <<>>
    /\ published = FALSE
    /\ times = [i \in Ids |-> 0]
    /\ sub = [s \in Subscribers |->
                [phase |-> "new", active |-> FALSE, done |-> FALSE, queue |-> <<>>]]
    /\ due = [s \in Subscribers |-> <<>>]
    /\ received = [s \in Subscribers |-> <<>>]
    /\ statuses = 0
    /\ toggles = 0
    /\ failures = 0

Fail == failures < MaxFailures /\ failures' = failures + 1

-----------------------------------------------------------------------------
(* The outbox                                                              *)

\* insertOutbox inside a transaction: the id is taken, nobody else sees it.
InsertOutbox ==
    /\ inserted < MaxEvents
    /\ inserted' = inserted + 1
    /\ outbox' = [outbox EXCEPT ![inserted + 1] = "inserted"]
    /\ UNCHANGED <<drainVars, times, clientVars, statuses, toggles, failures>>

Commit(i) ==
    /\ outbox[i] = "inserted"
    /\ outbox' = [outbox EXCEPT ![i] = "pending"]
    /\ UNCHANGED <<inserted, drainVars, times, clientVars, statuses, toggles, failures>>

Rollback(i) ==
    /\ outbox[i] = "inserted"
    /\ outbox' = [outbox EXCEPT ![i] = "aborted"]
    /\ UNCHANGED <<inserted, drainVars, times, clientVars, statuses, toggles, failures>>

\* Mutation: only ids above the largest delivered one are read.
PendingIds_HighWater ==
    {i \in Ids : outbox[i] = "pending" /\ \A j \in Ids : outbox[j] = "delivered" => j < i}

PendingIds == {i \in Ids : outbox[i] = "pending"}

\* The first BatchLimit ids of a set, in order.
FirstIds(S) ==
    LET n == IF Cardinality(S) < BatchLimit THEN Cardinality(S) ELSE BatchLimit
    IN  [k \in 1..n |-> CHOOSE i \in S : Cardinality({j \in S : j < i}) = k - 1]

\* PendingOutbox at the start of drainOutbox.
PendingOutbox ==
    /\ batch = <<>>
    /\ PendingIds # {}
    /\ batch' = FirstIds(PendingIds)
    /\ UNCHANGED <<storeVars, published, times, clientVars, statuses, toggles, failures>>

\* Mutation: the update matches no row.
MarkOutboxDelivered_NoRow ==
    /\ published
    /\ batch' = Tail(batch)
    /\ published' = FALSE
    /\ UNCHANGED <<storeVars, times, clientVars, statuses, toggles, failures>>

\* The update is a no-op on a row that is marked already.
MarkOutboxDelivered ==
    /\ published
    /\ outbox' = [outbox EXCEPT ![Head(batch)] = "delivered"]
    /\ batch' = Tail(batch)
    /\ published' = FALSE
    /\ UNCHANGED <<inserted, times, clientVars, statuses, toggles, failures>>

\* drainOutbox returns the error; the next tick reads the entry again.
MarkOutboxFails ==
    /\ published
    /\ Fail
    /\ batch' = <<>>
    /\ published' = FALSE
    /\ UNCHANGED <<storeVars, times, clientVars, statuses, toggles>>

\* Prune: a delivered entry is deleted after seven days.
PruneOutbox(i) ==
    /\ outbox[i] = "delivered"
    /\ outbox' = [outbox EXCEPT ![i] = "pruned"]
    /\ UNCHANGED <<inserted, drainVars, times, clientVars, statuses, toggles, failures>>

-----------------------------------------------------------------------------
(* The realtime hub                                                        *)

Listening(s) == sub[s].phase = "open" /\ sub[s].active

\* Mutation: off by one at the capacity.
Offer_OneMore(s, e) ==
    IF Len(sub[s].queue) <= QueueLimit
    THEN [sub[s] EXCEPT !.queue = Append(sub[s].queue, e)]
    ELSE [sub[s] EXCEPT !.done = TRUE]

\* Mutation: an event that does not fit is dropped.
Offer_Drops(s, e) ==
    IF Len(sub[s].queue) < QueueLimit
    THEN [sub[s] EXCEPT !.queue = Append(sub[s].queue, e)] ELSE sub[s]

\* Publish to one connection: into the queue, or the connection is closed.
Offer(s, e) ==
    IF Len(sub[s].queue) < QueueLimit
    THEN [sub[s] EXCEPT !.queue = Append(sub[s].queue, e)]
    ELSE [sub[s] EXCEPT !.done = TRUE]

\* Hub.Publish: every active connection in the map, under the read lock.
Publish(e) ==
    /\ sub' = [s \in Subscribers |-> IF Listening(s) THEN Offer(s, e) ELSE sub[s]]
    /\ due' = [s \in Subscribers |-> IF Listening(s) THEN Append(due[s], e) ELSE due[s]]
    /\ UNCHANGED received

\* Mutation: the entry is marked before it is published.
PublishNext_MarksFirst ==
    /\ batch # <<>>
    /\ ~published
    /\ published' = TRUE
    /\ outbox' = [outbox EXCEPT ![Head(batch)] = "delivered"]
    /\ UNCHANGED <<inserted, batch, times, clientVars, statuses, toggles, failures>>

\* drainOutbox: the next entry of the batch.
PublishNext ==
    /\ batch # <<>>
    /\ ~published
    /\ published' = TRUE
    /\ times' = [times EXCEPT ![Head(batch)] = times[Head(batch)] + 1]
    /\ Publish(Head(batch))
    /\ UNCHANGED <<storeVars, batch, statuses, toggles, failures>>

\* The worker event handler publishes an account.status.
PublishStatus ==
    /\ statuses < MaxStatus
    /\ statuses' = statuses + 1
    /\ Publish(0)
    /\ UNCHANGED <<storeVars, drainVars, times, toggles, failures>>

\* Serve: a client connects; a connection is active from the start.
Add(s) ==
    /\ sub[s].phase = "new"
    /\ sub' = [sub EXCEPT ![s].phase = "open", ![s].active = TRUE]
    /\ UNCHANGED <<storeVars, drainVars, times, due, received, statuses, toggles, failures>>

\* Serve takes an event from the queue and writes it, unless the client has
\* unsubscribed.  The select may prefer the queue to a closed done channel.
Deliver(s) ==
    /\ sub[s].phase = "open"
    /\ sub[s].queue # <<>>
    /\ sub' = [sub EXCEPT ![s].queue = Tail(sub[s].queue)]
    /\ received' = IF sub[s].active
                   THEN [received EXCEPT ![s] = Append(received[s], Head(sub[s].queue))]
                   ELSE received
    /\ UNCHANGED <<storeVars, drainVars, times, due, statuses, toggles, failures>>

\* The client's unsubscribe.
Unsubscribe(s) ==
    /\ sub[s].phase = "open"
    /\ toggles < MaxToggles
    /\ toggles' = toggles + 1
    /\ sub' = [sub EXCEPT ![s].active = FALSE]
    /\ UNCHANGED <<storeVars, drainVars, times, due, received, statuses, failures>>

\* The client's subscribe: what is still in the queue is delivered after all.
Subscribe(s) ==
    /\ sub[s].phase = "open"
    /\ toggles < MaxToggles
    /\ toggles' = toggles + 1
    /\ sub' = [sub EXCEPT ![s].active = TRUE]
    /\ due' = [due EXCEPT ![s] = IF sub[s].active THEN due[s]
                                 ELSE received[s] \o sub[s].queue]
    /\ UNCHANGED <<storeVars, drainVars, times, received, statuses, failures>>

\* Mutation: Serve does not look at the done channel.
Remove_IgnoresDone(s) ==
    /\ sub[s].phase = "open"
    /\ FALSE
    /\ UNCHANGED vars

\* The connection leaves the map; its history is forgotten.
Close(S) ==
    /\ sub' = [s \in Subscribers |-> IF s \in S THEN Closed ELSE sub[s]]
    /\ due' = [s \in Subscribers |-> IF s \in S THEN <<>> ELSE due[s]]
    /\ received' = [s \in Subscribers |-> IF s \in S THEN <<>> ELSE received[s]]

\* Serve returns because the done channel is closed.
Remove(s) ==
    /\ sub[s].phase = "open"
    /\ sub[s].done
    /\ Close({s})
    /\ UNCHANGED <<storeVars, drainVars, times, statuses, toggles, failures>>

\* Serve returns because the client has gone or a write has failed; remove
\* closes the done channel as well.
ClientLeaves(s) ==
    /\ sub[s].phase = "open"
    /\ Close({s})
    /\ UNCHANGED <<storeVars, drainVars, times, statuses, toggles, failures>>

\* The API stops between any two steps: uncommitted rows roll back, the batch
\* and the client connections are gone.
ApiCrash ==
    /\ Fail
    /\ outbox' = [i \in Ids |-> IF outbox[i] = "inserted" THEN "aborted" ELSE outbox[i]]
    /\ batch' = <<>>
    /\ published' = FALSE
    /\ Close({s \in Subscribers : sub[s].phase = "open"})
    /\ UNCHANGED <<inserted, times, statuses, toggles>>

-----------------------------------------------------------------------------
Next ==
    \/ InsertOutbox
    \/ \E i \in Ids : Commit(i) \/ Rollback(i) \/ PruneOutbox(i)
    \/ PendingOutbox
    \/ PublishNext
    \/ MarkOutboxDelivered
    \/ MarkOutboxFails
    \/ PublishStatus
    \/ \E s \in Subscribers :
          \/ Add(s)
          \/ Deliver(s)
          \/ Unsubscribe(s)
          \/ Subscribe(s)
          \/ Remove(s)
          \/ ClientLeaves(s)
    \/ ApiCrash

Spec == Init /\ [][Next]_vars

\* The outbox loop ticks for ever, and Serve keeps selecting.
Fairness ==
    /\ WF_vars(PendingOutbox)
    /\ WF_vars(PublishNext)
    /\ WF_vars(MarkOutboxDelivered)
    /\ \A s \in Subscribers : WF_vars(Deliver(s)) /\ WF_vars(Remove(s))

FairSpec == Spec /\ Fairness

-----------------------------------------------------------------------------
(* Properties                                                              *)

\* "A database commit cannot be lost merely because the process crashes before
\* notifying a phone" (PLAN.md): an entry is marked delivered, and pruned, only
\* after it has been published.
DeliveredIsPublished ==
    \A i \in Ids : outbox[i] \in {"delivered", "pruned"} => times[i] > 0

\* Only what has been committed is published, and it is published a second time
\* only after a crash or a failed update.
PublishedAgainAfterFailure ==
    \A i \in Ids :
        /\ times[i] > 0 => outbox[i] \in {"pending", "delivered", "pruned"}
        /\ times[i] <= 1 + failures

\* A client that stays connected and subscribed has been sent, or has in its
\* queue, everything that was published, in that order: a slow client is
\* disconnected and never skips an event unnoticed.
NoSilentGap ==
    \A s \in Subscribers :
        Listening(s) /\ ~sub[s].done => due[s] = received[s] \o sub[s].queue

\* Every committed entry is published in the end, in whatever order the ids
\* commit.
CommittedIsPublished ==
    \A i \in Ids : outbox[i] = "pending" ~> outbox[i] = "delivered"

\* A connection whose queue overflowed is closed in the end.
OverflowIsClosed ==
    \A s \in Subscribers : sub[s].done ~> sub[s].phase = "gone"
=============================================================================
