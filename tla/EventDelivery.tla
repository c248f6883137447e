---------------------------- MODULE EventDelivery ----------------------------
(***************************************************************************)
(* Inbound events: from the provider through the worker's durable spool    *)
(* (worker.eventSpool), the worker session (worker.Client), the hub's read *)
(* loop (gateway.Hub.ServeWorker) and the ingest transaction               *)
(* (MessageStore.IngestMessage), and the acknowledgement back; beside it   *)
(* the history reads that store messages too (API.listMessages) and the    *)
(* retention job that deletes them (MessageStore.Prune).                   *)
(*                                                                         *)
(* One account.  Events are numbered in the order the provider produced    *)
(* them.  A connection has two ends that notice its death separately; the  *)
(* hub admits a new one only after it has let go of the old one.           *)
(***************************************************************************)
EXTENDS Naturals, Sequences, FiniteSets

CONSTANTS NEvents,     \* how many events the provider produces at most
          Messages,    \* provider message ids
          Incoming,    \* the ones whose direction is incoming
          ContentOf,   \* ContentOf[e]: a message id or an account.status state
          NoEntry,     \* nothing is being acknowledged
          Loads,       \* the workloads: how many events come, which messages age
          MaxFailures  \* bound on disconnects, crashes and disk errors

States == {"live", "offline", "unlinked", "linking", "upgrade_required"}

Events == 1..NEvents

ASSUME NEventsAssumption == NEvents \in Nat
ASSUME IncomingAssumption == Incoming \subseteq Messages
ASSUME MessagesAssumption == Messages \cap States = {}
ASSUME ContentAssumption == ContentOf \in [Events -> Messages \cup States]
ASSUME LoadAssumption == Loads \subseteq [events : 0..NEvents, aged : SUBSET Messages]
ASSUME MaxFailuresAssumption == MaxFailures \in Nat

VARIABLES
    load,      \* the workload of this behaviour
    emitted,   \* the events 1..emitted have reached the worker process
    memory,    \* events received and not yet spooled, in order
    lost,      \* events that were in memory when the worker died
    spool,     \* the files of the spool directory
    notify,    \* Client.notify holds a signal
    workerUp,  \* the worker has a session
    apiUp,     \* the hub has the connection registered
    sent,      \* sentEvents of the session
    toApi,     \* envelopes under way to the hub
    toWorker,  \* acknowledgements under way to the worker
    acking,    \* the event the hub has processed and not yet acknowledged
    rows,      \* provider ids of the rows of messages
    pruned,    \* the ones whose row the retention job has deleted
    announced, \* message.new entries of the outbox, in commit order
    unread,    \* conversations.unread_count
    applied,   \* account.status events persisted and published
    failures   \* disconnects, crashes and disk errors so far

workerVars == <<load, emitted, memory, lost, spool, notify, sent>>
linkVars == <<workerUp, apiUp, toApi, toWorker>>
apiVars == <<acking, rows, pruned, announced, unread, applied>>
vars == <<workerVars, linkVars, apiVars, failures>>

-----------------------------------------------------------------------------
\* A spool file: the sequence number in its name and the event inside.
Entries == [seq : Nat, ev : Events]

IsMessage(e) == ContentOf[e] \in Messages

Stored(e) == ContentOf[e] \in rows

TypeOK ==
    /\ load \in Loads
    /\ emitted \in 0..NEvents
    /\ memory \in Seq(Events)
    /\ lost \in SUBSET Events
    /\ spool \in SUBSET Entries
    /\ notify \in BOOLEAN
    /\ workerUp \in BOOLEAN
    /\ apiUp \in BOOLEAN
    /\ sent \in SUBSET Entries
    /\ toApi \in Seq(Entries)
    /\ toWorker \in Seq(Entries)
    /\ acking \in Entries \cup {NoEntry}
    /\ rows \in SUBSET Messages
    /\ pruned \in SUBSET Messages
    /\ announced \in Seq(Messages)
    /\ unread \in Nat
    /\ applied \in SUBSET Events
    /\ failures \in 0..MaxFailures

Init ==
    /\ load \in Loads
    /\ emitted = 0
    /\ memory = <<>>
    /\ lost = {}
    /\ spool = {}
    /\ notify = FALSE
    /\ workerUp = FALSE
    /\ apiUp = FALSE
    /\ sent = {}
    /\ toApi = <<>>
    /\ toWorker = <<>>
    /\ acking = NoEntry
    /\ rows = {}
    /\ pruned = {}
    /\ announced = <<>>
    /\ unread = 0
    /\ applied = {}
    /\ failures = 0

Fail == failures < MaxFailures /\ failures' = failures + 1

-----------------------------------------------------------------------------
(* The spool                                                               *)

\* Mutation: the lowest number no file has.
NextSequence_LowestFree(S) ==
    CHOOSE n \in 1..Cardinality(S) + 1 :
        /\ \A x \in S : x.seq # n
        /\ \A k \in 1..n - 1 : \E x \in S : x.seq = k

\* nextSequenceLocked: one more than the largest number present.  Numbers are
\* used again once the spool has drained.
NextSequence(S) ==
    IF S = {} THEN 1
    ELSE 1 + (CHOOSE n \in {x.seq : x \in S} : \A x \in S : x.seq <= n)

\* Pending: the files in the order of their names.
Pending(S) ==
    CHOOSE s \in [1..Cardinality(S) -> S] :
        \A i, j \in 1..Cardinality(S) : i < j => s[i] # s[j] /\ s[i].seq <= s[j].seq

\* The provider process hands an event to the worker.
Emit ==
    /\ emitted < load.events
    /\ emitted' = emitted + 1
    /\ memory' = Append(memory, emitted + 1)
    /\ UNCHANGED <<load, lost, spool, notify, sent, linkVars, apiVars, failures>>

\* collectEvents: Append the event, then signal the session.
SpoolAppend ==
    /\ memory # <<>>
    /\ spool' = spool \cup {[seq |-> NextSequence(spool), ev |-> Head(memory)]}
    /\ memory' = Tail(memory)
    /\ notify' = TRUE
    /\ UNCHANGED <<load, emitted, lost, sent, linkVars, apiVars, failures>>

\* Append renamed the file into place and then failed to sync the directory:
\* collectEvents retries, and the retry is given another number.
SpoolAppendUnsynced ==
    /\ memory # <<>>
    /\ Fail
    /\ spool' = spool \cup {[seq |-> NextSequence(spool), ev |-> Head(memory)]}
    /\ UNCHANGED <<load, emitted, memory, lost, notify, sent, linkVars, apiVars>>

-----------------------------------------------------------------------------
(* The session                                                             *)

\* A session begins with everything that is in the spool.
Connect ==
    /\ ~workerUp /\ ~apiUp
    /\ workerUp' = TRUE
    /\ apiUp' = TRUE
    /\ sent' = spool
    /\ toApi' = Pending(spool)
    /\ toWorker' = <<>>
    /\ UNCHANGED <<load, emitted, memory, lost, spool, notify, apiVars, failures>>

\* Mutation: the signal of an event spooled during a session is dropped.
SendPending_Never ==
    /\ FALSE
    /\ UNCHANGED vars

\* sendPendingEvents after a signal: what this session has not sent yet.
\* What is written after the hub has gone is lost.
SendPending ==
    /\ workerUp
    /\ notify
    /\ notify' = FALSE
    /\ toApi' = IF apiUp THEN toApi \o Pending(spool \ sent) ELSE toApi
    /\ sent' = sent \cup spool
    /\ UNCHANGED <<load, emitted, memory, lost, spool, workerUp, apiUp, toWorker,
                   apiVars, failures>>

\* event.ack: the file is removed, then the session forgets the id.
HandleAck ==
    /\ workerUp
    /\ toWorker # <<>>
    /\ spool' = spool \ {Head(toWorker)}
    /\ sent' = sent \ {Head(toWorker)}
    /\ toWorker' = Tail(toWorker)
    /\ UNCHANGED <<load, emitted, memory, lost, notify, workerUp, apiUp, toApi, apiVars,
                   failures>>

-----------------------------------------------------------------------------
(* The hub                                                                 *)

\* The states SetWorkerIdentity takes; any other is an error.
AcceptedStates == {"live", "unlinked", "linking", "upgrade_required"}

HubReady == apiUp /\ acking = NoEntry /\ toApi # <<>>

\* Mutation: any event is stored as a message.
IngestNew_AnyType ==
    /\ HubReady
    /\ ~Stored(Head(toApi).ev)
    /\ rows' = rows \cup {ContentOf[Head(toApi).ev]}
    /\ announced' = Append(announced, ContentOf[Head(toApi).ev])
    /\ acking' = Head(toApi)
    /\ toApi' = Tail(toApi)
    /\ UNCHANGED <<workerVars, workerUp, apiUp, toWorker, pruned, unread, applied,
                   failures>>

\* IngestMessage of a message the conversation does not have: the row, the
\* unread count and the outbox entry in one transaction.
IngestNew ==
    /\ HubReady
    /\ IsMessage(Head(toApi).ev)
    /\ ~Stored(Head(toApi).ev)
    /\ LET m == ContentOf[Head(toApi).ev]
       IN  /\ rows' = rows \cup {m}
           /\ announced' = Append(announced, m)
           /\ unread' = IF m \in Incoming THEN unread + 1 ELSE unread
    /\ acking' = Head(toApi)
    /\ toApi' = Tail(toApi)
    /\ UNCHANGED <<workerVars, workerUp, apiUp, toWorker, pruned, applied, failures>>

\* Mutation: the outbox entry is written for a duplicate too.
IngestDuplicate_Announced ==
    /\ HubReady
    /\ IsMessage(Head(toApi).ev)
    /\ Stored(Head(toApi).ev)
    /\ announced' = Append(announced, ContentOf[Head(toApi).ev])
    /\ acking' = Head(toApi)
    /\ toApi' = Tail(toApi)
    /\ UNCHANGED <<workerVars, workerUp, apiUp, toWorker, rows, pruned, unread, applied,
                   failures>>

\* IngestMessage of a message that is there: nothing but the acknowledgement.
IngestDuplicate ==
    /\ HubReady
    /\ IsMessage(Head(toApi).ev)
    /\ Stored(Head(toApi).ev)
    /\ acking' = Head(toApi)
    /\ toApi' = Tail(toApi)
    /\ UNCHANGED <<workerVars, workerUp, apiUp, toWorker, rows, pruned, announced, unread,
                   applied, failures>>

\* CacheMessage of one message of the history a worker returned to
\* API.listMessages: the row alone, no unread count and no outbox entry.  The
\* handler may commit it when the connection is already gone.
CacheMessage(m) ==
    /\ m \notin rows
    /\ rows' = rows \cup {m}
    /\ UNCHANGED <<workerVars, linkVars, acking, pruned, announced, unread, applied,
                   failures>>

\* Prune: the rows that are past retention and not among the newest of their
\* conversation.  A message that is delivered again after that is a new one.
\* The outbox entries it deletes have been published long before.
Prune(M) ==
    /\ M # {}
    /\ M \subseteq rows \cap load.aged
    /\ rows' = rows \ M
    /\ pruned' = pruned \cup M
    /\ UNCHANGED <<workerVars, linkVars, acking, announced, unread, applied, failures>>

\* account.status: SetWorkerIdentity, then Publish to the clients.
ApplyStatus ==
    /\ HubReady
    /\ ContentOf[Head(toApi).ev] \in AcceptedStates
    /\ applied' = applied \cup {Head(toApi).ev}
    /\ acking' = Head(toApi)
    /\ toApi' = Tail(toApi)
    /\ UNCHANGED <<workerVars, workerUp, apiUp, toWorker, rows, pruned, announced,
                   unread, failures>>

\* What one end leaves of the traffic to the other end when it goes away.
Prefixes(s) == {SubSeq(s, 1, n) : n \in 0..Len(s)}

\* The hub's end goes: the read loop returns and unregisters.
HubReturns ==
    /\ apiUp
    /\ apiUp' = FALSE
    /\ acking' = NoEntry
    /\ toApi' = <<>>
    /\ toWorker' \in Prefixes(toWorker)
    /\ UNCHANGED <<workerVars, workerUp, rows, pruned, announced, unread, applied>>

\* account.status with a state SetWorkerIdentity refuses: the loop returns
\* without an acknowledgement.
RejectStatus ==
    /\ HubReady
    /\ ContentOf[Head(toApi).ev] \in States \ AcceptedStates
    /\ HubReturns
    /\ UNCHANGED failures

\* Mutation: the acknowledgement is sent before the event is processed.
SendAck_Early ==
    /\ HubReady
    /\ toWorker' = IF workerUp THEN Append(toWorker, Head(toApi)) ELSE toWorker
    /\ UNCHANGED <<workerVars, workerUp, apiUp, toApi, apiVars, failures>>

\* The acknowledgement is written after the handler has returned.
SendAck ==
    /\ apiUp
    /\ acking # NoEntry
    /\ toWorker' = IF workerUp THEN Append(toWorker, acking) ELSE toWorker
    /\ acking' = NoEntry
    /\ UNCHANGED <<workerVars, workerUp, apiUp, toApi, rows, pruned, announced, unread,
                   applied, failures>>

-----------------------------------------------------------------------------
(* Failures                                                                *)

\* Read or write error, heartbeat limit, failed transaction or API crash:
\* between any two steps, also between the commit and the acknowledgement.
HubFails == Fail /\ HubReturns

\* The hub notices that the worker has gone, after reading what had arrived.
HubNotices ==
    /\ ~workerUp
    /\ toApi = <<>>
    /\ HubReturns
    /\ UNCHANGED failures

WorkerGone ==
    /\ workerUp
    /\ workerUp' = FALSE
    /\ toApi' \in Prefixes(toApi)
    /\ toWorker' = <<>>

\* The worker's end of the connection fails.
SessionFails ==
    /\ Fail
    /\ WorkerGone
    /\ UNCHANGED <<workerVars, apiUp, apiVars>>

\* The worker notices that the hub has gone, after reading what had arrived.
SessionNotices ==
    /\ ~apiUp
    /\ toWorker = <<>>
    /\ WorkerGone
    /\ UNCHANGED <<workerVars, apiUp, apiVars, failures>>

\* The worker process dies and starts again: the spool is on disk, what was
\* still in memory is gone.
WorkerCrash ==
    /\ Fail
    /\ lost' = lost \cup {memory[i] : i \in 1..Len(memory)}
    /\ memory' = <<>>
    /\ notify' = FALSE
    /\ workerUp' = FALSE
    /\ toApi' \in Prefixes(toApi)
    /\ toWorker' = <<>>
    /\ UNCHANGED <<load, emitted, spool, sent, apiUp, apiVars>>

-----------------------------------------------------------------------------
HubStep == IngestNew \/ IngestDuplicate \/ ApplyStatus \/ RejectStatus \/ SendAck
           \/ HubNotices

Next ==
    \/ Emit
    \/ SpoolAppend
    \/ SpoolAppendUnsynced
    \/ Connect
    \/ SendPending
    \/ HandleAck
    \/ IngestNew
    \/ IngestDuplicate
    \/ \E m \in Messages : CacheMessage(m)
    \/ \E M \in SUBSET Messages : Prune(M)
    \/ ApplyStatus
    \/ RejectStatus
    \/ SendAck
    \/ HubFails
    \/ HubNotices
    \/ SessionFails
    \/ SessionNotices
    \/ WorkerCrash

Spec == Init /\ [][Next]_vars

\* Both processes keep running and the worker keeps reconnecting (Client.Run);
\* failures are finitely many, by MaxFailures.
Fairness ==
    /\ WF_vars(SpoolAppend)
    /\ WF_vars(Connect)
    /\ WF_vars(SendPending)
    /\ WF_vars(HandleAck)
    /\ WF_vars(HubStep)
    /\ WF_vars(SessionNotices)

FairSpec == Spec /\ Fairness

-----------------------------------------------------------------------------
(* Properties                                                              *)

Held(e) == \E x \in spool : x.ev = e

\* The event has been processed: its message is stored, or was until Prune.
Done(e) ==
    IF IsMessage(e) THEN ContentOf[e] \in rows \cup pruned ELSE e \in applied

\* An event that reached the worker is in its memory, in its spool or in the
\* database, unless the worker died before spooling it or the retention job
\* deleted it after it had been stored: no disconnect, crash or lost
\* acknowledgement makes it disappear.
NoEventLost ==
    \A e \in 1..emitted :
        \/ \E i \in 1..Len(memory) : memory[i] = e
        \/ e \in lost
        \/ Held(e)
        \/ Done(e)

\* "An event is removed from the local spool only after say-api has committed
\* it and acknowledged its event" (docs/signal-worker.md): whatever the worker
\* is about to remove is in the database, or was until the retention job.
AcknowledgedIsStored ==
    \A i \in 1..Len(toWorker) : Done(toWorker[i].ev)

\* However often a message is spooled, sent, processed and read as history, it
\* is not announced again unless its row has been pruned in between, and an
\* incoming one adds one to the unread count exactly when it is announced.
AnnouncedOnce ==
    /\ \A i, j \in 1..Len(announced) :
          announced[i] = announced[j] => i = j \/ announced[i] \in pruned
    /\ \A i \in 1..Len(announced) : announced[i] \in rows \cup pruned
    /\ unread = Cardinality({i \in 1..Len(announced) : announced[i] \in Incoming})

\* "Worker emits one ordered stream per account" (PLAN.md): messages are
\* announced in the order the provider produced them, across reconnects and
\* while the spool numbers start again from one.  A message that was stored and
\* pruned before may come late.
AnnouncedInOrder ==
    \A i, j \in 1..Len(announced) :
        i < j /\ announced[j] \notin pruned =>
                 \E e \in Events :
                    /\ ContentOf[e] = announced[i]
                    /\ \A f \in Events : ContentOf[f] = announced[j] => e < f \/ f \in lost

HeldMessages == {ContentOf[x.ev] : x \in {y \in spool : IsMessage(y.ev)}}

Contract == INSTANCE EventContract WITH held <- HeldMessages, stored <- rows,
                                          dropped <- pruned

\* Spool, session and hub together keep the contract of EventContract.
DeliveryImplementsContract == Contract!ContractSpec

Refused(e) == ContentOf[e] \in States \ AcceptedStates

\* An event in the spool is processed and leaves it in the end, once the
\* failures stop, unless a status event the hub refuses is in the spool: it
\* holds up what is behind it, and closing the connection on it may drop the
\* acknowledgement of what is before it.
SpooledIsProcessed ==
    \A e \in Events : Held(e) ~> (~Held(e) \/ \E x \in spool : Refused(x.ev))

\* The protocol schema lists "offline" among the states a worker may report:
\* an event that conforms to it is processed in the end, refused ones included.
ConformingIsProcessed == \A e \in Events : Held(e) ~> ~Held(e)

\* "API acknowledges an event only after the event and its outbox entry
\* commit" (PLAN.md): what the worker is about to remove has been announced.
AcknowledgedIsAnnounced ==
    \A i \in 1..Len(toWorker) :
        IsMessage(toWorker[i].ev) =>
            \E j \in 1..Len(announced) : announced[j] = ContentOf[toWorker[i].ev]
=============================================================================
