---------------------------- MODULE SignalWorker ----------------------------
(***************************************************************************)
(* The Signal worker process (cmd/say-signal): the session loop that runs  *)
(* commands (worker.Client.connect), the service that executes them        *)
(* (signalworker.Service), the JSON-RPC client behind it (signalcli.Client)*)
(* and the way of received messages from signal-cli to the spool.          *)
(*                                                                         *)
(* Every Go channel is a bounded sequence with the capacity the code gives *)
(* it.  Handlers of an earlier session go on running after it has ended.   *)
(* The way from the spool to the API is in EventDelivery; signal-cli and   *)
(* the API's end of the connection are the environment.                    *)
(***************************************************************************)
EXTENDS Naturals, Sequences, FiniteSets

CONSTANTS Commands,           \* commands the API sends
          KindsOf,            \* KindsOf[c]: the types command c may have
          HandlerLimit,       \* capacity of concurrency (4)
          ResultLimit,        \* capacity of results (16)
          NotificationLimit,  \* capacity of Client.notifications (64)
          EventLimit,         \* capacity of Service.events (1024)
          NNotifications,     \* how many notifications signal-cli sends at most
          Textual,            \* the ones that parseReceive turns into a message
          Loads               \* the workloads: which commands come, how many
                              \* notifications

Notifications == 1..NNotifications

Kinds == {"send", "link.start", "link.finish", "conversations", "messages"}

ASSUME KindsAssumption == KindsOf \in [Commands -> SUBSET Kinds]
ASSUME LimitAssumption == /\ HandlerLimit \in Nat \ {0}
                          /\ ResultLimit \in Nat \ {0}
                          /\ NotificationLimit \in Nat \ {0}
                          /\ EventLimit \in Nat \ {0}
ASSUME NotificationAssumption == /\ NNotifications \in Nat
                                 /\ Textual \subseteq Notifications
ASSUME LoadAssumption == Loads \subseteq [commands : SUBSET Commands,
                                          notifications : 0..NNotifications]

VARIABLES
    load,          \* the workload of this behaviour
    proc,          \* where main is, or how the process ended
    rpc,           \* the connection to signal-cli: open, deaf (readLoop has returned
                   \* but requests can still be written), or closed
    emitted,       \* notifications 1..emitted have reached readLoop
    notifications, \* Client.notifications
    held,          \* what consumeNotifications is about to put, 0 for nothing
    events,        \* Service.events: notifications, and 0 for a status event
    eventsClosed,  \* consumeNotifications has returned
    spooled,       \* messages collectEvents has put into the spool, in order
    account,       \* Service.account is not empty
    linkURI,       \* Service.linkURI is not empty
    loop,          \* the session loop: down, in its select, or blocked
    results,       \* the results channel of the session
    kind,          \* kind[c]: the type of command c
    current,       \* the unanswered commands of the current session; the
                   \* sessionCtx of every other handler is done
    pc,            \* pc[c]: where its handler is; in a Call, the method
    ok,            \* ok[c]: the status of its result is ok, not error
    req,           \* req[c]: the request it waits for, or the response to it
    effect,        \* effect[c]: what the command did at the provider
    blind,         \* commands whose effect was asked for in a Call that ended
                   \* without a readable response
    undetected     \* commands that failed after finishLink had succeeded

streamVars == <<load, emitted, notifications, held, events, eventsClosed, spooled>>
linkVars == <<account, linkURI>>
sessionVars == <<loop, results>>
handlerVars == <<kind, current, pc, ok, req, effect, blind, undetected>>
vars == <<proc, rpc, streamVars, linkVars, sessionVars, handlerVars>>

-----------------------------------------------------------------------------
Methods == {"send", "startLink", "finishLink", "listAccounts", "listGroups",
            "listContacts"}

\* A handler holds its slot from the start until its result is queued.
HandlerPCs == {"publish", "reply"} \cup Methods
PCs == HandlerPCs \cup {"idle", "queued", "stuck", "answered", "gone"}

Busy == {c \in current : pc[c] \in HandlerPCs}

TypeOK ==
    /\ load \in Loads
    /\ proc \in {"detecting", "publishing", "running", "panicked", "stopped"}
    /\ rpc \in {"open", "deaf", "closed"}
    /\ emitted \in 0..NNotifications
    /\ notifications \in Seq(Notifications) /\ Len(notifications) <= NotificationLimit
    /\ held \in 0..NNotifications
    /\ events \in Seq(0..NNotifications) /\ Len(events) <= EventLimit
    /\ eventsClosed \in BOOLEAN
    /\ spooled \in Seq(Notifications)
    /\ account \in BOOLEAN /\ linkURI \in BOOLEAN
    /\ loop \in {"down", "select", "blocked"}
    /\ results \in Seq(Commands) /\ Len(results) <= ResultLimit
    /\ kind \in [Commands -> Kinds \cup {"none"}]
    /\ current \in SUBSET Commands
    /\ pc \in [Commands -> PCs]
    /\ ok \in [Commands -> BOOLEAN]
    /\ req \in [Commands -> {"none", "open", "result", "error", "unreadable"}]
    /\ effect \in [Commands -> {"none", "open", "accepted", "refused"}]
    /\ blind \in SUBSET Commands
    /\ undetected \in SUBSET Commands
    /\ Cardinality(Busy) <= HandlerLimit

\* StartDaemon has returned: signal-cli runs and the RPC client is connected.
Init ==
    /\ load \in Loads
    /\ proc = "detecting"
    /\ rpc = "open"
    /\ emitted = 0
    /\ notifications = <<>>
    /\ held = 0
    /\ events = <<>>
    /\ eventsClosed = FALSE
    /\ spooled = <<>>
    /\ account = FALSE
    /\ linkURI = FALSE
    /\ loop = "down"
    /\ results = <<>>
    /\ kind = [c \in Commands |-> "none"]
    /\ current = {}
    /\ pc = [c \in Commands |-> "idle"]
    /\ ok = [c \in Commands |-> FALSE]
    /\ req = [c \in Commands |-> "none"]
    /\ effect = [c \in Commands |-> "none"]
    /\ blind = {}
    /\ undetected = {}

Alive == proc \notin {"panicked", "stopped"}

-----------------------------------------------------------------------------
(* main                                                                    *)

\* DetectAccount at startup, with its limit of ten seconds: signal-cli has an
\* account, or it has none or there is an error.
BootDetect ==
    /\ proc = "detecting"
    /\ \/ rpc = "open" /\ account' = TRUE
       \/ UNCHANGED account
    /\ proc' = "publishing"
    /\ UNCHANGED <<rpc, streamVars, linkURI, sessionVars, handlerVars>>

\* PublishStatus: a send on events, which blocks while it is full and panics
\* once consumeNotifications has closed it.
CanPublish == eventsClosed \/ Len(events) < EventLimit

Publish ==
    /\ CanPublish
    /\ events' = IF eventsClosed THEN events ELSE Append(events, 0)
    /\ UNCHANGED <<load, emitted, notifications, held, eventsClosed, spooled>>

\* main publishes the status; only then do collectEvents and the session start.
BootPublish ==
    /\ proc = "publishing"
    /\ Publish
    /\ proc' = IF eventsClosed THEN "panicked" ELSE "running"
    /\ UNCHANGED <<rpc, linkVars, sessionVars, handlerVars>>

\* signal-cli exits, or a signal arrives, and main returns; the end of the
\* connection to signal-cli is not among the things it waits for.  The spool
\* survives, the rest is lost.
MainStops ==
    /\ proc = "running"
    /\ proc' = "stopped"
    /\ notifications' = <<>> /\ held' = 0 /\ events' = <<>> /\ results' = <<>>
    /\ pc' = [c \in Commands |-> IF pc[c] \in {"idle", "answered"} THEN pc[c] ELSE "gone"]
    /\ ok' = [c \in Commands |-> pc[c] = "answered" /\ ok[c]]
    /\ req' = [c \in Commands |-> "none"]
    /\ current' = {}
    /\ loop' = "down"
    /\ rpc' = "closed"
    /\ eventsClosed' = TRUE
    /\ UNCHANGED <<load, emitted, spooled, linkVars, kind, effect, blind, undetected>>

-----------------------------------------------------------------------------
(* From signal-cli to the spool                                            *)

\* Mutation: a notification that finds the buffer full is dropped.
Notify_Drops ==
    /\ Alive /\ rpc = "open"
    /\ emitted < load.notifications
    /\ emitted' = emitted + 1
    /\ notifications' = IF Len(notifications) < NotificationLimit
                        THEN Append(notifications, emitted + 1) ELSE notifications
    /\ UNCHANGED <<load, proc, rpc, held, events, eventsClosed, spooled, linkVars,
                   sessionVars, handlerVars>>

\* readLoop reads a notification.  When the buffer is full it closes the
\* connection and returns, so that done and notifications are closed.
Notify ==
    /\ Alive /\ rpc = "open"
    /\ emitted < load.notifications
    /\ emitted' = emitted + 1
    /\ IF Len(notifications) < NotificationLimit
       THEN /\ notifications' = Append(notifications, emitted + 1)
            /\ UNCHANGED rpc
       ELSE /\ rpc' = "closed"
            /\ UNCHANGED notifications
    /\ UNCHANGED <<load, proc, held, events, eventsClosed, spooled,
                   linkVars, sessionVars, handlerVars>>

\* readLoop cannot decode what it reads and returns, which leaves the connection
\* open for writing: signal-cli executes requests whose response nobody reads.
\* Or it meets the end of the connection.
RpcFails ==
    /\ Alive /\ rpc = "open"
    /\ rpc' \in {"deaf", "closed"}
    /\ UNCHANGED <<proc, streamVars, linkVars, sessionVars, handlerVars>>

\* consumeNotifications takes a notification; what is not a text message is
\* dropped here.
TakeNotification ==
    /\ Alive
    /\ held = 0
    /\ notifications # <<>>
    /\ held' = IF Head(notifications) \in Textual THEN Head(notifications) ELSE 0
    /\ notifications' = Tail(notifications)
    /\ UNCHANGED <<load, proc, rpc, emitted, events, eventsClosed, spooled, linkVars,
                   sessionVars, handlerVars>>

PutEvent ==
    /\ Alive
    /\ held # 0
    /\ Len(events) < EventLimit
    /\ events' = Append(events, held)
    /\ held' = 0
    /\ UNCHANGED <<load, proc, rpc, emitted, notifications, eventsClosed, spooled,
                   linkVars, sessionVars, handlerVars>>

\* The closed notifications channel is empty: consumeNotifications returns and
\* closes events.
CloseEvents ==
    /\ Alive
    /\ rpc # "open" /\ notifications = <<>> /\ held = 0
    /\ ~eventsClosed
    /\ eventsClosed' = TRUE
    /\ UNCHANGED <<load, proc, rpc, emitted, notifications, held, events, spooled,
                   linkVars, sessionVars, handlerVars>>

\* collectEvents: spool.Append, repeated until it succeeds.
SpoolEvent ==
    /\ proc = "running"
    /\ events # <<>>
    /\ spooled' = IF Head(events) = 0 THEN spooled ELSE Append(spooled, Head(events))
    /\ events' = Tail(events)
    /\ UNCHANGED <<load, proc, rpc, emitted, notifications, held, eventsClosed,
                   linkVars, sessionVars, handlerVars>>

-----------------------------------------------------------------------------
(* The session loop                                                        *)

\* Client.Run dials again and again; connect makes new channels every time.
Connect ==
    /\ proc = "running"
    /\ loop = "down"
    /\ loop' = "select"
    /\ UNCHANGED <<proc, rpc, streamVars, linkVars, results, handlerVars>>

\* A read or write error: connect returns, sessionCtx is cancelled and what is
\* in results goes with the channel.
SessionEnds ==
    /\ proc = "running"
    /\ loop = "select"
    /\ loop' = "down"
    /\ results' = <<>>
    /\ pc' = [c \in Commands |-> IF pc[c] = "queued" THEN "gone" ELSE pc[c]]
    /\ current' = {}
    /\ UNCHANGED <<proc, rpc, streamVars, linkVars, kind, ok, req,
                   effect, blind, undetected>>

\* A command of type k comes in.
Incoming(c, k) ==
    /\ proc = "running"
    /\ loop = "select"
    /\ c \in load.commands
    /\ pc[c] = "idle"
    /\ k \in KindsOf[c]
    /\ kind' = [kind EXCEPT ![c] = k]
    /\ current' = current \cup {c}
    /\ UNCHANGED <<proc, rpc, streamVars, linkVars, blind, undetected>>

\* Mutation: the loop starts a handler for every command.
TakeSlot_NoLimit == UNCHANGED <<loop, results>>

\* A slot of concurrency is free: a goroutine runs the command.
TakeSlot ==
    /\ Cardinality(Busy) < HandlerLimit
    /\ UNCHANGED <<loop, results>>

\* No slot: the loop itself sends worker_busy on results, the channel that it
\* alone empties.  If that is full it blocks, and there is no other case: it
\* sees neither the end of the connection nor of the process.
AnswerBusy(c, k) ==
    /\ Incoming(c, k)
    /\ Cardinality(Busy) >= HandlerLimit
    /\ \/ /\ Len(results) < ResultLimit
          /\ results' = Append(results, c)
          /\ pc' = [pc EXCEPT ![c] = "queued"]
          /\ UNCHANGED loop
       \/ /\ Len(results) >= ResultLimit
          /\ loop' = "blocked"
          /\ pc' = [pc EXCEPT ![c] = "stuck"]
          /\ UNCHANGED results
    /\ UNCHANGED <<ok, req, effect>>

\* The loop writes a result to the API.
WriteResult ==
    /\ proc = "running"
    /\ loop = "select"
    /\ results # <<>>
    /\ pc' = [pc EXCEPT ![Head(results)] = "answered"]
    /\ results' = Tail(results)
    /\ current' = current \ {Head(results)}
    /\ UNCHANGED <<proc, rpc, streamVars, linkVars, loop, kind, ok, req,
                   effect, blind, undetected>>

-----------------------------------------------------------------------------
(* The handlers: Service.HandleCommand                                     *)

\* sessionCtx of the handler's session is done.
Cancelled(c) == c \notin current

\* A step of the handler of c.
Handling(c, label) ==
    /\ proc = "running"
    /\ pc[c] = label
    /\ UNCHANGED <<rpc, sessionVars, kind, current>>

\* HandleCommand returns, with a payload or with an error.
Return(c, success) ==
    /\ pc' = [pc EXCEPT ![c] = "reply"]
    /\ ok' = [ok EXCEPT ![c] = success]
    /\ req' = [req EXCEPT ![c] = "none"]

\* The methods with an effect at the provider, for the command they serve.
HasEffect(method) == method \in {"send", "finishLink"}

\* Client.Call: the request is registered and written, whether the context is
\* still alive or not.  The write fails only on a closed connection.
Call(c, method) ==
    /\ pc' = [pc EXCEPT ![c] = method]
    /\ req' = [req EXCEPT ![c] = IF rpc = "open" THEN "open" ELSE "none"]
    /\ effect' = [effect EXCEPT ![c] =
                    IF rpc # "closed" /\ HasEffect(method) THEN "open" ELSE effect[c]]
    /\ UNCHANGED ok

\* A handler starts: one step up to its first Call or its result, because nobody
\* sees what it does before.  send: an invalid body or conversation, or an
\* account that is not linked, is an error before signal-cli hears of it.
StartSend(c) ==
    /\ Incoming(c, "send") /\ TakeSlot
    /\ \/ account /\ Call(c, "send")
       \/ Return(c, FALSE) /\ UNCHANGED effect

StartLink(c) ==
    /\ Incoming(c, "link.start") /\ TakeSlot
    /\ \/ account /\ Return(c, TRUE) /\ UNCHANGED effect
       \/ ~account /\ Call(c, "startLink")

\* finishLink: an invalid payload, or a link that was not started, is an error.
FinishLink(c) ==
    /\ Incoming(c, "link.finish") /\ TakeSlot
    /\ \/ linkURI /\ Call(c, "finishLink")
       \/ Return(c, FALSE) /\ UNCHANGED effect

StartConversations(c) ==
    /\ Incoming(c, "conversations") /\ TakeSlot
    /\ \/ account /\ Call(c, "listGroups")
       \/ ~account /\ Return(c, FALSE) /\ UNCHANGED effect

\* Signal has no history: an empty list.
AnswerMessages(c) ==
    /\ Incoming(c, "messages") /\ TakeSlot
    /\ Return(c, TRUE)
    /\ UNCHANGED effect

\* signal-cli executes a request, also one that nobody waits for any more, and
\* readLoop hands the response to the Call that does.
CliExecutes(c, reply) ==
    /\ Alive
    /\ req[c] = "open" \/ effect[c] = "open"
    /\ req' = [req EXCEPT ![c] = IF req[c] = "open" /\ rpc = "open" THEN reply ELSE "none"]
    /\ effect' = [effect EXCEPT ![c] =
                    IF effect[c] # "open" THEN effect[c]
                    ELSE IF reply = "error" THEN "refused" ELSE "accepted"]
    /\ UNCHANGED <<proc, rpc, streamVars, linkVars, sessionVars, kind, current,
                   pc, ok, blind, undetected>>

\* The Call that carries the effect of c was written (it has an effect) and
\* ends because the connection or the response was lost.  Nothing else hides
\* what became of the effect.
LoseSight(c) ==
    blind' = IF /\ HasEffect(pc[c])
                /\ effect[c] # "none"
                /\ rpc # "open" \/ req[c] = "unreadable"
             THEN blind \cup {c} ELSE blind

\* DetectAccount fails, for whatever reason; finishLink has succeeded before.
MissAccount(c) ==
    undetected' = IF pc[c] = "listAccounts" THEN undetected \cup {c} ELSE undetected

\* Mutation: Call waits for a response and does not watch done.
CallFails_IgnoresDone(c) ==
    /\ pc[c] \in Methods
    /\ Handling(c, pc[c])
    /\ \/ req[c] = "error"
       \/ req[c] = "unreadable" /\ pc[c] \notin {"finishLink", "listAccounts"}
    /\ Return(c, FALSE)
    /\ LoseSight(c)
    /\ MissAccount(c)
    /\ UNCHANGED <<proc, streamVars, linkVars, effect>>

\* Call returns an error that is not the context's: an error response, a
\* result that cannot be decoded or is not a link URI, or the end of readLoop,
\* which may win over a response that is there.  All become signal_..._failed,
\* also after a finishLink that has succeeded.
CallFails(c) ==
    /\ pc[c] \in Methods
    /\ Handling(c, pc[c])
    /\ \/ rpc # "open"
       \/ req[c] = "error"
       \/ req[c] = "unreadable" /\ pc[c] \notin {"finishLink", "listAccounts"}
    /\ Return(c, FALSE)
    /\ LoseSight(c)
    /\ MissAccount(c)
    /\ UNCHANGED <<proc, streamVars, linkVars, effect>>

Returned(c, method) == Handling(c, method) /\ req[c] = "result"

\* Mutation: a send that signal-cli answers without a timestamp is an error.
CallDone_NoTimestamp(c) ==
    /\ Returned(c, "send") \/ Returned(c, "listContacts")
    /\ \E timestamp \in BOOLEAN : Return(c, timestamp \/ pc[c] # "send")
    /\ UNCHANGED <<proc, streamVars, linkVars, effect, blind, undetected>>

\* The last call of a send or of a listing succeeds.
CallDone(c) ==
    /\ Returned(c, "send") \/ Returned(c, "listContacts")
    /\ Return(c, TRUE)
    /\ UNCHANGED <<proc, streamVars, linkVars, effect, blind, undetected>>

GroupsListed(c) ==
    /\ Returned(c, "listGroups")
    /\ Call(c, "listContacts")
    /\ UNCHANGED <<proc, streamVars, linkVars, blind, undetected>>

LinkStarted(c) ==
    /\ Returned(c, "startLink")
    /\ linkURI' = TRUE
    /\ Return(c, TRUE)
    /\ UNCHANGED <<proc, streamVars, account, effect, blind, undetected>>

\* finishLink looks at no more than the error of its call, and goes on with
\* DetectAccount.
LinkFinished(c) ==
    /\ Handling(c, "finishLink")
    /\ req[c] \in {"result", "unreadable"}
    /\ Call(c, "listAccounts")
    /\ UNCHANGED <<proc, streamVars, linkVars, blind, undetected>>

\* DetectAccount stores the account; finishLink then forgets the link URI, also
\* one that another link.start has set meanwhile.
AccountDetected(c) ==
    /\ Returned(c, "listAccounts")
    /\ account' = TRUE
    /\ linkURI' = FALSE
    /\ pc' = [pc EXCEPT ![c] = "publish"]
    /\ UNCHANGED <<proc, streamVars, ok, req, effect, blind, undetected>>

\* DetectAccount finds no account in the result and stores that.
AccountMissing(c) ==
    /\ Handling(c, "listAccounts")
    /\ req[c] = "unreadable"
    /\ account' = FALSE
    /\ Return(c, FALSE)
    /\ MissAccount(c)
    /\ UNCHANGED <<proc, streamVars, linkURI, effect, blind>>

\* PublishStatus("live") of finishLink.
PublishLive(c) ==
    /\ Handling(c, "publish")
    /\ Publish
    /\ proc' = IF eventsClosed THEN "panicked" ELSE proc
    /\ Return(c, TRUE)
    /\ UNCHANGED <<linkVars, effect, blind, undetected>>

\* The goroutine sends its result and frees its slot.
Reply(c) ==
    /\ proc = "running"
    /\ pc[c] = "reply"
    /\ ~Cancelled(c)
    /\ Len(results) < ResultLimit
    /\ results' = Append(results, c)
    /\ pc' = [pc EXCEPT ![c] = "queued"]
    /\ UNCHANGED <<proc, rpc, streamVars, linkVars, loop, kind, current, ok, req,
                   effect, blind, undetected>>

\* The session is over: Call and PublishStatus return the context's error, and
\* the result is dropped.  This is where a send becomes signal_send_unknown.
Abandon(c) ==
    /\ pc[c] \in Methods \cup {"publish", "reply"}
    /\ Handling(c, pc[c])
    /\ Cancelled(c)
    /\ pc' = [pc EXCEPT ![c] = "gone"]
    /\ ok' = [ok EXCEPT ![c] = FALSE]
    /\ req' = [req EXCEPT ![c] = "none"]
    /\ UNCHANGED <<proc, streamVars, linkVars, effect, blind, undetected>>

-----------------------------------------------------------------------------
HandlerStep(c) ==
    \/ CallFails(c)
    \/ CallDone(c)
    \/ GroupsListed(c)
    \/ LinkStarted(c)
    \/ LinkFinished(c)
    \/ AccountDetected(c)
    \/ AccountMissing(c)
    \/ PublishLive(c)
    \/ Reply(c)
    \/ Abandon(c)

Next ==
    \/ BootDetect
    \/ BootPublish
    \/ MainStops
    \/ Notify
    \/ RpcFails
    \/ TakeNotification
    \/ PutEvent
    \/ CloseEvents
    \/ SpoolEvent
    \/ Connect
    \/ SessionEnds
    \/ WriteResult
    \/ \E c \in Commands :
          \/ StartSend(c)
          \/ StartLink(c)
          \/ FinishLink(c)
          \/ StartConversations(c)
          \/ AnswerMessages(c)
          \/ \E k \in Kinds : AnswerBusy(c, k)
    \/ \E c \in Commands, reply \in {"result", "error", "unreadable"} :
          CliExecutes(c, reply)
    \/ \E c \in Commands : HandlerStep(c)

Spec == Init /\ [][Next]_vars

\* Goroutines run, and select takes a case that stays ready in the end; a
\* command has finitely many steps, so that the handlers need no more than
\* joint fairness.  The API may send no command, signal-cli may not answer.
Fairness ==
    /\ WF_vars(SpoolEvent)
    /\ WF_vars(WriteResult)
    /\ WF_vars(\E c \in Commands : HandlerStep(c))

FairSpec == Spec /\ Fairness

-----------------------------------------------------------------------------
(* Properties                                                              *)

\* What reached the API about the commands with an effect.
AnswerOf(c) ==
    IF pc[c] # "answered" \/ kind[c] \notin {"send", "link.finish"} THEN "none"
    ELSE IF ok[c] THEN "ok" ELSE "failed"

Contract == INSTANCE WorkerContract
                WITH answer <- [c \in Commands |-> AnswerOf(c)], partial <- undetected

\* The worker keeps the contract of WorkerContract: success is reported for
\* nothing but what signal-cli did; a failure is reported for what it did, or
\* may have done, only when the connection to signal-cli or the response of the
\* call was lost, and for a link also when signal-cli has completed it and the
\* account could not be detected afterwards.  No command is run or answered
\* twice, across sessions and with handlers of old ones running.
SignalImplementsWorker == Contract!ContractSpec

IsText(n) == n \in Textual

\* The messages between readLoop and the spool, oldest first.
InProcess ==
    spooled \o events \o (IF held = 0 THEN <<>> ELSE <<held>>) \o notifications

\* The received messages reach the spool in the order signal-cli sent them and
\* without a gap, through three goroutines and two bounded channels: as long
\* as the connection stands they are all there, and when an overflow or an
\* error has closed it, a prefix of them.
NotificationsInOrder ==
    /\ \A i, j \in 1..Len(InProcess) :
          i < j /\ IsText(InProcess[i]) /\ IsText(InProcess[j]) => InProcess[i] < InProcess[j]
    /\ \A j \in 1..Len(InProcess), m \in Textual :
          IsText(InProcess[j]) /\ m < InProcess[j] => \E i \in 1..Len(InProcess) : InProcess[i] = m
    /\ rpc = "open" =>
          \A m \in Textual : m <= emitted <=> \E i \in 1..Len(InProcess) : InProcess[i] = m

\* The handler of c waits for signal-cli, with which it is still connected; no
\* Call has a time limit.
Waiting(c) == pc[c] \in Methods /\ req[c] = "open" /\ rpc = "open"

\* Every command the worker has taken is answered in the end, or its session is
\* over: whatever channel fills up, no handler is left behind on it.  There are
\* three exceptions: signal-cli has not answered the handler's call, the process
\* has ended, and the loop has blocked itself (AnswerBusy).
CommandIsAnswered ==
    <>[]( \/ loop = "blocked"
          \/ ~Alive
          \/ \A c \in Commands : pc[c] \in {"idle", "answered", "gone"} \/ Waiting(c))
=============================================================================
