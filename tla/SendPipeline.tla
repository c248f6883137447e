---------------------------- MODULE SendPipeline ----------------------------
(***************************************************************************)
(* Outbound sends: POST /conversations/{id}/messages from the HTTP handler *)
(* (httpapi.sendMessage) through the commands and messages tables          *)
(* (postgres.MessageStore), the worker hub (gateway.Hub.Request) and the   *)
(* worker to the messaging provider, and back.                             *)
(*                                                                         *)
(* One conversation of one account.  A request is one HTTP call; a client  *)
(* that retries makes another request with the same idempotency key.  All  *)
(* handlers run concurrently; each database transaction is one step, except*)
(* CompleteSend, whose DELETE and UPDATE are separated because a concurrent*)
(* ingest can commit between them (READ COMMITTED).  The API may crash and *)
(* the worker connection may close between any two steps.                  *)
(***************************************************************************)
EXTENDS Naturals, Sequences

CONSTANTS Requests,   \* HTTP calls of sendMessage
          Keys,       \* idempotency keys
          KeyOf,      \* KeyOf[r]: the idempotency_key in the body of call r
          Platform,   \* "signal" or "telegram": the account's worker
          NoMessage   \* a NULL messages.provider_id

ASSUME KeyOfAssumption == KeyOf \in [Requests -> Keys]
ASSUME PlatformAssumption == Platform \in {"signal", "telegram"}
ASSUME NoMessageAssumption == NoMessage \notin Requests

VARIABLES
    pc,         \* pc[r]: where the handler of call r is
    code,       \* code[r]: the error code it will persist (workerErrorCode)
    outcome,    \* outcome[r]: what the handler answered
    closed,     \* closed[r]: the connection Request captured has been closed
    wire,       \* wire[r]: where the command or its response is
    answer,     \* answer[r]: the content of the worker's response
    online,     \* Hub.workers holds a connection of the account
    attempt,    \* attempt[r]: what the provider did with the send
    cmd,        \* commands.status of the row for key k
    link,       \* commands.message_id is not NULL
    expired,    \* commands.expires_at has passed
    own,        \* status of the optimistic message row, "none" without a row
    ownPid,     \* provider_id of that row
    echo,       \* echo[r]: an ingested row with the provider id of send r
    echoSeen,   \* CompleteSend's DELETE of call r found the ingested row
    updates,    \* message.updated events in the outbox, per key
    announced   \* provider ids with a message.new event in the outbox

handlerVars == <<pc, code, outcome, echoSeen>>
hubVars == <<closed, wire, answer, online, attempt>>
commandVars == <<cmd, link, expired>>
messageVars == <<own, ownPid, echo, updates, announced>>
vars == <<handlerVars, hubVars, commandVars, messageVars>>

-----------------------------------------------------------------------------
Terminal == {"completed", "failed", "unknown"}
CommandStatus == {"none", "pending", "dispatched"} \cup Terminal
MessageStatus == {"none", "pending", "sent", "failed", "unknown"}

\* The error codes the platform's worker reports for a send: an outcome it
\* knows nothing of, and any other provider error.
UnknownCode == IF Platform = "signal" THEN "signal_send_unknown"
                                      ELSE "telegram_send_unknown"
FailedCode == IF Platform = "signal" THEN "signal_send_failed"
                                     ELSE "telegram_send_failed"

Answers == {"ok", "rejected", "invalid_worker_response", "signal_send_unknown",
            "signal_send_failed", "telegram_send_unknown", "telegram_send_failed"}
Codes == (Answers \ {"ok"}) \cup {"none", "worker_offline", "worker_timeout"}
PCs == {"idle", "existing", "prepared", "marked", "waiting",
        "failing", "completing", "saving", "done"}
Outcomes == {"none", "accepted", "sent", "error", "internal_error", "unsaved",
             "crashed"}
Wires == {"none", "toWorker", "adrift", "executing", "toApi", "delivered", "lost"}
Attempts == {"none", "open", "accepted", "refused"}

TypeOK ==
    /\ pc \in [Requests -> PCs]
    /\ code \in [Requests -> Codes]
    /\ outcome \in [Requests -> Outcomes]
    /\ echoSeen \in [Requests -> BOOLEAN]
    /\ closed \in [Requests -> BOOLEAN]
    /\ wire \in [Requests -> Wires]
    /\ answer \in [Requests -> Answers \cup {"none"}]
    /\ online \in BOOLEAN
    /\ attempt \in [Requests -> Attempts]
    /\ cmd \in [Keys -> CommandStatus]
    /\ link \in [Keys -> BOOLEAN]
    /\ expired \in [Keys -> BOOLEAN]
    /\ own \in [Keys -> MessageStatus]
    /\ ownPid \in [Keys -> Requests \cup {NoMessage}]
    /\ echo \in [Requests -> BOOLEAN]
    /\ updates \in [Keys -> Seq(MessageStatus)]
    /\ announced \in SUBSET Requests

Init ==
    /\ pc = [r \in Requests |-> "idle"]
    /\ code = [r \in Requests |-> "none"]
    /\ outcome = [r \in Requests |-> "none"]
    /\ echoSeen = [r \in Requests |-> FALSE]
    /\ closed = [r \in Requests |-> FALSE]
    /\ wire = [r \in Requests |-> "none"]
    /\ answer = [r \in Requests |-> "none"]
    /\ online = FALSE
    /\ attempt = [r \in Requests |-> "none"]
    /\ cmd = [k \in Keys |-> "none"]
    /\ link = [k \in Keys |-> FALSE]
    /\ expired = [k \in Keys |-> FALSE]
    /\ own = [k \in Keys |-> "none"]
    /\ ownPid = [k \in Keys |-> NoMessage]
    /\ echo = [r \in Requests |-> FALSE]
    /\ updates = [k \in Keys |-> <<>>]
    /\ announced = {}

-----------------------------------------------------------------------------
(* The handler                                                             *)

Goto(r, label) == pc' = [pc EXCEPT ![r] = label]

Return(r, result) ==
    /\ pc' = [pc EXCEPT ![r] = "done"]
    /\ outcome' = [outcome EXCEPT ![r] = result]

\* PrepareSend, fresh key: one transaction inserts the command, the
\* optimistic message and the link between them.
PrepareSendNew(r) ==
    /\ pc[r] = "idle"
    /\ cmd[KeyOf[r]] = "none"
    /\ cmd' = [cmd EXCEPT ![KeyOf[r]] = "pending"]
    /\ link' = [link EXCEPT ![KeyOf[r]] = TRUE]
    /\ own' = [own EXCEPT ![KeyOf[r]] = "pending"]
    /\ Goto(r, "prepared")
    /\ UNCHANGED <<code, outcome, echoSeen, hubVars, expired, ownPid, echo,
                   updates, announced>>

\* PrepareSend, known key: ON CONFLICT DO NOTHING affects no row, the
\* transaction is rolled back and existingSend runs as a second query.
PrepareSendConflict(r) ==
    /\ pc[r] = "idle"
    /\ cmd[KeyOf[r]] # "none"
    /\ Goto(r, "existing")
    /\ UNCHANGED <<code, outcome, echoSeen, hubVars, commandVars, messageVars>>

\* existingSend: the command joined with its message.  A command that is
\* still pending is taken over by this call.
ExistingSendPending(r) ==
    /\ pc[r] = "existing"
    /\ link[KeyOf[r]]
    /\ cmd[KeyOf[r]] = "pending"
    /\ Goto(r, "prepared")
    /\ UNCHANGED <<code, outcome, echoSeen, hubVars, commandVars, messageVars>>

\* Any other status is answered as it stands.
ExistingSendKnown(r) ==
    /\ pc[r] = "existing"
    /\ link[KeyOf[r]]
    /\ cmd[KeyOf[r]] # "pending"
    /\ Return(r, "accepted")
    /\ UNCHANGED <<code, echoSeen, hubVars, commandVars, messageVars>>

\* Without the message row the join is empty and the call fails.
ExistingSendMissing(r) ==
    /\ pc[r] = "existing"
    /\ ~link[KeyOf[r]]
    /\ Return(r, "internal_error")
    /\ UNCHANGED <<code, echoSeen, hubVars, commandVars, messageVars>>

\* Mutation: the UPDATE loses "AND status = 'pending'".
MarkCommandDispatched_NoStatus(r) ==
    /\ pc[r] = "prepared"
    /\ ~expired[KeyOf[r]]
    /\ cmd' = [cmd EXCEPT ![KeyOf[r]] = "dispatched"]
    /\ Goto(r, "marked")
    /\ UNCHANGED <<code, outcome, echoSeen, hubVars, link, expired, messageVars>>

\* MarkCommandDispatched: a compare-and-set on status and expiry.
MarkCommandDispatched(r) ==
    /\ pc[r] = "prepared"
    /\ cmd[KeyOf[r]] = "pending"
    /\ ~expired[KeyOf[r]]
    /\ cmd' = [cmd EXCEPT ![KeyOf[r]] = "dispatched"]
    /\ Goto(r, "marked")
    /\ UNCHANGED <<code, outcome, echoSeen, hubVars, link, expired, messageVars>>

\* The call that loses answers 202 with the message as it read it.
MarkCommandRefused(r) ==
    /\ pc[r] = "prepared"
    /\ cmd[KeyOf[r]] # "pending" \/ expired[KeyOf[r]]
    /\ Return(r, "accepted")
    /\ UNCHANGED <<code, echoSeen, hubVars, commandVars, messageVars>>

\* A query of the request's own context fails, or its commit succeeds and
\* the reply is lost (the client went away, the pool timed out): the handler
\* answers 500 and leaves the rows as they are.
QueryFails(r) ==
    /\ pc[r] \in {"idle", "existing", "prepared", "marked"}
    /\ Return(r, "internal_error")
    /\ UNCHANGED <<code, echoSeen, hubVars, commandVars, messageVars>>

\* Hub.Request without a registered worker.
RequestOffline(r) ==
    /\ pc[r] = "marked"
    /\ ~online
    /\ code' = [code EXCEPT ![r] = "worker_offline"]
    /\ Goto(r, "failing")
    /\ UNCHANGED <<outcome, echoSeen, hubVars, commandVars, messageVars>>

\* Hub.Request registers a response channel and writes the envelope.
RequestWritten(r) ==
    /\ pc[r] = "marked"
    /\ online
    /\ wire' = [wire EXCEPT ![r] = "toWorker"]
    /\ Goto(r, "waiting")
    /\ UNCHANGED <<code, outcome, echoSeen, closed, answer, online, attempt,
                   commandVars, messageVars>>

\* The write itself fails: also ErrWorkerOffline.
RequestWriteFails(r) ==
    /\ pc[r] = "marked"
    /\ online
    /\ code' = [code EXCEPT ![r] = "worker_offline"]
    /\ Goto(r, "failing")
    /\ UNCHANGED <<outcome, echoSeen, hubVars, commandVars, messageVars>>

\* The select in Hub.Request: the response, the closed connection or the
\* context, whichever is ready; with several ready any of them may win.
ResponseOk(r) ==
    /\ pc[r] = "waiting"
    /\ wire[r] = "delivered"
    /\ answer[r] = "ok"
    /\ Goto(r, "completing")
    /\ UNCHANGED <<code, outcome, echoSeen, hubVars, commandVars, messageVars>>

\* Mutation: result.Error and result.Status are not looked at.
ResponseError_Ignored(r) ==
    /\ pc[r] = "waiting"
    /\ wire[r] = "delivered"
    /\ answer[r] # "ok"
    /\ Goto(r, "completing")
    /\ UNCHANGED <<code, outcome, echoSeen, hubVars, commandVars, messageVars>>

ResponseError(r) ==
    /\ pc[r] = "waiting"
    /\ wire[r] = "delivered"
    /\ answer[r] # "ok"
    /\ code' = [code EXCEPT ![r] = answer[r]]
    /\ Goto(r, "failing")
    /\ UNCHANGED <<outcome, echoSeen, hubVars, commandVars, messageVars>>

RequestClosed(r) ==
    /\ pc[r] = "waiting"
    /\ closed[r]
    /\ code' = [code EXCEPT ![r] = "worker_offline"]
    /\ Goto(r, "failing")
    /\ UNCHANGED <<outcome, echoSeen, hubVars, commandVars, messageVars>>

\* Mutation: FailSend runs on the context that has just expired.
RequestTimeout_NotSaved(r) ==
    /\ pc[r] = "waiting"
    /\ Return(r, "error")
    /\ UNCHANGED <<code, echoSeen, hubVars, commandVars, messageVars>>

\* Mutation: Request waits for the worker without a time limit.
RequestTimeout_Never(r) ==
    /\ FALSE
    /\ UNCHANGED vars

RequestTimeout(r) ==
    /\ pc[r] = "waiting"
    /\ code' = [code EXCEPT ![r] = "worker_timeout"]
    /\ Goto(r, "failing")
    /\ UNCHANGED <<outcome, echoSeen, hubVars, commandVars, messageVars>>

\* Mutation: an unanswered command takes the unused status 'expired'.
FailStatus_Expired(c) ==
    IF c = "worker_timeout" THEN "expired" ELSE "failed"

\* FailSend's status for an error code.
FailStatus(c) ==
    IF c \in {"worker_timeout", "signal_send_unknown"} THEN "unknown" ELSE "failed"

\* Mutation: only the command is updated.
FailSend_CommandOnly(r) ==
    /\ pc[r] = "failing"
    /\ Return(r, "error")
    /\ cmd' = [cmd EXCEPT ![KeyOf[r]] = FailStatus(code[r])]
    /\ UNCHANGED <<code, echoSeen, hubVars, link, expired, messageVars>>

\* FailSend: command, message and message.updated event in one transaction.
\* Its UPDATEs carry no condition on the status they overwrite.
FailSend(r) ==
    LET k == KeyOf[r] IN
    /\ pc[r] = "failing"
    /\ link[k]
    /\ cmd' = [cmd EXCEPT ![k] = FailStatus(code[r])]
    /\ own' = [own EXCEPT ![k] = FailStatus(code[r])]
    /\ updates' = [updates EXCEPT ![k] = Append(@, FailStatus(code[r]))]
    /\ Return(r, "error")
    /\ UNCHANGED <<code, echoSeen, hubVars, link, expired, ownPid, echo, announced>>

\* The message_id is NULL, the database refuses the transaction or the five
\* second limit passes: the handler ignores the error.
FailSendFails(r) ==
    /\ pc[r] = "failing"
    /\ Return(r, "unsaved")
    /\ UNCHANGED <<code, echoSeen, hubVars, commandVars, messageVars>>

\* CompleteSend, first half: lock command and message, DELETE the ingested
\* row with the same provider id.  The deletion shows when the second half
\* commits.
CompleteSendDelete(r) ==
    /\ pc[r] = "completing"
    /\ link[KeyOf[r]]
    /\ echoSeen' = [echoSeen EXCEPT ![r] = echo[r]]
    /\ Goto(r, "saving")
    /\ UNCHANGED <<code, outcome, hubVars, commandVars, messageVars>>

\* Mutation: the DELETE of the ingested row and the event are missing.
CompleteSendUpdate_KeepsEcho(r) ==
    LET k == KeyOf[r] IN
    /\ pc[r] = "saving"
    /\ own' = [own EXCEPT ![k] = "sent"]
    /\ ownPid' = [ownPid EXCEPT ![k] = r]
    /\ cmd' = [cmd EXCEPT ![k] = "completed"]
    /\ Return(r, "sent")
    /\ UNCHANGED <<code, echoSeen, hubVars, link, expired, echo, updates, announced>>

\* CompleteSend, second half: the row takes the provider id, the command is
\* completed and message.updated queued.
CompleteSendUpdate(r) ==
    LET k == KeyOf[r] IN
    /\ pc[r] = "saving"
    /\ echo[r] => echoSeen[r]
    /\ own' = [own EXCEPT ![k] = "sent"]
    /\ ownPid' = [ownPid EXCEPT ![k] = r]
    /\ echo' = [echo EXCEPT ![r] = FALSE]
    /\ cmd' = [cmd EXCEPT ![k] = "completed"]
    /\ updates' = [updates EXCEPT ![k] = Append(@, "sent")]
    /\ Return(r, "sent")
    /\ UNCHANGED <<code, echoSeen, hubVars, link, expired, announced>>

\* The message is gone, the UPDATE meets a row ingested after the DELETE
\* (unique index on conversation_id, provider_id) or the database fails:
\* rollback, 500.
CompleteSendFails(r) ==
    /\ pc[r] \in {"completing", "saving"}
    /\ Return(r, "internal_error")
    /\ UNCHANGED <<code, echoSeen, hubVars, commandVars, messageVars>>

-----------------------------------------------------------------------------
(* The worker connection, the worker and the provider                      *)

WorkerConnect ==
    /\ ~online
    /\ online' = TRUE
    /\ UNCHANGED <<handlerVars, closed, wire, answer, attempt, commandVars,
                   messageVars>>

\* What a connection that goes away takes with it: nobody receives the result
\* of a command that is executing, while a command still on its way may yet be
\* read from the worker's end.  A response already handed to Request stays.
LoseWire == wire' = [r \in Requests |->
    CASE wire[r] = "toWorker" -> "adrift"
      [] wire[r] \in {"executing", "toApi"} -> "lost"
      [] OTHER -> wire[r]]

\* Hub.unregister: out of the map and closed under one lock.
WorkerDisconnect ==
    /\ online
    /\ online' = FALSE
    /\ closed' = [r \in Requests |-> closed[r] \/ pc[r] = "waiting"]
    /\ LoseWire
    /\ UNCHANGED <<handlerVars, answer, attempt, commandVars, messageVars>>

\* A handler slot is free: the command goes to the provider.
WorkerExecute(r) ==
    /\ wire[r] \in {"toWorker", "adrift"}
    /\ wire' = [wire EXCEPT ![r] = IF wire[r] = "adrift" THEN "lost" ELSE "executing"]
    /\ attempt' = [attempt EXCEPT ![r] = "open"]
    /\ UNCHANGED <<handlerVars, closed, answer, online, commandVars, messageVars>>

\* The worker turns the command down before the provider hears of it: no
\* free slot (worker_busy), account not linked, unknown conversation.
WorkerReject(r) ==
    /\ wire[r] = "toWorker"
    /\ wire' = [wire EXCEPT ![r] = "toApi"]
    /\ answer' = [answer EXCEPT ![r] = "rejected"]
    /\ UNCHANGED <<handlerVars, closed, online, attempt, commandVars, messageVars>>

\* The provider decides, at any time after the request went out: also after
\* the worker, the connection or the API gave up waiting for it.
ProviderDecide(r) ==
    /\ attempt[r] = "open"
    /\ \E d \in {"accepted", "refused"} : attempt' = [attempt EXCEPT ![r] = d]
    /\ UNCHANGED <<handlerVars, closed, wire, answer, online, commandVars,
                   messageVars>>

\* The worker answers: "ok" names the provider's message id, so it follows
\* acceptance.  A time limit gives the unknown code; every other error of
\* the call, a refusal or a broken link to the provider process, the failed
\* code.  A result without provider id or time is invalid_worker_response.
WorkerAnswers(r) ==
    {a \in {"ok", "invalid_worker_response", UnknownCode, FailedCode} :
        a = "ok" => attempt[r] = "accepted"}

WorkerRespond(r) ==
    /\ wire[r] = "executing"
    /\ wire' = [wire EXCEPT ![r] = "toApi"]
    /\ \E a \in WorkerAnswers(r) : answer' = [answer EXCEPT ![r] = a]
    /\ UNCHANGED <<handlerVars, closed, online, attempt, commandVars, messageVars>>

\* Hub.deliver: dropped when Request no longer waits.
Deliver(r) ==
    /\ wire[r] = "toApi"
    /\ wire' = [wire EXCEPT ![r] = IF pc[r] = "waiting" THEN "delivered" ELSE "lost"]
    /\ UNCHANGED <<handlerVars, closed, answer, online, attempt, commandVars,
                   messageVars>>

-----------------------------------------------------------------------------
(* Others that write the same rows                                         *)

\* Mutation: only rows that came from the worker count as duplicates.
HasRow_IngestedOnly(r) == echo[r]

\* A row of the conversation has the provider id of send r.
HasRow(r) == echo[r] \/ \E k \in Keys : ownPid[k] = r

\* ingestMessage for a message this account sent: as an event of the worker
\* (live) or from the history refresh of listMessages.  A known provider id
\* changes nothing.
IngestEcho(r) ==
    /\ attempt[r] = "accepted"
    /\ ~HasRow(r)
    /\ echo' = [echo EXCEPT ![r] = TRUE]
    /\ \E live \in BOOLEAN :
          announced' = IF live THEN announced \cup {r} ELSE announced
    /\ UNCHANGED <<handlerVars, hubVars, commandVars, own, ownPid, updates>>

\* expires_at passes, five minutes after PrepareSend.
Expire(k) ==
    /\ cmd[k] = "pending"
    /\ ~expired[k]
    /\ expired' = [expired EXCEPT ![k] = TRUE]
    /\ UNCHANGED <<handlerVars, hubVars, cmd, link, messageVars>>

\* Prune deletes rows that are not pending; deleting a message sets the
\* message_id of its command to NULL.
Prune(K, R) ==
    /\ \A k \in K : own[k] \in {"sent", "failed", "unknown"}
    /\ \A r \in R : echo[r]
    /\ own' = [k \in Keys |-> IF k \in K THEN "none" ELSE own[k]]
    /\ ownPid' = [k \in Keys |-> IF k \in K THEN NoMessage ELSE ownPid[k]]
    /\ link' = [k \in Keys |-> IF k \in K THEN FALSE ELSE link[k]]
    /\ echo' = [r \in Requests |-> IF r \in R THEN FALSE ELSE echo[r]]
    /\ UNCHANGED <<handlerVars, hubVars, cmd, expired, updates, announced>>

\* The API process dies and starts again: every handler and the connection
\* are gone, the tables stay.
ApiCrash ==
    /\ \E r \in Requests : pc[r] \notin {"idle", "done"}
    /\ pc' = [r \in Requests |-> IF pc[r] = "idle" THEN "idle" ELSE "done"]
    /\ outcome' = [r \in Requests |->
                     IF pc[r] \in {"idle", "done"} THEN outcome[r] ELSE "crashed"]
    /\ online' = FALSE
    /\ LoseWire
    /\ UNCHANGED <<code, echoSeen, closed, answer, attempt, commandVars, messageVars>>

-----------------------------------------------------------------------------
HandlerStep(r) ==
    \/ ExistingSendPending(r)
    \/ ExistingSendKnown(r)
    \/ ExistingSendMissing(r)
    \/ MarkCommandDispatched(r)
    \/ MarkCommandRefused(r)
    \/ RequestOffline(r)
    \/ RequestWritten(r)
    \/ RequestWriteFails(r)
    \/ ResponseOk(r)
    \/ ResponseError(r)
    \/ RequestClosed(r)
    \/ RequestTimeout(r)
    \/ FailSend(r)
    \/ CompleteSendDelete(r)
    \/ CompleteSendUpdate(r)
    \/ CompleteSendFails(r)
    \/ FailSendFails(r)
    \/ QueryFails(r)

WorkerStep(r) ==
    \/ WorkerExecute(r)
    \/ WorkerReject(r)
    \/ ProviderDecide(r)
    \/ WorkerRespond(r)
    \/ Deliver(r)

Next ==
    \/ \E r \in Requests : \/ PrepareSendNew(r)
                            \/ PrepareSendConflict(r)
                            \/ HandlerStep(r)
                            \/ WorkerStep(r)
                            \/ IngestEcho(r)
    \/ \E k \in Keys : Expire(k)
    \/ \E K \in SUBSET Keys, R \in SUBSET Requests : Prune(K, R)
    \/ WorkerConnect
    \/ WorkerDisconnect
    \/ ApiCrash

Spec == Init /\ [][Next]_vars

\* The handler goroutine runs until it returns; the 30 second limit of
\* Request and the 5 second limits on FailSend and CompleteSend bound it.
Fairness == \A r \in Requests : WF_vars(HandlerStep(r))

FairSpec == Spec /\ Fairness

-----------------------------------------------------------------------------
(* Properties                                                              *)

InHub == {"marked", "waiting", "failing", "completing", "saving"}

\* The status the message of a command in status c should show.
StatusFor(c) == IF c \in {"pending", "dispatched"} THEN "pending"
                ELSE IF c = "completed" THEN "sent" ELSE c

\* However many calls carry a key, whatever crashes and retries happen, at
\* most one of them hands the message to the worker: existingSend may give
\* the same pending command to several calls, MarkCommandDispatched picks one.
AtMostOneSend ==
    \A r, s \in Requests :
        /\ KeyOf[r] = KeyOf[s]
        /\ wire[r] # "none"
        /\ wire[s] # "none"
        => r = s

\* The message shows the status of its command: PrepareSend, FailSend and
\* CompleteSend change both together, MarkCommandDispatched and Prune must
\* not set them apart, and a late answer must not overwrite one of them.
CommandMatchesMessage ==
    \A k \in Keys :
        /\ link[k] <=> own[k] # "none"
        /\ link[k] => own[k] = StatusFor(cmd[k])

\* A message the provider took is one row of the conversation: the
\* optimistic row that carries its provider id or the row ingested from the
\* worker, whichever of CompleteSend and ingestMessage comes first.
OneRowPerMessage ==
    /\ \A r \in Requests : ~(echo[r] /\ \E k \in Keys : ownPid[k] = r)
    /\ \A j, k \in Keys : ownPid[j] = ownPid[k] => j = k \/ ownPid[j] = NoMessage

\* A send that is settled in the database was announced exactly once, with
\* the status it settled as; one that is not settled was not announced.
OutboxMatchesRow ==
    \A k \in Keys :
        updates[k] = IF cmd[k] \in Terminal THEN <<StatusFor(cmd[k])>> ELSE <<>>

\* A dispatched command has a handler that will settle it, unless that
\* handler died with the API or its own last transaction failed: no answer,
\* close or timeout of the worker leaves it dispatched with nobody in charge.
DispatchedHasOwner ==
    \A k \in Keys : cmd[k] = "dispatched" =>
        \E r \in Requests :
            /\ KeyOf[r] = k
            /\ \/ pc[r] \in InHub
               \/ pc[r] = "done" /\ outcome[r] \in {"crashed", "internal_error", "unsaved"}

\* Once message.updated told the client that its own row is provider message
\* r, r is never announced again as a new message.
NoEchoAfterCompletion ==
    [][\A r \in announced' \ announced : \A k \in Keys : ownPid[k] # r]_vars

\* The keys whose message reached the provider.
DeliveredKeys == {KeyOf[r] : r \in {s \in Requests : attempt[s] = "accepted"}}

Contract == INSTANCE SendContract WITH stage <- cmd, delivered <- DeliveredKeys

\* The pipeline keeps the contract of SendContract: one submission, one
\* dispatch, at most one acceptance by the provider, one settlement, and
\* "completed" only for a message the provider has.
SendImplementsContract == Contract!ContractSpec

\* A dispatched command is settled in the end, unless its handler was lost
\* to a crash or to a failed transaction.
DispatchedIsSettled ==
    \A k \in Keys :
        cmd[k] = "dispatched" ~>
            \/ cmd[k] \in Terminal
            \/ \E r \in Requests :
                  /\ KeyOf[r] = k
                  /\ outcome[r] \in {"crashed", "internal_error", "unsaved"}

\* "If the connection dies after provider send but before acknowledgement,
\* the message is marked `unknown`" (PLAN.md, section 13): a send the provider
\* has, whose connection closed under Request, never settles as failed.
LostAckIsUnknown ==
    \A r \in Requests :
        /\ closed[r]
        /\ attempt[r] = "accepted"
        /\ cmd[KeyOf[r]] \in Terminal
        => cmd[KeyOf[r]] # "failed"
=============================================================================
