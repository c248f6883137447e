--------------------------- MODULE TelegramWorker ---------------------------
(***************************************************************************)
(* The Telegram worker process (workers/telegram): the session loop        *)
(* (WorkerClient.connect), the service behind it (TelegramService) and the *)
(* client of the TDLib process (TdlibClient).                              *)
(*                                                                         *)
(* There is one thread.  A callback runs to its end, then the              *)
(* continuations of the promises it resolved, then the next callback.  The *)
(* loop runs one command at a time.  What TDLib writes to stdout is a      *)
(* queue of lines; handleOutput takes several in one callback, so that the *)
(* outcome of a send can be read before the code that waits for it has     *)
(* registered.  The way from the spool to the API is in EventDelivery.     *)
(***************************************************************************)
EXTENDS Naturals, Sequences, SequencesExt, FiniteSets

CONSTANTS Commands,      \* commands the API sends
          KindsOf,       \* KindsOf[c]: the types command c may have
          MaxCompleted,  \* how many completedSends are kept (100)
          NUpdates,      \* how many new messages TDLib reports at most
          Loads,         \* the workloads: which commands come, how many messages
          MaxLines       \* bound on the lines TDLib is ahead of the worker

Updates == 1..NUpdates
Types == {"send", "link.start", "link.finish", "read"}
AuthStates == {"phone", "code", "password", "ready"}

ASSUME TelegramAssumption == /\ KindsOf \in [Commands -> SUBSET Types]
                             /\ MaxCompleted \in Nat
                             /\ NUpdates \in Nat
                             /\ Loads \subseteq [commands : SUBSET Commands,
                                                 updates : 0..NUpdates]
                             /\ MaxLines \in Nat \ {0}

VARIABLES
    load,       \* the workload of this behaviour
    td,         \* the TDLib process: not started, up, or exited for good
    tdAuth,     \* the authorization state of TDLib
    lines,      \* its output that handleOutput has not read
    told,       \* messages 1..told have been reported
    auth,       \* TdlibClient.authorizationState
    completed,  \* completedSends, oldest first
    chain,      \* updates in updateChain: messages, and 0 for a status
    lookup,     \* the request of the update at its head
    spooled,    \* messages that were published, in order
    lost,       \* messages that handleUpdate failed on
    sock,       \* the socket of the session: down, open, or closed unnoticed
    inbox,      \* MessageQueue.messages
    kind,       \* kind[c]: what c asks TDLib for
    pc,         \* pc[c]: where command c is
    out,        \* out[c]: the response to its request, then its result
    remote,     \* remote[c]: how far TDLib is with its request
    blind       \* commands whose outcome the worker cannot see any more

tdVars == <<load, td, tdAuth, told>>
chainVars == <<chain, lookup, spooled, lost>>
sessionVars == <<sock, inbox>>
commandVars == <<kind, pc, out, remote, blind>>
vars == <<tdVars, lines, auth, completed, chainVars, sessionVars, commandVars>>

-----------------------------------------------------------------------------
Responses == {"done", "pending", "error", "unreadable"}
Results == {"ok", "failed", "unknown"}
Running == {"request", "resolved", "sendWaiter", "authWaiter", "reply"}

\* Kinds of commands with an effect: a send, or what a link step submits.
LinkKinds == {"phone", "code", "password"}
EffectKinds == LinkKinds \cup {"send"}

Lines == [type : {"response"}, of : Commands, value : Responses]
         \cup [type : {"sent", "notSent"}, of : Commands]
         \cup [type : {"auth"}, value : AuthStates]
         \cup [type : {"update"}, value : Updates]
         \cup [type : {"sender"}, value : {"found", "failed"}]

TypeOK ==
    /\ load \in Loads
    /\ td \in {"off", "up", "exited"}
    /\ tdAuth \in AuthStates /\ auth \in AuthStates \cup {""}
    /\ lines \in Seq(Lines)
    /\ told \in 0..NUpdates
    /\ completed \in Seq(Commands) /\ Len(completed) <= MaxCompleted
    /\ chain \in Seq(0..NUpdates)
    /\ lookup \in {"none", "open", "found", "failed"}
    /\ spooled \in Seq(Updates) /\ lost \in SUBSET Updates
    /\ sock \in {"down", "open", "closed"}
    /\ inbox \in Seq(Commands)
    /\ kind \in [Commands -> EffectKinds \cup {"read", "none"}]
    /\ pc \in [Commands -> Running \cup {"idle", "inbox", "answered", "gone"}]
    /\ out \in [Commands -> Responses \cup Results \cup {"none"}]
    /\ remote \in [Commands -> {"none", "asked", "sending", "accepted", "refused"}]
    /\ blind \in SUBSET Commands
    /\ Cardinality({c \in Commands : pc[c] \in Running}) <= 1

Init ==
    /\ load \in Loads
    /\ td = "off"
    /\ tdAuth \in {"phone", "ready"}
    /\ lines = <<>>
    /\ told = 0
    /\ auth = ""
    /\ completed = <<>>
    /\ chain = <<>>
    /\ lookup = "none"
    /\ spooled = <<>>
    /\ lost = {}
    /\ sock = "down"
    /\ inbox = <<>>
    /\ kind = [c \in Commands |-> "none"]
    /\ pc = [c \in Commands |-> "idle"]
    /\ out = [c \in Commands |-> "none"]
    /\ remote = [c \in Commands |-> "none"]
    /\ blind = {}

\* No continuation is due, so that the next callback may run.
Quiet == \A c \in Commands : pc[c] # "resolved"

-----------------------------------------------------------------------------
(* The TDLib process                                                       *)

\* TdlibClient.start and initialize.  The session loop does not wait for it.
StartTdlib ==
    /\ td = "off"
    /\ td' = "up"
    /\ auth' = tdAuth
    /\ UNCHANGED <<load, tdAuth, told, lines, completed, chainVars, sessionVars, commandVars>>

CanWrite == td = "up" /\ Len(lines) < MaxLines

\* TDLib has come to d with the request of c and writes ls.
TdWrites(c, d, ls) ==
    /\ CanWrite
    /\ remote' = [remote EXCEPT ![c] = d]
    /\ lines' = lines \o ls
    /\ UNCHANGED <<load, td, told, auth, completed, chainVars, sessionVars, kind, pc, out, blind>>

Response(c, r) == [type |-> "response", of |-> c, value |-> r]

\* TDLib answers a request, also one that nobody waits for any more: with an
\* error, with a result, or with one that has no message id.
TdAnswers(c) ==
    /\ remote[c] = "asked"
    /\ \/ TdWrites(c, "refused", <<Response(c, "error")>>)
       \/ kind[c] \in {"send", "read"} /\ TdWrites(c, "accepted", <<Response(c, "done")>>)
       \/ kind[c] = "send" /\ TdWrites(c, "accepted", <<Response(c, "unreadable")>>)
    /\ UNCHANGED tdAuth

\* TDLib queues a message and answers with its temporary id.
TdQueuesSend(c) ==
    /\ remote[c] = "asked" /\ kind[c] = "send"
    /\ TdWrites(c, "sending", <<Response(c, "pending")>>)
    /\ UNCHANGED tdAuth

\* The outcome of a queued message.
TdFinishesSend(c) ==
    /\ remote[c] = "sending"
    /\ \/ TdWrites(c, "accepted", <<[type |-> "sent", of |-> c]>>)
       \/ TdWrites(c, "refused", <<[type |-> "notSent", of |-> c]>>)
    /\ UNCHANGED tdAuth

\* The authorization states that end the wait after a link step.
AcceptedStates(k) ==
    CASE k = "phone" -> {"code", "password", "ready"}
      [] k = "code" -> {"password", "ready"}
      [] k = "password" -> {"ready"}

\* TDLib accepts what a link step submits; the response and the update come in
\* either order.
TdAuthorizes(c) ==
    /\ remote[c] = "asked" /\ kind[c] \in LinkKinds
    /\ tdAuth = kind[c]
    /\ tdAuth' \in AcceptedStates(kind[c])
    /\ LET update == [type |-> "auth", value |-> tdAuth']
       IN  \/ TdWrites(c, "accepted", <<Response(c, "done"), update>>)
           \/ TdWrites(c, "accepted", <<update, Response(c, "done")>>)

TdReports ==
    /\ CanWrite
    /\ told < load.updates
    /\ told' = told + 1
    /\ lines' = Append(lines, [type |-> "update", value |-> told + 1])
    /\ UNCHANGED <<load, td, tdAuth, auth, completed, chainVars, sessionVars, commandVars>>

\* The answer to getUser, getChat or getMe of the update at the head.
TdFindsSender ==
    /\ CanWrite
    /\ lookup = "open"
    /\ ~ \E i \in DOMAIN lines : lines[i].type = "sender"
    /\ \E v \in {"found", "failed"} : lines' = Append(lines, [type |-> "sender", value |-> v])
    /\ UNCHANGED <<tdVars, auth, completed, chainVars, sessionVars, commandVars>>

-----------------------------------------------------------------------------
(* TdlibClient                                                             *)

\* The worker gives up on the requests of C, whatever TDLib makes of them.
LoseSight(C) == blind' = blind \cup {c \in C : kind[c] \in EffectKinds}

Settle(c, result) ==
    /\ pc' = [pc EXCEPT ![c] = "reply"]
    /\ out' = [out EXCEPT ![c] = result]

\* The exit handler rejects the requests and the send waiters.  Those who wait
\* for an authorization state go on waiting.  Nobody starts TDLib again, and
\* what it has written is still read.
TdExits ==
    /\ Quiet
    /\ td = "up"
    /\ td' = "exited"
    /\ LET C == {c \in Commands : pc[c] \in {"request", "sendWaiter"}}
       IN  /\ pc' = [c \in Commands |-> IF c \in C THEN "reply" ELSE pc[c]]
           /\ out' = [c \in Commands |-> IF c \in C THEN "failed" ELSE out[c]]
           /\ LoseSight(C)
    /\ lookup' = IF lookup = "open" THEN "failed" ELSE lookup
    /\ UNCHANGED <<load, tdAuth, told, lines, auth, completed, chain, spooled, lost,
                   sessionVars, kind, remote>>

\* The timer of request, or an error of the write to stdin.  The request may
\* have reached TDLib all the same; the result is telegram_..._failed.
RequestFails(c) ==
    /\ Quiet
    /\ pc[c] = "request"
    /\ Settle(c, "failed")
    /\ LoseSight({c})
    /\ UNCHANGED <<tdVars, lines, auth, completed, chainVars, sessionVars, kind, remote>>

\* Mutation: the wait for the outcome has no time limit.
SendTimesOut_Never(c) == FALSE

\* The timer of the send waiter.
SendTimesOut(c) ==
    /\ Quiet
    /\ pc[c] = "sendWaiter"
    /\ Settle(c, "unknown")
    /\ LoseSight({c})
    /\ UNCHANGED <<tdVars, lines, auth, completed, chainVars, sessionVars, kind, remote>>

\* The timer of waitForAuthState.
AuthTimesOut(c) ==
    /\ Quiet
    /\ pc[c] = "authWaiter"
    /\ Settle(c, "failed")
    /\ LoseSight({c})
    /\ UNCHANGED <<tdVars, lines, auth, completed, chainVars, sessionVars, kind, remote>>

LookupTimesOut ==
    /\ Quiet
    /\ lookup = "open"
    /\ lookup' = "failed"
    /\ UNCHANGED <<tdVars, lines, auth, completed, chain, spooled, lost, sessionVars,
                   commandVars>>

\* handleOutput, one line.  A line for a request that is not pending any more
\* is skipped.
NextLine(type) == lines # <<>> /\ Head(lines).type = type /\ lines' = Tail(lines)

ReadResponse ==
    /\ NextLine("response")
    /\ LET c == Head(lines).of
       IN  IF pc[c] = "request"
           THEN /\ pc' = [pc EXCEPT ![c] = "resolved"]
                /\ out' = [out EXCEPT ![c] = Head(lines).value]
           ELSE UNCHANGED <<pc, out>>
    /\ UNCHANGED <<tdVars, auth, completed, chainVars, sessionVars, kind, remote, blind>>

\* updateMessageSendSucceeded: for the waiter, or kept for the one to come, at
\* the cost of the oldest that is kept.
ReadSent ==
    /\ NextLine("sent")
    /\ LET c == Head(lines).of
           kept == Append(completed, c)
       IN  IF pc[c] = "sendWaiter"
           THEN Settle(c, "ok") /\ UNCHANGED completed
           ELSE /\ completed' = IF Len(kept) > MaxCompleted THEN Tail(kept) ELSE kept
                /\ UNCHANGED <<pc, out>>
    /\ UNCHANGED <<tdVars, auth, chainVars, sessionVars, kind, remote, blind>>

\* updateMessageSendFailed: for the waiter, or for nobody.
ReadNotSent ==
    /\ NextLine("notSent")
    /\ LET c == Head(lines).of
       IN  IF pc[c] = "sendWaiter" THEN Settle(c, "failed") ELSE UNCHANGED <<pc, out>>
    /\ UNCHANGED <<tdVars, auth, completed, chainVars, sessionVars, kind, remote, blind>>

\* updateAuthorizationState: setAuthorizationState wakes the waiters that accept
\* the state, and the status joins the chain.
ReadAuth ==
    /\ NextLine("auth")
    /\ auth' = Head(lines).value
    /\ LET C == {c \in Commands : pc[c] = "authWaiter" /\ auth' \in AcceptedStates(kind[c])}
       IN  /\ pc' = [c \in Commands |-> IF c \in C THEN "reply" ELSE pc[c]]
           /\ out' = [c \in Commands |-> IF c \in C THEN "ok" ELSE out[c]]
    /\ chain' = Append(chain, 0)
    /\ UNCHANGED <<tdVars, completed, lookup, spooled, lost, sessionVars, kind, remote, blind>>

\* updateNewMessage joins the chain.
ReadUpdate ==
    /\ NextLine("update")
    /\ chain' = Append(chain, Head(lines).value)
    /\ UNCHANGED <<tdVars, auth, completed, lookup, spooled, lost, sessionVars, commandVars>>

ReadSender ==
    /\ NextLine("sender")
    /\ lookup' = IF lookup = "open" THEN Head(lines).value ELSE lookup
    /\ UNCHANGED <<tdVars, auth, completed, chain, spooled, lost, sessionVars, commandVars>>

ReadLine ==
    ReadResponse \/ ReadSent \/ ReadNotSent \/ ReadAuth \/ ReadUpdate \/ ReadSender

\* The code after await this.request.
Continues(c) ==
    /\ pc[c] = "resolved"
    /\ UNCHANGED <<tdVars, lines, auth, chainVars, sessionVars, kind, remote>>

RequestDone(c) ==
    /\ Continues(c)
    /\ \/ out[c] = "error" /\ Settle(c, "failed") /\ UNCHANGED blind
       \/ out[c] = "unreadable" /\ Settle(c, "failed") /\ LoseSight({c})
       \/ out[c] = "done" /\ kind[c] \notin LinkKinds /\ Settle(c, "ok") /\ UNCHANGED blind
    /\ UNCHANGED completed

\* waitForAuthState: the state may have been read before the response.
LinkStepDone(c) ==
    /\ Continues(c)
    /\ out[c] = "done" /\ kind[c] \in LinkKinds
    /\ IF auth \in AcceptedStates(kind[c])
       THEN Settle(c, "ok")
       ELSE pc' = [pc EXCEPT ![c] = "authWaiter"] /\ UNCHANGED out
    /\ UNCHANGED <<completed, blind>>

\* Mutation: any outcome that has come is taken for the one of this message.
SendQueued_AnyOutcome(c) ==
    /\ Continues(c)
    /\ out[c] = "pending"
    /\ IF completed # <<>>
       THEN completed' = Tail(completed) /\ Settle(c, "ok")
       ELSE pc' = [pc EXCEPT ![c] = "sendWaiter"] /\ UNCHANGED <<completed, out>>
    /\ UNCHANGED blind

\* sendMessage looks for an outcome that has come already, then waits.
SendQueued(c) ==
    /\ Continues(c)
    /\ out[c] = "pending"
    /\ IF Contains(completed, c)
       THEN completed' = RemoveFirst(completed, c) /\ Settle(c, "ok")
       ELSE pc' = [pc EXCEPT ![c] = "sendWaiter"] /\ UNCHANGED <<completed, out>>
    /\ UNCHANGED blind

-----------------------------------------------------------------------------
(* TelegramService: the chain of updates                                   *)

\* handleUpdate of the update at the head.  A message of a user or a chat needs
\* a request for the name, and so does the status "live".
StartUpdate ==
    /\ chain # <<>>
    /\ lookup = "none"
    /\ lookup' \in {"found", IF td = "up" THEN "open" ELSE "failed"}
    /\ UNCHANGED <<tdVars, lines, auth, completed, chain, spooled, lost, sessionVars,
                   commandVars>>

\* Mutation: updates are handled side by side, and a later one may overtake.
PublishUpdate_Unordered ==
    /\ lookup = "found"
    /\ \E i \in DOMAIN chain :
          /\ spooled' = IF chain[i] = 0 THEN spooled ELSE Append(spooled, chain[i])
          /\ chain' = RemoveAt(chain, i)
    /\ lookup' = "none"
    /\ UNCHANGED <<tdVars, lines, auth, completed, lost, sessionVars, commandVars>>

\* publish appends to the spool, and the next update has its turn.
PublishUpdate ==
    /\ lookup = "found"
    /\ spooled' = IF Head(chain) = 0 THEN spooled ELSE Append(spooled, Head(chain))
    /\ chain' = Tail(chain)
    /\ lookup' = "none"
    /\ UNCHANGED <<tdVars, lines, auth, completed, lost, sessionVars, commandVars>>

\* The request or the append fails: the error is logged, the update is gone, and
\* the next one has its turn.
UpdateFails ==
    /\ lookup \in {"found", "failed"}
    /\ lost' = lost \cup ({Head(chain)} \ {0})
    /\ chain' = Tail(chain)
    /\ lookup' = "none"
    /\ UNCHANGED <<tdVars, lines, auth, completed, spooled, sessionVars, commandVars>>

-----------------------------------------------------------------------------
(* WorkerClient: the session loop                                          *)

Free == Quiet /\ \A c \in Commands : pc[c] \notin Running

\* run connects again after every end of a session, whatever TDLib does.
Connect ==
    /\ Free
    /\ sock = "down"
    /\ sock' = "open"
    /\ UNCHANGED <<tdVars, lines, auth, completed, chainVars, inbox, commandVars>>

Incoming(c) ==
    /\ Quiet
    /\ sock = "open"
    /\ c \in load.commands
    /\ pc[c] = "idle"
    /\ inbox' = Append(inbox, c)
    /\ pc' = [pc EXCEPT ![c] = "inbox"]
    /\ UNCHANGED <<tdVars, lines, auth, completed, chainVars, sock, kind, out, remote, blind>>

\* The connection fails.  A command that runs does not notice.
SocketFails ==
    /\ Quiet
    /\ sock = "open"
    /\ sock' = "closed"
    /\ UNCHANGED <<tdVars, lines, auth, completed, chainVars, inbox, commandVars>>

\* The loop takes the next command, on a failed connection too: next looks at
\* the failure only when nothing is queued.
Takes(c) ==
    /\ Free
    /\ sock # "down"
    /\ inbox # <<>> /\ Head(inbox) = c
    /\ inbox' = Tail(inbox)
    /\ UNCHANGED <<tdVars, lines, auth, completed, chainVars, sock, blind>>

\* TdlibClient.request; without the process there is none.
Request(c, k) ==
    /\ kind' = [kind EXCEPT ![c] = k]
    /\ IF td = "up"
       THEN /\ pc' = [pc EXCEPT ![c] = "request"]
            /\ remote' = [remote EXCEPT ![c] = "asked"]
            /\ UNCHANGED out
       ELSE Settle(c, "failed") /\ UNCHANGED remote

\* A command that ends without a request.
AnswerNow(c, result) == Settle(c, result) /\ UNCHANGED <<kind, remote>>

\* send, listChats, listMessages and startLink; a payload without what they
\* need is an error.
TakeCommand(c, t) ==
    /\ Takes(c)
    /\ t \in KindsOf[c] \ {"link.finish"}
    /\ \/ Request(c, IF t = "link.start" THEN "phone" ELSE t)
       \/ AnswerNow(c, "failed")

\* finishLink submits what TDLib waits for.
TakeFinishLink(c) ==
    /\ Takes(c)
    /\ "link.finish" \in KindsOf[c]
    /\ \/ auth \in {"code", "password"} /\ Request(c, auth)
       \/ auth = "ready" /\ AnswerNow(c, "ok")
       \/ auth # "ready" /\ AnswerNow(c, "failed")

\* The result goes to the socket the command came from.  If that has failed the
\* session ends, and what is queued ends with it.
Reply(c) ==
    /\ Quiet
    /\ pc[c] = "reply"
    /\ IF sock = "open"
       THEN /\ pc' = [pc EXCEPT ![c] = "answered"]
            /\ UNCHANGED <<sock, inbox>>
       ELSE /\ pc' = [d \in Commands |-> IF d = c \/ pc[d] = "inbox" THEN "gone" ELSE pc[d]]
            /\ sock' = "down"
            /\ inbox' = <<>>
    /\ UNCHANGED <<tdVars, lines, auth, completed, chainVars, kind, out, remote, blind>>

\* next rejects: the session ends.
SessionEnds ==
    /\ Free
    /\ sock = "closed" /\ inbox = <<>>
    /\ sock' = "down"
    /\ UNCHANGED <<tdVars, lines, auth, completed, chainVars, inbox, commandVars>>

-----------------------------------------------------------------------------
TdStep ==
    \/ TdReports
    \/ TdFindsSender
    \/ \E c \in Commands :
          TdAnswers(c) \/ TdQueuesSend(c) \/ TdFinishesSend(c) \/ TdAuthorizes(c)

Timers(c) == RequestFails(c) \/ SendTimesOut(c) \/ AuthTimesOut(c)

Continuation(c) == RequestDone(c) \/ LinkStepDone(c) \/ SendQueued(c)

UpdateStep == StartUpdate \/ PublishUpdate \/ UpdateFails

Take == \E c \in Commands : TakeFinishLink(c) \/ \E t \in Types : TakeCommand(c, t)

Next ==
    \/ StartTdlib
    \/ TdStep
    \/ TdExits
    \/ ReadLine
    \/ LookupTimesOut
    \/ UpdateStep
    \/ Connect
    \/ SocketFails
    \/ SessionEnds
    \/ Take
    \/ \E c \in Commands : Timers(c) \/ Continuation(c) \/ Incoming(c) \/ Reply(c)

Spec == Init /\ [][Next]_vars

\* The event loop runs what is ready, and timers run out.  TDLib may be silent,
\* the API may send nothing, and no connection needs to fail.
Fairness ==
    /\ WF_vars(ReadLine)
    /\ WF_vars(Take)
    /\ WF_vars(\E c \in Commands : Timers(c) \/ Continuation(c) \/ Reply(c))

FairSpec == Spec /\ Fairness

-----------------------------------------------------------------------------
(* Properties                                                              *)

AnswerOf(c) ==
    IF pc[c] = "answered" /\ kind[c] \in EffectKinds THEN out[c] ELSE "none"

EffectOf(c) ==
    IF kind[c] \notin EffectKinds THEN "none"
    ELSE IF remote[c] \in {"asked", "sending"} THEN "open"
    ELSE remote[c]

Contract == INSTANCE WorkerContract
                WITH answer <- [c \in Commands |-> AnswerOf(c)],
                     effect <- [c \in Commands |-> EffectOf(c)],
                     partial <- {}

\* The worker keeps the contract of WorkerContract: it reports a message as sent
\* and a link step as done only if TDLib said so, through the early outcome in
\* completedSends too; a failure TDLib did not report, or "unknown", only after
\* a time limit, the exit of TDLib or an unreadable answer (what TDLib has
\* accepted needs no further step that could fail); and no command is submitted
\* or answered twice.
TelegramImplementsWorker == Contract!ContractSpec

\* Message m is in the output of TDLib.
Written(m) == \E i \in 1..Len(lines) : lines[i].type = "update" /\ lines[i].value = m

\* Messages are published in the order TDLib reported them and none is lost
\* silently: what was reported, and nothing else, has been published, is on its
\* way through the output and the chain, or is one whose name lookup or append
\* has failed; that one is not published all the same.
UpdatesInOrder ==
    LET all == spooled \o chain
        Has(m) == \E i \in 1..Len(all) : all[i] = m
    IN  /\ \A i, j \in 1..Len(all) : i < j /\ all[i] # 0 /\ all[j] # 0 => all[i] < all[j]
        /\ \A m \in Updates : m <= told <=> Has(m) \/ Written(m) \/ m \in lost
        /\ \A m \in Updates : ~(Has(m) /\ Written(m)) /\ ~(m \in lost /\ (Has(m) \/ Written(m)))

\* Every command that has come in is answered in the end, or its connection has
\* failed and the loop is done with it: the time limits free the loop, which
\* runs nothing else meanwhile, from a TDLib that is silent, that has exited or
\* whose update came too early, and no end of a session leaves it stuck.
TakenIsAnswered ==
    <>[](\A c \in Commands : pc[c] \in {"idle", "answered", "gone"})
=============================================================================
