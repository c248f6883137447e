# Verification of say

`say` is a messaging gateway. An API server (`cmd/say-api`) keeps accounts,
conversations and messages in Postgres and talks to clients over HTTP and a
WebSocket. For each messaging account one worker process (`say-signal` in Go,
`workers/telegram` in TypeScript) dials the API, executes commands such as
`send`, and streams events such as `message.new`. This directory holds TLA+
models of the server, of both workers and of the protocol between them, TLC
configurations for small instances, and TLAPS proofs.

## Parts of the system

| Part | State | Operations | Hard behaviour | Module |
|---|---|---|---|---|
| Outbound send (`httpapi.sendMessage`, `postgres.MessageStore`, `gateway.Hub.Request`) | `commands`, `messages`, pending response channels | PrepareSend, existingSend, MarkCommandDispatched, Request, CompleteSend, FailSend | client retries in parallel, answers after the time limit, closed connections, API crash after dispatch, the echo of the own message | `SendPipeline` |
| Inbound events (`worker.Client`, `worker.eventSpool`, `Hub.ServeWorker`, `IngestMessage`) | spool files, the session's `sentEvents`, `messages`, `conversations.unread_count`, outbox | Append, sendPendingEvents, Ack, ingestMessage, CacheMessage, SetWorkerIdentity, Prune | lost acknowledgements, replay, crash of either side, event the hub refuses, history reads and retention beside the stream | `EventDelivery` |
| Worker gateway and accounts (`gateway.Hub`, `postgres.AccountStore`) | `accounts`, `pairing_tokens`, `worker_credentials`, `Hub.workers` | AuthenticateWorker, redeemEnrollment, register, unregister, SetWorkerStatus, Disconnect, DeleteAccount, MarkWorkersOffline | two workers with one token, half-open connections, writes outside the lock, deletion during a handshake | `WorkerHub` |
| Realtime (`insertOutbox`, `drainOutbox`, `realtime.Hub`) | `outbox`, one bounded queue per client | Publish, Serve, MarkOutboxDelivered, Prune | ids that commit out of order, overflow, crash between publish and mark | `Realtime` |
| Authentication (`auth.Service`) | `auth_logins`, `refresh_tokens` | Start, Verify, Refresh | concurrent guesses, concurrent rotation | `AuthService` |
| Signal worker (`cmd/say-signal`, the session loop of `worker.Client`, `signalworker.Service`, `signalcli.Client`) | handler slots, `results`, `notifications`, `events`, pending calls, `account`, `linkURI` | HandleCommand, Call, readLoop, consumeNotifications, PublishStatus, collectEvents | every channel has a limit, handlers outlive their session, the connection to signal-cli breaks under running calls | `SignalWorker` |
| Telegram worker (`WorkerClient`, `TelegramService`, `TdlibClient`) | `MessageQueue`, pending requests, `sendWaiters`, `completedSends`, `updateChain`, `authorizationState` | connect, request, sendMessage, waitForAuthState, handleOutput, handleUpdate | outcomes that come before their waiter, time limits against late answers, TDLib exits, a failed connection with work queued | `TelegramWorker` |

The parts meet in the database and on the worker connection. `sendMessage`
writes a command and a message, asks the hub, and the hub writes to the
connection that `ServeWorker` has registered; the read loop of the same
connection hands the answer back. Events arrive on that read loop, are stored by
`IngestMessage` together with an outbox entry, and are acknowledged; a ticker
publishes outbox entries to the clients' queues. Each module models one of these
paths from end to end and keeps what it needs of its neighbours: a connection
that comes and goes, a provider that decides at any time, a process that dies.

## Modules

Every table row, in-memory map and envelope in transit that a path depends on is
a variable; every transaction, every critical section under a mutex and every
read or write on a connection is an action. Message bodies, titles, times and
ids are abstracted to model values.

**`SendPipeline`.** One conversation; `Requests` are HTTP calls, `KeyOf` gives
their idempotency keys. `pc[r]` is the position of the handler of call `r`;
`cmd`, `link`, `expired` are the columns of the key's row in `commands`; `own`
and `ownPid` the optimistic row in `messages`; `echo[r]` the row ingested from
the worker for the same provider message; `updates` and `announced` the outbox
entries. `wire` and `answer` follow the command to the worker and back, and
`attempt` is what the provider did. `CompleteSend` is two steps, because an
ingest can commit between its DELETE and its UPDATE; everything else that is one
transaction is one step. A connection that closes leaves a command that is still
on its way `adrift`: the worker may read and execute it, and nobody hears of it.
`QueryFails`, `FailSendFails` and `CompleteSendFails` are the error returns of
the handler, `ApiCrash` removes all handlers and leaves the tables.

**`SendContract`** is what the endpoint promises for a key: submitted once,
dispatched once, accepted by the provider at most once and only after dispatch,
settled once, and completed only if accepted.

**`EventDelivery`.** Events `1..NEvents` are produced in order. `memory`,
`spool`, `notify`, `sent` are the worker's side; `toApi` and `toWorker` the two
directions of the connection, whose ends notice its death separately
(`workerUp`, `apiUp`); `acking` is the moment between the commit and the
acknowledgement. `CacheMessage` is the history read of `listMessages`, which may
commit at any time. `SpoolAppendUnsynced` is the failure of `Append` after the
rename. `Prune` is the retention job: it deletes rows by which duplicates are
recognised, so a message that is delivered once more afterwards is stored and
announced once more. `pruned` remembers them, because the properties excuse
exactly these.

**`EventContract`** says that a message is stored only while the worker holds it
and the table does not have it, is announced by the step that stores it, and is
released by the worker only after it has been stored; a history read may store it
without announcing. Nothing but retention takes a message out of the table.

**`WorkerHub`.** One account, several workers that hold its enrolment token. A
slot of `conn` is one call of `ServeWorker`, from hello to the last line of
`unregister`; `registered` is the account's entry of `Hub.workers`. `Leave` and
`SetOffline` are separate because `unregister` writes the status after it has
released the lock. `reports` are the account.status events in a worker's spool.
The account starts as `CreateAccount` writes it, unlinked. `DeleteAccount` is the
deletion whose reply the handler sees, and `Disconnect` follows; after
`DeleteUnconfirmed`, where the commit succeeds and its reply is lost, the handler
answers 500 and nothing closes the connection.

**`Realtime`.** The ids of the outbox, the batch `drainOutbox` works on, and for
each client the queue, the `active` flag and the `done` channel. `due` and
`received` are history variables: what was published for the client and what it
was sent.

**`AuthService`.** `Verify` and `Refresh` read a row FOR UPDATE and commit
later; `loginLock` and `tokenLock` are the row locks, so two requests interleave
exactly as the database allows.

**`WorkerContract`** is what the API may expect of a worker for a command with
an effect at the provider (a send, a link step): the provider hears of it at most
once and never after the answer, there is at most one answer, `ok` means accepted,
and `unknown` is answered only when the worker has lost sight of the effect.
`failed` for something that may have happened is answered in two cases: the worker
has lost sight of it (`blind`), or the provider has accepted and the worker was told
so, and a later step of the same command failed (`partial`, `FallShort`). Both
workers are shown to implement it, the Telegram worker with `partial` empty, and it
is what `SendPipeline` takes for granted about the other end of its wire.

**`SignalWorker`.** The channels of the Go code are sequences bounded by their
capacities. `pc[c]` is the position of the handler goroutine of command `c`;
while it is inside `Client.Call` this is the method, and `req[c]` is the entry of
`pending` or the response that `readLoop` has put into its channel. `current`
holds the unanswered commands of the session that is running: for all others
`sessionCtx` is done, and their handlers go on until they notice. The start of a
handler and its first `Call` are one step, since it reads nothing in between that
another goroutine could tell apart; every later `Call` is a step of its own.
`rpc` is `open`, `closed`, or `deaf`: after a line that it cannot decode
`readLoop` returns without closing the connection, so requests still reach
signal-cli. `effect` is what signal-cli did. `blind` and `undetected` are set by
the cause of a failure and not by its outcome: `LoseSight` when the call that has
the effect fails because the connection is gone or the response cannot be decoded,
`MissAccount` when `listAccounts` fails or finds nothing after `finishLink` has
succeeded, which the worker reports as `signal_link_failed` although the device is
linked. `AnswerBusy` is the send on `results` by the
loop that empties it, `BootPublish` the status that `main` publishes before
`collectEvents` runs. A send on the closed `events` channel is a panic.

**`TelegramWorker`.** Node runs one callback at a time, and between two callbacks
the continuations of the promises that were resolved. `Quiet` is the guard for
that: timers, the exit handler and socket callbacks wait until no continuation is
due, while `ReadLine` does not, because `handleOutput` takes all lines of one chunk
in one callback. That is how the outcome of a send can be read before
`sendMessage` has looked for it. `lines` is what TDLib has written and nobody has
read. `pc[c]` names what the loop waits for on behalf of command `c`: the response
(`request`), its continuation (`resolved`), the outcome of a queued message
(`sendWaiter`), an authorization state (`authWaiter`), or nothing any more
(`reply`). The loop runs one command at a time, and `inbox` is the `MessageQueue`
in front of it. `chain` is `updateChain`, `lookup` the request that the update at
its head needs.

In both worker modules and in `EventDelivery`, `load` is chosen in the initial state
and fixes which commands, how many messages or events, and which messages past
retention one behaviour has, so that one run covers several mixes without
multiplying them.

**`...Proofs`.** Each of the seven component modules has a module of the same
name with this suffix that proves theorems about it. **`Ordering`** holds the
lemmas they share: a finite numbered set is enumerated by the ranks of its
elements (the batch of `drainOutbox`, the files of the spool), and numbered
messages that pass through a row of queues stay in order. The `MC...` modules give
the constants their values.

In every module an operator whose name has a suffix and whose comment begins
with "Mutation" is a plausible defect of the definition it precedes. It is used
by no specification; it stands beside each property as evidence that the
property would notice that defect.

## Runs

| Run | Instance | States | Shows |
|---|---|---|---|
| `send` | 3 calls, 1 key, Signal | 262,966 | one send per key, agreement of command, message and outbox, one row per message, refinement of `SendContract`, settlement |
| `events` | 2 workloads over 2 messages and 2 status events, 2 failures | 236,000 | nothing lost, acknowledged only when stored, announced in order and again only after pruning, refinement of `EventContract`, spool drained |
| `worker_hub` | 2 workers, 2 connections, 1 failure, 1 restart | 106,412 | one active connection, one keyholder, no dropped writes, truthful `live`, reconnection, deletion closes the registered connection |
| `realtime` | 2 outbox entries, 1 client, queue of 1, 2 failures | 208,582 | published before marked, repeated only after failures, no unnoticed gap, everything published |
| `signal_worker` | 4 workloads over 5 commands and 4 notifications, 2 slots, channels of 1 | 238,902 | refinement of `WorkerContract`, messages reach the spool in order and without a gap, no handler left behind, channels and slots within their limits |
| `telegram_worker` | 3 workloads over 2 commands and 3 messages, 1 kept outcome | 270,857 | refinement of `WorkerContract`, messages published in order and none lost silently, the loop always comes free |
| `auth` | 1 login, 2 requests, 3 tokens | 14,601 | one session and at most five judged codes per login, one valid token per session |

`TypeOK` of `TelegramWorker` states the types, the limit of `completedSends` and
that one command runs at a time. It is not among the invariants of
`telegram_worker`; it is proved, by `TypeCorrect` of `TelegramWorkerProofs`.

Five more runs each check one statement of the documents that the code does not
keep; TLC finds the counterexample.

* `send_unknown`: PLAN.md section 13 says that a send whose connection dies
  before the answer is marked `unknown`. `Request` returns `ErrWorkerOffline`
  and `FailSend` stores `failed`.
* `events_poison`: the protocol schema allows the account state `offline`, and
  the Telegram worker publishes it. `SetWorkerIdentity` refuses it, the hub
  closes the connection without an acknowledgement, and the event comes first
  on every reconnect.
* `events_history`: PLAN.md says that an event is acknowledged only after its
  outbox entry has been committed. If `listMessages` stored the message first,
  there is no outbox entry.
* `worker_delete`: PLAN.md says that deletion revokes the workers immediately. A
  connection between authentication and registration survives it.
* `worker_status`: PLAN.md says that reachability is visible. After a reconnect
  the account stays `offline` although its linked worker is connected.

### Bounds

Three calls of one key are one winner, one loser that took over a pending
command, and one retry after either has finished; calls with different keys share
only the connection. For events, two messages are needed for order and two
failures for a failure during the recovery from another; the status events are
there so that one is accepted and one is refused. In one of the two workloads all
four events come and nothing ages; in the other the first message is past retention
and may be pruned at any time, also twice, and the refused status does not come. Two
connections are the least
with which an old and a new one overlap. A queue of one overflows with two
events, and two outbox ids suffice for a commit out of order. Three refresh
tokens allow one rotation to race another and the successor to be refreshed.

The real capacities of the Signal worker (4 slots, 16 results, 64 notifications,
1024 events) are constants. With two slots and a queue of one result, four
commands fill everything and block the loop; with channels of one, two
notifications overflow the first and three keep every stage of the stream busy at
once. Non-text notifications are among them (number 2), so that a gap in the
numbers is not a gap in the messages. Sessions, losses of the connection to the
API and `Connect` are not counted, a behaviour may have any number. Two Telegram
commands are enough for a send that timed out and whose outcome is still kept
when the next one looks for its own; a store of one then drops an outcome.
`MaxLines` bounds how far TDLib is ahead of the reader: with two lines a response
and its outcome, or a response and an authorization update, are in one chunk.

Failures, restarts, toggles and status events are counted and bounded by the
constants `Max...`; the counters appear in no other guard.

### Fairness

* `send`: each handler keeps running. Go's scheduler and the time limits (30
  seconds for `Request`, 5 seconds for each of the two final transactions)
  justify weak fairness of the handler as a whole. Nothing is assumed of the
  worker or the provider, so settlement does not depend on them.
* `events`: the collecting goroutine, the session loop and the hub's loop run,
  and `Client.Run` reconnects for ever. Failures are bounded, so liveness means
  progress once they stop.
* `worker_hub`: handlers finish, the read deadline fires, workers keep dialling
  and a crashed API is started again by its container's restart policy.
* `signal_worker`: `collectEvents`, the writing of results, and the handlers
  taken together run. Joint fairness is enough because a command has finitely
  many steps. Nothing is assumed of signal-cli or of the API.
  `CommandIsAnswered` names what the code leaves open: a call that signal-cli
  does not answer, because no `Call` has a time limit; the end of the process;
  and the loop that has blocked itself on `results`.
* `telegram_worker`: the event loop reads TDLib's output, the session loop takes
  what is queued, and timers, continuations and replies run. All waits have a
  time limit, so `TakenIsAnswered` needs no exception.
* `realtime`: the outbox ticker runs and `Serve` keeps selecting.

`CHECK_DEADLOCK FALSE` is set where the bounded instance simply ends: all events
delivered, all failures used up.

## Proofs

Every invariant and every refinement that a passing run checks is also a theorem,
for every value of the constants: any number of calls, workers, connections,
events, commands and failures, and any capacity of a queue. The only assumptions
are the ones named `...Assumption` in the component modules. They say that
constants are numbers or functions of the right kind, that limits are positive
where a limit of zero makes no sense, and that a model value for "none" is not one
of the things it stands for. One is not about types: `MessagesAssumption` of
`EventDelivery` says that no message is an account state, since an event is either
a `message.new` or an `account.status`. The bounds `Max...` are arbitrary natural
numbers, so that the failures a theorem allows are as many as one likes.

All proofs have the same shape. `IndInv` is a conjunction of named parts; `Init`
implies it (in `IndInvHolds`), every step preserves it (`IndStep`, or one lemma per
part), and the properties follow from it. Each `IndInv` has also been
model-checked on the instance of its component's run. For a refinement, `ContractStep` shows that
under `IndInv` every step is a step of the contract or leaves its variables alone.

### `SendPipelineProofs`

From `KeyOfAssumption`, `PlatformAssumption` and `NoMessageAssumption`:
`TypeCorrect` (`TypeOK`), `AtMostOnce` (`AtMostOneSend`), `RowsAgree`
(`CommandMatchesMessage`), `OneRow` (`OneRowPerMessage`), `OutboxAgrees`
(`OutboxMatchesRow`), `OwnerExists` (`DispatchedHasOwner`), `NoLateEcho` (the action
property `NoEchoAfterCompletion`), and `PipelineImplementsContract`: `Spec` refines
`SendContract` under the mapping of `stage` to the command's status and of
`delivered` to the keys of accepted attempts.

None of these is inductive alone. `AtMostOneSend` speaks of the wire, while the
reason for it lies earlier: a call that has won the compare-and-set and has not
written yet must already exclude the others. `IndInv` therefore adds
`OneWinner` (at most one call per key is past the compare-and-set, and the
command of such a call is dispatched as long as the call runs), `CallInv` (how
program counter, wire, answer and provider of one call fit together, from which
"ok implies accepted" follows), `LinkInv` (a command that is not settled has its
message, so that `Prune` cannot take it away under a running handler) and
`RowInv` (a provider id belongs to the key whose call produced it). With them
the unconditional UPDATEs of `FailSend` and `CompleteSend` are seen to overwrite
a dispatched command only, which gives the agreement of rows and outbox and the
single settlement of the contract. `IndStep` has one step per action.

### `EventDeliveryProofs`

From `NEventsAssumption`, `IncomingAssumption`, `MessagesAssumption`,
`ContentAssumption`, `LoadAssumption` and `MaxFailuresAssumption`: `TypeCorrect`,
`NothingLost` (`NoEventLost`), `AckAfterCommit` (`AcknowledgedIsStored`), `OneAnnouncement`
(`AnnouncedOnce`), `OrderedAnnouncements` (`AnnouncedInOrder`) and
`DeliveryKeepsContract` (refinement of `EventContract`).

The order of announcements is the hard one, because the numbers of spool files are
used again once the spool is empty, a failed sync leaves an event in memory and on
disk, and every reconnect sends the spool from its start. Call an event settled if
it was processed or died with the worker's memory. `SpoolOrder` says that whatever
precedes the event of a file is settled or in a file with a smaller number,
`WireOrder` says the same of what is under way to the hub, and `AnnounceOrder`
that when an event was announced, everything before it was settled. `DiskInv` and
`WireInv` tie memory, spool, session and connection together; `NextSequenceAbove`
(the next number is above all that are used) and `PendingSorted` (the spool is read
in the order of its numbers) rest on the ranks of `Ordering`.

`Prune` takes away what used to tell that an event under way has been processed
before, so the contract's "stored only while the worker holds it" needs a reason
that does not look at the table. `KeptInv` is that reason: whatever is under way to
the hub, in the hub or on its way back is in the spool (`WireKept`), and it is in one
of these places only and once (`WireOnce`), so that handling an acknowledgement never
removes the file of an event that is still to be processed.

### `WorkerHubProofs`

From `NoWorkerAssumption`, `NoConnAssumption` and `BoundsAssumption`:
`TypeCorrect`, `OneActive` (`OneActiveWorker`), `SingleUse` (`OneKeyholder`),
`CurrentGeneration` (`RegisteredIsCurrent`) and `LiveIsConnected`
(`LiveMeansConnected`).

`IndInv` adds that a connection which has read its hello has an owner
(`OwnerInv`), that the register names a connection which is being served
(`RegisterInv`), that before the token is redeemed nobody is admitted and nobody
has a credential (`EnrolmentInv`), and that every admitted connection has the
account's generation (`GenerationInv`), which is what keeps `SetWorkerStatus` from
dropping the writes of the registered connection.

### `RealtimeProofs`

From `LimitsAssumption` and `BoundsAssumption`: `TypeCorrect`, `MarkedWasPublished`
(`DeliveredIsPublished`), `RepeatsArePaidFor` (`PublishedAgainAfterFailure`) and
`NoGap` (`NoSilentGap`).

`InsertInv`, `BatchInv` and `TimesInv` follow an entry from the sequence through the
batch to its mark: a batch holds pending entries, each once, and every publication
of an entry but the last has been paid for with a failure. `QuietInv` says that a
connection outside the hub's map has no history. `FirstIdsOrdered` shows that the
query's ORDER BY and LIMIT, which the model states with a CHOOSE, give the entries
with the smallest ids in order.

### `AuthServiceProofs`

From `NoneAssumption` and `MaxTokensAssumption`: `TypeCorrect`, `OneSession`
(`OneSessionPerLogin`), `BoundedGuesses` (`GuessesAreBounded`) and `OneSuccessor`
(`OneValidToken`).

The argument is the one of row locks: a transaction that has read a row FOR UPDATE
holds its lock (`LockInv`), so what it has read is still true when it commits
(`ReadInv`). `CountInv` relates the judged codes to the attempts in the row and to
the sessions, `TokenInv` says that a token goes back to a verified login.

### `SignalWorkerProofs`

From `KindsAssumption`, `LimitAssumption`, `NotificationAssumption` and
`LoadAssumption`: `TypeCorrect` (with the capacities of all channels and the limit
of the slots), `OrderedStream` (`NotificationsInOrder`) and `SignalKeepsContract`
(refinement of `WorkerContract`).

`StreamInv` says that spool, `events`, the message `consumeNotifications` holds and
`notifications` contain successive messages, and that none is missing before one
that is there. `CommandInv` says of each command which methods its handler runs,
that a response in its channel agrees with what signal-cli did, and that its result
tells what the worker knows of the effect: a handler that looks for the account has
had `finishLink` accepted, and a failure is answered for something signal-cli did
only for a command in `blind` or `undetected`. `ResultsInv` (the queued results are of
different commands) makes the answer unique.

### `TelegramWorkerProofs`

From `TelegramAssumption`: `TypeCorrect`, `OrderedUpdates` (`UpdatesInOrder`) and
`TelegramKeepsContract` (refinement of `WorkerContract`).

`UpdateInv` says that published, waiting and unread messages follow each other, and
that a message is given up only when all before it have had their turn. `LoopInv`
and `InboxInv` say that the loop runs one command at a time and takes each once. The
refinement rests on `CommandInv`: every line TDLib has written, read or not, and
every outcome in `completedSends` agrees with what TDLib decided (`LinesInv`,
`CompletedInv`), and TDLib never takes back a decision (`Progress`). That is why an
outcome that was read before its waiter registered may be trusted, and why a stale
one, kept after its command has timed out, does no harm to another command.

### Model-checked only

Liveness: `DispatchedIsSettled`, `SpooledIsProcessed`, `KeyholderReconnects`,
`DeletedIsClosed`, `CommittedIsPublished`, `OverflowIsClosed`, `CommandIsAnswered`
and `TakenIsAnswered` need fairness and ENABLED, which the prover does not handle.
The five counterexamples are facts about particular behaviours and stay with TLC.

## Not modelled

* HTTP routing, input checks and error wording; the generated API contract and
  clients; formatting of ids, titles and times.
* `UpsertConversations` and the listings: idempotent upserts and reads.
* Linking on the API's side, which passes two commands through. The workers'
  steps are modelled, the wording and the link URI are not.
* Starting and stopping signal-cli (paths, flags, signals), the parameters TDLib
  negotiates in `initialize`, and the orderly `close` of TDLib.
* `flush`, `sentEvents` and the spool files of the Telegram worker. The spool is
  the algorithm of the Go spool, which `EventDelivery` models; `flush` differs in
  that it may run across two connections.
* Commands of an unknown type: both workers answer with an error and do nothing.
* The several requests of a Telegram listing are one request.
* The in-memory account store, the fake worker, deployment files.
* Migrations. The schema's keys and foreign-key actions are in the guards and
  effects of the actions that depend on them.
* The choice Prune makes by age and rank: it may delete any row that is not
  pending (`SendPipeline`) or whose message is past retention (`EventDelivery`).

## Plan

1. Done: the seven component modules, the three contracts, and proofs of every
   invariant, of the action property and of all four refinements.
2. Model next: `flush` of the Telegram worker across two connections, and `Prune`
   by age and rank against a reference definition.
3. Prove next: the safety half of the liveness arguments (what a state in which
   nothing can move looks like), for instance that an event which is neither stored
   nor lost is always in the spool or in memory of a worker that can still send it;
   action properties of the contracts, such as that a settled command stays settled.
