------------------------- MODULE SignalWorkerProofs -------------------------
(***************************************************************************)
(* Proofs about SignalWorker for every set of commands, every workload and *)
(* every capacity of the channels.                                         *)
(***************************************************************************)
EXTENDS SignalWorker, Ordering

\* The messages in a queue, and their order.
Texts(s) == Among(s, Textual)

Sorted(s) == Ordered(s, Textual)

HeldTexts == {held} \cap Textual

Present == Texts(spooled) \cup Texts(events) \cup HeldTexts \cup Texts(notifications)

\* The stages of the stream, from the spool back to readLoop, hold successive
\* messages, each stage in order.
StageInv ==
    /\ Sorted(spooled) /\ Sorted(events) /\ Sorted(notifications)
    /\ Precedes(Texts(spooled), Texts(events) \cup HeldTexts \cup Texts(notifications))
    /\ Precedes(Texts(events), HeldTexts \cup Texts(notifications))
    /\ Precedes(HeldTexts, Texts(notifications))

\* What consumeNotifications passes on is a message.
PassedInv ==
    /\ held # 0 => held \in Textual
    /\ \A i \in 1..Len(events) : events[i] # 0 => events[i] \in Textual
    /\ \A i \in 1..Len(spooled) : spooled[i] \in Textual

\* No message is missing before one that is there, and none at all while the
\* connection stands.
GapInv ==
    /\ \A m \in Present : m <= emitted
    /\ \A n \in Present, m \in Textual : m < n => m \in Present
    /\ rpc = "open" => \A m \in Textual : m <= emitted => m \in Present

StreamInv == StageInv /\ PassedInv /\ GapInv

\* The results that wait to be written are of different commands.
ResultsInv ==
    /\ \A i \in 1..Len(results) : pc[results[i]] = "queued"
    /\ \A i, j \in 1..Len(results) : i # j => results[i] # results[j]

\* The kinds of commands with an effect at the provider.
EffectKinds == {"send", "link.finish"}

\* A command that has not come in has left no trace.
IdleOK(c) ==
    pc[c] = "idle" => effect[c] = "none" /\ ~ok[c] /\ req[c] = "none"
                      /\ c \notin blind \cup undetected

\* A handler runs the methods of its command.
KindOK(c) ==
    /\ pc[c] = "send" => kind[c] = "send"
    /\ pc[c] \in {"finishLink", "listAccounts", "publish"} => kind[c] = "link.finish"
    /\ pc[c] \in {"startLink", "listGroups", "listContacts"} => kind[c] \notin EffectKinds

\* The response a handler has tells what its effect was.
ResponseOK(c) ==
    /\ pc[c] \in {"send", "finishLink"} =>
          /\ req[c] = "open" => effect[c] = "open"
          /\ req[c] \in {"result", "unreadable"} => effect[c] = "accepted"
          /\ req[c] = "error" => effect[c] = "refused"
    /\ pc[c] \in {"listAccounts", "publish"} => effect[c] = "accepted"

\* The status of a result is what the worker knows of the effect.
ResultOK(c) ==
    kind[c] \in EffectKinds /\ pc[c] \in {"reply", "queued", "stuck"} =>
        /\ ok[c] => effect[c] = "accepted"
        /\ ~ok[c] => effect[c] \in {"none", "refused"} \/ c \in blind \cup undetected

CommandOK(c) == IdleOK(c) /\ KindOK(c) /\ ResponseOK(c) /\ ResultOK(c)

CommandInv == \A c \in Commands : CommandOK(c)

SlotsInv == IsFiniteSet(Busy)

IndInv ==
    /\ TypeOK
    /\ SlotsInv
    /\ StreamInv
    /\ ResultsInv
    /\ CommandInv

-----------------------------------------------------------------------------
(* Queues of messages                                                      *)

\* Messages have positive numbers; 0 stands for a status.
LEMMA TextualNat == Textual \subseteq Nat /\ 0 \notin Textual
    BY NotificationAssumption DEF Notifications

\* The queues of the stream hold numbers.
LEMMA StreamTypes ==
    ASSUME TypeOK
    PROVE  /\ spooled \in Seq(Nat) /\ events \in Seq(Nat) /\ notifications \in Seq(Nat)
           /\ held \in Nat /\ emitted \in Nat
    BY NotificationAssumption DEF TypeOK, Notifications

\* The stages together are in order and without a gap.
LEMMA StreamInOrder ==
    ASSUME TypeOK, StreamInv
    PROVE  NotificationsInOrder
<1> DEFINE h == IF held = 0 THEN <<>> ELSE <<held>>
           a == spooled \o events
           b == a \o h
           c == b \o notifications
<1>1. /\ spooled \in Seq(Nat) /\ events \in Seq(Nat) /\ notifications \in Seq(Nat)
      /\ held \in Nat /\ emitted \in Nat
    BY StreamTypes
<1>2. h \in Seq(Nat) /\ Texts(h) = HeldTexts /\ Sorted(h)
  <2>1. CASE held = 0
    BY <2>1, EmptyQueue, TextualNat DEF HeldTexts, Texts, Sorted
  <2>2. CASE held # 0
    <3>1. h = <<held>> /\ Len(h) = 1 /\ h[1] = held /\ h \in Seq(Nat)
      BY <1>1, <2>2
    <3> HIDE DEF h
    <3>2. \A i \in 1..1 : i = 1
      OBVIOUS
    <3>. QED BY <3>1, <3>2 DEF Texts, Sorted, HeldTexts, Among, Ordered
  <2>. QED BY <2>1, <2>2
<1> HIDE DEF h
<1>3. a \in Seq(Nat) /\ Texts(a) = Texts(spooled) \cup Texts(events) /\ Sorted(a)
    BY <1>1, QueueJoin DEF StreamInv, StageInv, Precedes, Texts, Sorted
<1> HIDE DEF a
<1>4. b \in Seq(Nat) /\ Texts(b) = Texts(a) \cup HeldTexts /\ Sorted(b)
    BY <1>1, <1>2, <1>3, QueueJoin DEF StreamInv, StageInv, Precedes, Texts, Sorted
<1> HIDE DEF b
<1>5. c \in Seq(Nat) /\ Texts(c) = Texts(b) \cup Texts(notifications) /\ Sorted(c)
    BY <1>1, <1>3, <1>4, QueueJoin DEF StreamInv, StageInv, Precedes, Texts, Sorted
<1>6. InProcess = c
    BY DEF InProcess, a, b, h
<1> HIDE DEF c
<1>7. Texts(c) = Present
    BY <1>3, <1>4, <1>5 DEF Present
<1>8. \A m \in Textual : m \in Present <=> \E i \in 1..Len(c) : c[i] = m
    BY <1>7 DEF Texts, Among
<1>9. \A j \in 1..Len(c) : IsText(c[j]) => c[j] \in Present
    BY <1>8 DEF IsText
<1>. QED BY <1>5, <1>6, <1>8, <1>9 DEF NotificationsInOrder, StreamInv, GapInv, Sorted, Ordered,
                                       IsText

-----------------------------------------------------------------------------
(* The stream                                                              *)

\* A step that leaves the queues alone and does not connect again.
LEMMA StreamStutters ==
    ASSUME StreamInv, UNCHANGED streamVars, rpc' = "open" => rpc = "open"
    PROVE  StreamInv'
    BY DEF StreamInv, StageInv, PassedInv, GapInv, Present, HeldTexts, Texts, Sorted,
           streamVars

\* A status event on the events channel.
LEMMA PublishKeepsStream ==
    ASSUME TypeOK, StreamInv, Publish, UNCHANGED rpc
    PROVE  StreamInv'
<1>1. CASE eventsClosed
  <2>1. UNCHANGED streamVars
    BY <1>1 DEF Publish, streamVars
  <2>. QED BY <2>1, StreamStutters
<1>2. CASE ~eventsClosed
  <2>1. /\ events' = Append(events, 0) /\ events \in Seq(Nat)
        /\ UNCHANGED <<spooled, held, notifications, emitted>>
    BY <1>2, StreamTypes DEF Publish
  <2>2. Texts(events)' = Texts(events) /\ Sorted(events)'
    <3>1. Texts(Append(events, 0)) = Texts(events) \cup ({0} \cap Textual)
      BY <2>1, QueueAppend DEF Texts, Sorted
    <3>2. {0} \cap Textual = {}
      BY TextualNat
    <3>3. Sorted(Append(events, 0))
      BY <2>1, <3>2, QueueAppend DEF StreamInv, StageInv, Precedes, Texts, Sorted
    <3>. QED BY <2>1, <3>1, <3>2, <3>3 DEF Texts, Sorted
  <2>3. /\ Texts(spooled)' = Texts(spooled) /\ Texts(notifications)' = Texts(notifications)
        /\ HeldTexts' = HeldTexts
        /\ Sorted(spooled)' = Sorted(spooled) /\ Sorted(notifications)' = Sorted(notifications)
    BY <2>1 DEF Texts, Sorted, HeldTexts
  <2>4. StageInv'
    BY <2>2, <2>3 DEF StreamInv, StageInv, Precedes
  <2>5. PassedInv'
    BY <2>1 DEF StreamInv, PassedInv
  <2>6. GapInv'
    BY <2>1, <2>2, <2>3 DEF StreamInv, GapInv, Present
  <2>. QED BY <2>4, <2>5, <2>6 DEF StreamInv
<1>. QED BY <1>1, <1>2

\* The steps of readLoop, consumeNotifications and collectEvents.
LEMMA StreamSteps ==
    ASSUME TypeOK, StreamInv,
           Notify \/ TakeNotification \/ PutEvent \/ SpoolEvent
    PROVE  StreamInv'
<1> DEFINE S == Texts(spooled)
           E == Texts(events)
           H == HeldTexts
           N == Texts(notifications)
<1>1. /\ spooled \in Seq(Nat) /\ events \in Seq(Nat) /\ notifications \in Seq(Nat)
      /\ held \in Nat /\ emitted \in Nat
    BY StreamTypes
<1>2. /\ Precedes(S, E \cup H \cup N) /\ Precedes(E, H \cup N) /\ Precedes(H, N)
      /\ Sorted(spooled) /\ Sorted(events) /\ Sorted(notifications)
    BY DEF StreamInv, StageInv
<1>3. S \subseteq Textual /\ E \subseteq Textual /\ H \subseteq Textual /\ N \subseteq Textual
    BY DEF Texts, HeldTexts, Among
<1>4. Present \subseteq Nat
    BY <1>3, TextualNat DEF Present
<1>5. CASE Notify
  <2> DEFINE m == emitted + 1
  <2>0. m \in Nat /\ \A x \in Nat : (x <= m <=> x <= emitted \/ x = m) /\ (x <= emitted => x < m)
    BY <1>1
  <2>1. /\ UNCHANGED <<spooled, events, held>> /\ rpc = "open" /\ emitted' = m
    BY <1>5 DEF Notify
  <2>2. S' = S /\ E' = E /\ H' = H /\ Sorted(spooled)' /\ Sorted(events)'
    BY <1>2, <2>1 DEF Texts, HeldTexts, Sorted
  <2> HIDE DEF m
  <2>3. PassedInv'
    BY <2>1 DEF StreamInv, PassedInv
  <2>4. CASE notifications' = Append(notifications, m)
    <3>1. N' = N \cup ({m} \cap Textual)
      <4>1. Texts(Append(notifications, m)) = N \cup ({m} \cap Textual)
        BY <1>1, <2>0, QueueAppend DEF Texts, Sorted
      <4>. QED BY <2>4, <4>1 DEF Texts
    <3>2. /\ Precedes(S, {m}) /\ Precedes(E, {m}) /\ Precedes(H, {m}) /\ Precedes(N, {m})
      <4>1. \A x \in S \cup E \cup H \cup N : x <= emitted /\ x \in Nat
        BY <1>3, TextualNat DEF StreamInv, GapInv, Present
      <4>. QED BY <2>0, <4>1 DEF Precedes
    <3>3. Sorted(Append(notifications, m))
      <4>1. Precedes(N, {m} \cap Textual)
        BY <3>2 DEF Precedes
      <4>. QED BY <1>1, <1>2, <2>0, <4>1, QueueAppend DEF Texts, Sorted
    <3>4. Sorted(notifications)'
      BY <2>4, <3>3 DEF Sorted
    <3>5. StageInv'
      BY <1>2, <2>2, <3>1, <3>2, <3>4 DEF StageInv, Precedes
    <3>6. Present' = Present \cup ({m} \cap Textual)
      BY <2>2, <3>1 DEF Present
    <3>7. /\ \A x \in Present : x <= emitted
          /\ \A x \in Textual : x <= emitted => x \in Present
      BY <2>1 DEF StreamInv, GapInv
    <3>8. GapInv'
      <4>1. \A x \in Present' : x <= m
        BY <1>4, <2>0, <3>6, <3>7
      <4>2. \A x \in Textual : x <= m => x \in Present'
        BY <2>0, <3>6, <3>7, TextualNat
      <4>3. \A n \in Present', x \in Textual : x < n => x <= m
        BY <1>4, <2>0, <3>6, <4>1, TextualNat
      <4>. QED BY <2>1, <4>1, <4>2, <4>3 DEF GapInv
    <3>. QED BY <2>3, <3>5, <3>8 DEF StreamInv
  <2>5. CASE notifications' = notifications /\ rpc' = "closed"
    <3>1. N' = N /\ Sorted(notifications)'
      BY <1>2, <2>5 DEF Texts, Sorted
    <3>2. StageInv'
      BY <1>2, <2>2, <3>1 DEF StageInv
    <3>3. Present' = Present
      BY <2>2, <3>1 DEF Present
    <3>4. GapInv'
      BY <1>4, <2>0, <2>1, <2>5, <3>3 DEF StreamInv, GapInv
    <3>. QED BY <2>3, <3>2, <3>4 DEF StreamInv
  <2>. QED BY <1>5, <2>4, <2>5 DEF Notify, m
<1>6. CASE TakeNotification
  <2> DEFINE m == Head(notifications)
  <2>1. /\ held = 0 /\ notifications # <<>>
        /\ held' = IF m \in Textual THEN m ELSE 0
        /\ notifications' = Tail(notifications)
        /\ UNCHANGED <<spooled, events, emitted, rpc>>
    BY <1>6 DEF TakeNotification
  <2>2. /\ m \in Nat
        /\ N = ({m} \cap Textual) \cup Texts(Tail(notifications))
        /\ Sorted(Tail(notifications))
        /\ Precedes({m} \cap Textual, Texts(Tail(notifications)))
    BY <1>1, <1>2, <2>1, QueueTail DEF Texts, Sorted
  <2>3. S' = S /\ E' = E /\ Sorted(spooled)' /\ Sorted(events)'
    BY <1>2, <2>1 DEF Texts, Sorted
  <2>4. N' = Texts(Tail(notifications)) /\ Sorted(notifications)'
    BY <2>1, <2>2 DEF Texts, Sorted
  <2>5. H = {} /\ H' = {m} \cap Textual
    BY <2>1, TextualNat DEF HeldTexts
  <2> HIDE DEF m
  <2>6. StageInv'
    BY <1>2, <2>2, <2>3, <2>4, <2>5 DEF StageInv, Precedes
  <2>7. PassedInv'
    BY <2>1 DEF StreamInv, PassedInv
  <2>8. Present' = Present
    BY <2>2, <2>3, <2>4, <2>5 DEF Present
  <2>9. GapInv'
    BY <2>1, <2>8 DEF StreamInv, GapInv
  <2>. QED BY <2>6, <2>7, <2>9 DEF StreamInv
<1>7. CASE PutEvent
  <2>1. /\ held # 0 /\ held' = 0 /\ events' = Append(events, held)
        /\ UNCHANGED <<spooled, notifications, emitted, rpc>>
    BY <1>7 DEF PutEvent
  <2>2. Texts(Append(events, held)) = E \cup H /\ Sorted(Append(events, held))
    <3>1. Precedes(E, {held} \cap Textual)
      BY <1>2 DEF Precedes, HeldTexts
    <3>. QED BY <1>1, <1>2, <3>1, QueueAppend DEF HeldTexts, Texts, Sorted
  <2>3. S' = S /\ N' = N /\ Sorted(spooled)' /\ Sorted(notifications)'
    BY <1>2, <2>1 DEF Texts, Sorted
  <2>4. E' = E \cup H /\ Sorted(events)'
    BY <2>1, <2>2 DEF Texts, Sorted
  <2>5. H' = {}
    BY <2>1, TextualNat DEF HeldTexts
  <2>6. StageInv'
    BY <1>2, <2>3, <2>4, <2>5 DEF StageInv, Precedes
  <2>7. PassedInv'
    BY <1>1, <2>1 DEF StreamInv, PassedInv
  <2>8. Present' = Present
    BY <2>3, <2>4, <2>5 DEF Present
  <2>9. GapInv'
    BY <2>1, <2>8 DEF StreamInv, GapInv
  <2>. QED BY <2>6, <2>7, <2>9 DEF StreamInv
<1>8. CASE SpoolEvent
  <2> DEFINE m == Head(events)
  <2>1. /\ events # <<>> /\ events' = Tail(events)
        /\ spooled' = IF m = 0 THEN spooled ELSE Append(spooled, m)
        /\ UNCHANGED <<held, notifications, emitted, rpc>>
    BY <1>8 DEF SpoolEvent
  <2>2. /\ m \in Nat
        /\ E = ({m} \cap Textual) \cup Texts(Tail(events))
        /\ Sorted(Tail(events))
        /\ Precedes({m} \cap Textual, Texts(Tail(events)))
    BY <1>1, <1>2, <2>1, QueueTail DEF Texts, Sorted
  <2>3. H' = H /\ N' = N /\ Sorted(notifications)'
    BY <1>2, <2>1 DEF Texts, HeldTexts, Sorted
  <2>4. E' = Texts(Tail(events)) /\ Sorted(events)'
    BY <2>1, <2>2 DEF Texts, Sorted
  <2>5. m = events[1] /\ 1 \in 1..Len(events)
    BY <1>1, <2>1
  <2>6. m # 0 => m \in Textual
    BY <2>5 DEF StreamInv, PassedInv
  <2> HIDE DEF m
  <2>7. S' = S \cup ({m} \cap Textual) /\ Sorted(spooled)'
    <3>1. CASE m = 0
      BY <1>2, <2>1, <3>1, TextualNat DEF Texts, Sorted
    <3>2. CASE m # 0
      <4>1. Precedes(S, {m} \cap Textual)
        BY <1>2, <2>2 DEF Precedes
      <4>2. /\ Texts(Append(spooled, m)) = S \cup ({m} \cap Textual)
            /\ Sorted(Append(spooled, m))
        BY <1>1, <1>2, <2>2, <4>1, QueueAppend DEF Texts, Sorted
      <4>. QED BY <2>1, <3>2, <4>2 DEF Texts, Sorted
    <3>. QED BY <3>1, <3>2
  <2>8. StageInv'
    BY <1>2, <2>2, <2>3, <2>4, <2>7 DEF StageInv, Precedes
  <2>9. PassedInv'
    <3>1. \A i \in 1..Len(events') : events'[i] # 0 => events'[i] \in Textual
      BY <1>1, <2>1 DEF StreamInv, PassedInv
    <3>2. \A i \in 1..Len(spooled') : spooled'[i] \in Textual
      BY <1>1, <2>1, <2>2, <2>6 DEF StreamInv, PassedInv
    <3>. QED BY <2>1, <3>1, <3>2 DEF StreamInv, PassedInv
  <2>10. Present' = Present
    BY <2>2, <2>3, <2>4, <2>7 DEF Present
  <2>11. GapInv'
    BY <2>1, <2>10 DEF StreamInv, GapInv
  <2>. QED BY <2>8, <2>9, <2>11 DEF StreamInv
<1>. QED BY <1>5, <1>6, <1>7, <1>8

\* The process ends: what is spooled is a prefix of what was there.
LEMMA StopKeepsStream ==
    ASSUME StreamInv, MainStops
    PROVE  StreamInv'
<1>1. /\ UNCHANGED <<spooled, emitted>> /\ rpc' # "open"
      /\ events' = <<>> /\ held' = 0 /\ notifications' = <<>>
    BY DEF MainStops
<1>2. /\ Texts(spooled)' = Texts(spooled) /\ Texts(events)' = {} /\ HeldTexts' = {}
      /\ Texts(notifications)' = {}
    BY <1>1, TextualNat DEF Texts, HeldTexts, Sorted, Among, Ordered
<1>3. Present' = Texts(spooled)
    BY <1>2 DEF Present
<1>4. StageInv'
    BY <1>1, <1>2 DEF StreamInv, StageInv, Sorted, Precedes, Texts, Among, Ordered
<1>5. PassedInv'
    BY <1>1 DEF StreamInv, PassedInv
<1>6. GapInv'
  <2>1. \A n \in Texts(spooled), m \in Textual : m < n => m \in Texts(spooled)
    <3> SUFFICES ASSUME NEW n \in Texts(spooled), NEW m \in Textual, m < n,
                        m \notin Texts(spooled)
                 PROVE  FALSE
      OBVIOUS
    <3>1. m \in Texts(events) \cup HeldTexts \cup Texts(notifications)
      BY DEF StreamInv, GapInv, Present
    <3>2. n < m
      BY <3>1 DEF StreamInv, StageInv, Precedes
    <3>3. m \in Nat /\ n \in Nat
      BY TextualNat DEF Texts, Among
    <3>. QED BY <3>2, <3>3
  <2>2. \A m \in Texts(spooled) : m <= emitted
    BY DEF StreamInv, GapInv, Present
  <2>. QED BY <1>1, <1>3, <2>1, <2>2 DEF GapInv
<1>. QED BY <1>4, <1>5, <1>6 DEF StreamInv

\* Every step keeps the stream in order.
LEMMA StreamStep ==
    ASSUME TypeOK, StreamInv, [Next]_vars
    PROVE  StreamInv'
<1>1. CASE Notify \/ TakeNotification \/ PutEvent \/ SpoolEvent
    BY <1>1, StreamSteps
<1>2. CASE MainStops
    BY <1>2, StopKeepsStream
<1>3. CASE BootPublish
    BY <1>3, PublishKeepsStream DEF BootPublish
<1>4. CASE RpcFails \/ CloseEvents
  <2>1. /\ UNCHANGED <<spooled, events, held, notifications, emitted>>
        /\ rpc' = "open" => rpc = "open"
    BY <1>4 DEF RpcFails, CloseEvents, streamVars
  <2>. QED BY <2>1 DEF StreamInv, StageInv, PassedInv, GapInv, Present, HeldTexts, Texts, Sorted
<1>5. CASE BootDetect \/ Connect \/ SessionEnds \/ WriteResult \/ UNCHANGED vars
  <2>1. UNCHANGED <<streamVars, rpc>>
    BY <1>5 DEF BootDetect, Connect, SessionEnds, WriteResult, vars
  <2>. QED BY <2>1, StreamStutters
<1>6. ASSUME NEW c \in Commands,
             \/ StartSend(c) \/ StartLink(c) \/ FinishLink(c) \/ StartConversations(c)
             \/ AnswerMessages(c) \/ \E k \in Kinds : AnswerBusy(c, k)
             \/ \E reply \in {"result", "error", "unreadable"} : CliExecutes(c, reply)
      PROVE  StreamInv'
  <2>1. UNCHANGED <<streamVars, rpc>>
    BY <1>6 DEF StartSend, StartLink, FinishLink, StartConversations, AnswerMessages,
                AnswerBusy, Incoming, CliExecutes
  <2>. QED BY <2>1, StreamStutters
<1>7. ASSUME NEW c \in Commands, HandlerStep(c) PROVE StreamInv'
  <2>1. CASE PublishLive(c)
    BY <2>1, PublishKeepsStream DEF PublishLive, Handling
  <2>2. CASE ~PublishLive(c)
    <3>1. UNCHANGED <<streamVars, rpc>>
      BY <1>7, <2>2 DEF HandlerStep, CallFails, CallDone, GroupsListed, LinkStarted,
                        LinkFinished, AccountDetected, AccountMissing, Reply, Abandon,
                        Returned, Handling
    <3>. QED BY <3>1, StreamStutters
  <2>. QED BY <2>1, <2>2
<1>. QED BY <1>1, <1>2, <1>3, <1>4, <1>5, <1>6, <1>7 DEF Next

-----------------------------------------------------------------------------
(* Types                                                                   *)

\* The handlers' part of the type invariant.
HandlerTypes ==
    /\ results \in Seq(Commands) /\ Len(results) <= ResultLimit
    /\ kind \in [Commands -> Kinds \cup {"none"}]
    /\ current \in SUBSET Commands
    /\ pc \in [Commands -> PCs]
    /\ ok \in [Commands -> BOOLEAN]
    /\ req \in [Commands -> {"none", "open", "result", "error", "unreadable"}]
    /\ effect \in [Commands -> {"none", "open", "accepted", "refused"}]
    /\ blind \in SUBSET Commands
    /\ undetected \in SUBSET Commands

\* The rest, but for the slots.
OtherTypes ==
    /\ load \in Loads
    /\ proc \in {"detecting", "publishing", "running", "panicked", "stopped"}
    /\ rpc \in {"open", "deaf", "closed"}
    /\ emitted \in 0..NNotifications
    /\ notifications \in Seq(Notifications) /\ Len(notifications) <= NotificationLimit
    /\ held \in 0..NNotifications
    /\ events \in Seq(0..NNotifications) /\ Len(events) <= EventLimit
    /\ eventsClosed \in BOOLEAN
    /\ spooled \in Seq(Notifications)
    /\ account \in BOOLEAN /\ linkURI \in BOOLEAN
    /\ loop \in {"down", "select", "blocked"}

\* The two parts of the type invariant and the limit of the slots are all of it.
LEMMA TypeParts ==
    TypeOK <=> HandlerTypes /\ OtherTypes /\ Cardinality(Busy) <= HandlerLimit
    BY DEF TypeOK, HandlerTypes, OtherTypes

\* A step keeps the types of channels and connections.
LEMMA OtherTypesStep ==
    ASSUME TypeOK, [Next]_vars
    PROVE  OtherTypes'
<1> USE DEF OtherTypes
<1>a. OtherTypes
    BY TypeParts
<1>b. /\ NNotifications \in Nat /\ 0 \in 0..NNotifications
      /\ NotificationLimit \in Nat /\ EventLimit \in Nat
    BY NotificationAssumption, LimitAssumption
<1>c. /\ <<>> \in Seq(Notifications) /\ Len(<<>>) = 0
      /\ <<>> \in Seq(0..NNotifications)
    OBVIOUS
<1>1. CASE BootDetect
    BY <1>1, <1>a DEF BootDetect, streamVars, sessionVars
<1>p. ASSUME Publish
      PROVE  /\ UNCHANGED <<load, emitted, notifications, held, eventsClosed, spooled>>
             /\ events' \in Seq(0..NNotifications) /\ Len(events') <= EventLimit
  <2>1. CASE eventsClosed
    BY <1>p, <1>a, <2>1 DEF Publish
  <2>2. CASE ~eventsClosed
    <3>1. events' = Append(events, 0) /\ Len(events) < EventLimit
      BY <1>p, <2>2 DEF Publish, CanPublish
    <3>2. Append(events, 0) \in Seq(0..NNotifications) /\ Len(Append(events, 0)) <= EventLimit
      BY <1>a, <1>b, <3>1, Room
    <3>. QED BY <1>p, <3>1, <3>2 DEF Publish
  <2>. QED BY <2>1, <2>2
<1>2. CASE BootPublish
    BY <1>2, <1>a, <1>p DEF BootPublish, linkVars, sessionVars
<1>3. CASE MainStops
    BY <1>3, <1>a, <1>b, <1>c DEF MainStops, linkVars
<1>4. CASE Notify
  <2>1. /\ emitted' = emitted + 1 /\ emitted < load.notifications
        /\ UNCHANGED <<load, proc, held, events, eventsClosed, spooled, account, linkURI, loop>>
        /\ rpc' \in {rpc, "closed"}
    BY <1>4 DEF Notify, linkVars, sessionVars
  <2>2. load.notifications \in 0..NNotifications
    BY <1>a, LoadAssumption
  <2>3. emitted + 1 \in Notifications /\ emitted' \in 0..NNotifications
    BY <1>a, <1>b, <2>1, <2>2 DEF Notifications
  <2>4. notifications' \in Seq(Notifications) /\ Len(notifications') <= NotificationLimit
    <3> DEFINE m == emitted + 1
    <3>1. m \in Notifications
      BY <2>3
    <3>2. \/ Len(notifications) < NotificationLimit /\ notifications' = Append(notifications, m)
          \/ notifications' = notifications
      BY <1>4 DEF Notify
    <3> HIDE DEF m
    <3>. QED BY <1>a, <1>b, <3>1, <3>2, Room
  <2>. QED BY <1>a, <2>1, <2>3, <2>4
<1>5. CASE RpcFails
    BY <1>5, <1>a DEF RpcFails, streamVars, linkVars, sessionVars
<1>6. CASE TakeNotification
  <2>1. Head(notifications) \in Notifications /\ Tail(notifications) \in Seq(Notifications)
        /\ Len(Tail(notifications)) <= NotificationLimit
    BY <1>6, <1>a, <1>b DEF TakeNotification
  <2>2. held' \in 0..NNotifications
    BY <1>6, <1>b, <2>1 DEF TakeNotification, Notifications
  <2>. QED BY <1>6, <1>a, <2>1, <2>2 DEF TakeNotification, linkVars, sessionVars
<1>7. CASE PutEvent
    BY <1>7, <1>a, <1>b DEF PutEvent, linkVars, sessionVars
<1>8. CASE CloseEvents
    BY <1>8, <1>a DEF CloseEvents, linkVars, sessionVars
<1>9. CASE SpoolEvent
  <2>1. Head(events) \in 0..NNotifications /\ Tail(events) \in Seq(0..NNotifications)
        /\ Len(Tail(events)) <= EventLimit
    BY <1>9, <1>a, <1>b DEF SpoolEvent
  <2>2. Head(events) # 0 => Head(events) \in Notifications
    BY <1>b, <2>1 DEF Notifications
  <2>3. spooled' \in Seq(Notifications)
    BY <1>9, <1>a, <2>2 DEF SpoolEvent
  <2>. QED BY <1>9, <1>a, <2>1, <2>3 DEF SpoolEvent, linkVars, sessionVars
<1>10. CASE Connect \/ SessionEnds \/ WriteResult \/ UNCHANGED vars
    BY <1>10, <1>a DEF Connect, SessionEnds, WriteResult, vars, streamVars, linkVars, sessionVars
<1>11. ASSUME NEW c \in Commands,
              \/ StartSend(c) \/ StartLink(c) \/ FinishLink(c) \/ StartConversations(c)
              \/ AnswerMessages(c) \/ \E k \in Kinds : AnswerBusy(c, k)
              \/ \E reply \in {"result", "error", "unreadable"} : CliExecutes(c, reply)
       PROVE  OtherTypes'
  <2>1. /\ UNCHANGED <<proc, rpc, streamVars, linkVars>>
        /\ loop' \in {loop, "blocked"}
    BY <1>11 DEF StartSend, StartLink, FinishLink, StartConversations, AnswerMessages,
                 AnswerBusy, Incoming, TakeSlot, CliExecutes, sessionVars
  <2>. QED BY <1>a, <2>1 DEF streamVars, linkVars
<1>12. ASSUME NEW c \in Commands, HandlerStep(c) PROVE OtherTypes'
  <2>1. CASE PublishLive(c)
    BY <2>1, <1>a, <1>p DEF PublishLive, Handling, linkVars, sessionVars
  <2>2. CASE ~PublishLive(c)
    <3>1. /\ UNCHANGED <<proc, rpc, streamVars, loop>>
          /\ account' \in {account, TRUE, FALSE} /\ linkURI' \in {linkURI, TRUE, FALSE}
      BY <1>12, <2>2 DEF HandlerStep, CallFails, CallDone, GroupsListed, LinkStarted,
                        LinkFinished, AccountDetected, AccountMissing, Reply, Abandon,
                        Returned, Handling, linkVars, sessionVars
    <3>2. account \in BOOLEAN /\ linkURI \in BOOLEAN
      BY <1>a
    <3>3. account' \in BOOLEAN /\ linkURI' \in BOOLEAN
      BY <3>1, <3>2
    <3>4. UNCHANGED <<load, emitted, notifications, held, events, eventsClosed, spooled>>
      BY <3>1 DEF streamVars
    <3>. QED BY <1>a, <3>1, <3>3, <3>4
  <2>. QED BY <2>1, <2>2
<1>. QED BY <1>1, <1>2, <1>3, <1>4, <1>5, <1>6, <1>7, <1>8, <1>9, <1>10, <1>11, <1>12 DEF Next

\* A step keeps the types of the commands and their handlers.
LEMMA HandlerTypesStep ==
    ASSUME TypeOK, [Next]_vars
    PROVE  HandlerTypes'
<1>a. HandlerTypes /\ ResultLimit \in Nat
    BY TypeParts, LimitAssumption
<1>b. <<>> \in Seq(Commands) /\ Len(<<>>) = 0
    OBVIOUS
<1>c. /\ Methods \subseteq PCs
      /\ {"publish", "reply", "idle", "queued", "stuck", "answered", "gone"} \subseteq PCs
    BY DEF PCs, HandlerPCs
<1>1. CASE \/ BootDetect \/ BootPublish \/ Notify \/ RpcFails \/ TakeNotification
           \/ PutEvent \/ CloseEvents \/ SpoolEvent \/ Connect \/ UNCHANGED vars
  <2>1. UNCHANGED <<results, handlerVars>>
    BY <1>1 DEF BootDetect, BootPublish, Notify, RpcFails, TakeNotification, PutEvent,
                CloseEvents, SpoolEvent, Connect, vars, sessionVars
  <2>. QED BY <1>a, <2>1 DEF HandlerTypes, handlerVars
<1>2. CASE MainStops
    BY <1>2, <1>a, <1>b, <1>c DEF MainStops, HandlerTypes
<1>3. CASE SessionEnds
    BY <1>3, <1>a, <1>b, <1>c DEF SessionEnds, HandlerTypes
<1>4. CASE WriteResult
  <2>1. /\ Head(results) \in Commands /\ Tail(results) \in Seq(Commands)
        /\ Len(Tail(results)) <= ResultLimit
    BY <1>4, <1>a DEF WriteResult, HandlerTypes
  <2>. QED BY <1>4, <1>a, <1>c, <2>1 DEF WriteResult, HandlerTypes
<1>r. ASSUME NEW c \in Commands, NEW b \in BOOLEAN, Return(c, b)
      PROVE  /\ pc' \in [Commands -> PCs] /\ ok' \in [Commands -> BOOLEAN]
             /\ req' \in [Commands -> {"none", "open", "result", "error", "unreadable"}]
    BY <1>r, <1>a, <1>c DEF Return, HandlerTypes
<1>m. ASSUME NEW c \in Commands, NEW m \in Methods, Call(c, m)
      PROVE  /\ pc' \in [Commands -> PCs] /\ ok' = ok
             /\ req' \in [Commands -> {"none", "open", "result", "error", "unreadable"}]
             /\ effect' \in [Commands -> {"none", "open", "accepted", "refused"}]
    BY <1>m, <1>a, <1>c DEF Call, HandlerTypes
<1>i. ASSUME NEW c \in Commands, NEW k, Incoming(c, k)
      PROVE  /\ kind' \in [Commands -> Kinds \cup {"none"}]
             /\ current' \in SUBSET Commands
             /\ blind' \in SUBSET Commands
             /\ undetected' \in SUBSET Commands
  <2>1. k \in Kinds
    BY <1>i, KindsAssumption DEF Incoming
  <2>. QED BY <1>i, <1>a, <2>1 DEF Incoming, HandlerTypes
<1>5. ASSUME NEW c \in Commands,
             \/ StartSend(c) \/ StartLink(c) \/ FinishLink(c) \/ StartConversations(c)
             \/ AnswerMessages(c)
      PROVE  HandlerTypes'
  <2>1. PICK k : Incoming(c, k) /\ UNCHANGED results
    BY <1>5 DEF StartSend, StartLink, FinishLink, StartConversations, AnswerMessages, TakeSlot
  <2>2. \/ \E b \in BOOLEAN : Return(c, b) /\ UNCHANGED effect
        \/ \E m \in Methods : Call(c, m)
    BY <1>5 DEF StartSend, StartLink, FinishLink, StartConversations, AnswerMessages, Methods
  <2>. QED BY <1>a, <1>i, <1>r, <1>m, <2>1, <2>2 DEF HandlerTypes
<1>6. ASSUME NEW c \in Commands, NEW k \in Kinds, AnswerBusy(c, k)
      PROVE  HandlerTypes'
  <2>1. results' \in Seq(Commands) /\ Len(results') <= ResultLimit
    BY <1>6, <1>a, Room DEF AnswerBusy, HandlerTypes
  <2>2. pc' \in [Commands -> PCs] /\ UNCHANGED <<ok, req, effect>>
    BY <1>6, <1>a, <1>c DEF AnswerBusy, HandlerTypes
  <2>3. Incoming(c, k)
    BY <1>6 DEF AnswerBusy
  <2>. QED BY <1>a, <1>i, <2>1, <2>2, <2>3 DEF HandlerTypes
<1>7. ASSUME NEW c \in Commands, NEW reply \in {"result", "error", "unreadable"},
             CliExecutes(c, reply)
      PROVE  HandlerTypes'
    BY <1>7, <1>a DEF CliExecutes, HandlerTypes, sessionVars
<1>8. ASSUME NEW c \in Commands, HandlerStep(c) PROVE HandlerTypes'
  <2>1. CASE \/ CallFails(c) \/ CallDone(c) \/ LinkStarted(c) \/ AccountMissing(c)
             \/ PublishLive(c)
    <3>1. /\ \E b \in BOOLEAN : Return(c, b)
          /\ UNCHANGED <<results, kind, current, effect>>
          /\ blind' \in {blind, blind \cup {c}}
          /\ undetected' \in {undetected, undetected \cup {c}}
      BY <2>1 DEF CallFails, CallDone, LinkStarted, AccountMissing, PublishLive, Returned,
                  Handling, LoseSight, MissAccount, sessionVars
    <3>. QED BY <1>a, <1>r, <3>1 DEF HandlerTypes
  <2>2. CASE GroupsListed(c) \/ LinkFinished(c)
    <3>1. /\ \E m \in Methods : Call(c, m)
          /\ UNCHANGED <<results, kind, current, blind, undetected>>
      BY <2>2 DEF GroupsListed, LinkFinished, Returned, Handling, sessionVars, Methods
    <3>. QED BY <1>a, <1>m, <3>1 DEF HandlerTypes
  <2>3. CASE AccountDetected(c)
    BY <2>3, <1>a, <1>c DEF AccountDetected, Returned, Handling, HandlerTypes, sessionVars
  <2>4. CASE Abandon(c)
    BY <2>4, <1>a, <1>c DEF Abandon, Handling, HandlerTypes, sessionVars
  <2>5. CASE Reply(c)
    BY <2>5, <1>a, <1>c, Room DEF Reply, HandlerTypes
  <2>. QED BY <1>8, <2>1, <2>2, <2>3, <2>4, <2>5 DEF HandlerStep
<1>. QED BY <1>1, <1>2, <1>3, <1>4, <1>5, <1>6, <1>7, <1>8 DEF Next

\* No step takes a slot but the start of a handler, which finds one free.
LEMMA SlotsStep ==
    ASSUME TypeOK, SlotsInv, [Next]_vars
    PROVE  SlotsInv' /\ (Cardinality(Busy) <= HandlerLimit)'
<1>a. /\ HandlerTypes /\ IsFiniteSet(Busy) /\ Cardinality(Busy) <= HandlerLimit
      /\ HandlerLimit \in Nat /\ Cardinality(Busy) \in Nat
    BY TypeParts, LimitAssumption, FS_CardinalityType DEF SlotsInv
<1>b. ASSUME Busy' \subseteq Busy
      PROVE  SlotsInv' /\ (Cardinality(Busy) <= HandlerLimit)'
  <2>1. /\ IsFiniteSet(Busy') /\ Cardinality(Busy') <= Cardinality(Busy)
        /\ Cardinality(Busy') \in Nat
    BY <1>a, <1>b, FS_Subset, FS_CardinalityType
  <2>. QED BY <1>a, <2>1 DEF SlotsInv
<1>p. {"queued", "stuck", "answered", "gone", "idle"} \cap HandlerPCs = {}
    BY DEF HandlerPCs, Methods
<1>1. CASE \/ BootDetect \/ BootPublish \/ Notify \/ RpcFails \/ TakeNotification
           \/ PutEvent \/ CloseEvents \/ SpoolEvent \/ Connect \/ UNCHANGED vars
  <2>1. UNCHANGED <<current, pc>>
    BY <1>1 DEF BootDetect, BootPublish, Notify, RpcFails, TakeNotification, PutEvent,
                CloseEvents, SpoolEvent, Connect, vars, handlerVars
  <2>. QED BY <1>b, <2>1 DEF Busy
<1>2. CASE MainStops \/ SessionEnds
    BY <1>2, <1>b DEF MainStops, SessionEnds, Busy
<1>3. CASE WriteResult
  <2>1. Busy' \subseteq Busy
    BY <1>3, <1>a, <1>p DEF WriteResult, Busy, HandlerTypes
  <2>. QED BY <1>b, <2>1
<1>4. ASSUME NEW c \in Commands,
             \/ StartSend(c) \/ StartLink(c) \/ FinishLink(c) \/ StartConversations(c)
             \/ AnswerMessages(c)
      PROVE  SlotsInv' /\ (Cardinality(Busy) <= HandlerLimit)'
  <2>1. /\ Cardinality(Busy) < HandlerLimit /\ pc[c] = "idle"
        /\ current' = current \cup {c}
    BY <1>4 DEF StartSend, StartLink, FinishLink, StartConversations, AnswerMessages,
                Incoming, TakeSlot
  <2>2. \E p \in HandlerPCs : pc' = [pc EXCEPT ![c] = p]
    BY <1>4 DEF StartSend, StartLink, FinishLink, StartConversations, AnswerMessages,
                Call, Return, HandlerPCs, Methods
  <2>3. Busy' = Busy \cup {c} /\ c \notin Busy
    BY <1>a, <1>p, <2>1, <2>2 DEF Busy, HandlerTypes
  <2>4. /\ IsFiniteSet(Busy \cup {c})
        /\ Cardinality(Busy \cup {c}) = Cardinality(Busy) + 1
    BY <1>a, <2>3, FS_AddElement
  <2>. QED BY <1>a, <2>1, <2>3, <2>4 DEF SlotsInv
<1>5. ASSUME NEW c \in Commands, NEW k \in Kinds, AnswerBusy(c, k)
      PROVE  Busy' \subseteq Busy
  <2>1. /\ current' = current \cup {c}
        /\ \E p \in {"queued", "stuck"} : pc' = [pc EXCEPT ![c] = p]
    BY <1>5 DEF AnswerBusy, Incoming
  <2>. QED BY <1>a, <1>p, <2>1 DEF Busy, HandlerTypes
<1>6. ASSUME NEW c \in Commands, NEW reply \in {"result", "error", "unreadable"},
             CliExecutes(c, reply)
      PROVE  Busy' \subseteq Busy
    BY <1>6 DEF CliExecutes, Busy
<1>7. ASSUME NEW c \in Commands, HandlerStep(c) PROVE Busy' \subseteq Busy
  <2>1. pc[c] \in HandlerPCs /\ UNCHANGED current
    BY <1>7 DEF HandlerStep, CallFails, CallDone, GroupsListed, LinkStarted, LinkFinished,
                AccountDetected, AccountMissing, PublishLive, Reply, Abandon, Returned,
                Handling, HandlerPCs, Methods
  <2>2. \E p : pc' = [pc EXCEPT ![c] = p]
    BY <1>7 DEF HandlerStep, CallFails, CallDone, GroupsListed, LinkStarted, LinkFinished,
                AccountDetected, AccountMissing, PublishLive, Reply, Abandon, Call, Return
  <2>. QED BY <1>a, <2>1, <2>2 DEF Busy, HandlerTypes
<1>. QED BY <1>b, <1>1, <1>2, <1>3, <1>4, <1>5, <1>6, <1>7 DEF Next

-----------------------------------------------------------------------------
(* Results and commands                                                    *)

\* A step of c alone leaves the queue of results as it is, if c is not in it.
LEMMA ResultsKept ==
    ASSUME TypeOK, ResultsInv, NEW c \in Commands, pc[c] # "queued", UNCHANGED results,
           NEW p, pc' = [pc EXCEPT ![c] = p]
    PROVE  ResultsInv'
    BY DEF ResultsInv, TypeOK

\* A result joins the queue.
LEMMA ResultQueued ==
    ASSUME TypeOK, ResultsInv, NEW c \in Commands, pc[c] # "queued",
           results' = Append(results, c), pc' = [pc EXCEPT ![c] = "queued"]
    PROVE  ResultsInv'
<1>1. /\ results \in Seq(Commands) /\ Len(results) \in Nat
      /\ Len(results') = Len(results) + 1 /\ results'[Len(results) + 1] = c
      /\ \A i \in 1..Len(results) : results'[i] = results[i] /\ results[i] \in Commands
      /\ \A i \in 1..Len(results) + 1 : i \in 1..Len(results) \/ i = Len(results) + 1
    BY DEF TypeOK
<1>2. \A i \in 1..Len(results) : results[i] # c /\ pc'[results[i]] = "queued"
    BY <1>1 DEF ResultsInv, TypeOK
<1>3. pc'[c] = "queued"
    BY DEF TypeOK
<1>. QED BY <1>1, <1>2, <1>3 DEF ResultsInv

\* A step queues no result twice.
LEMMA ResultsStep ==
    ASSUME TypeOK, ResultsInv, [Next]_vars
    PROVE  ResultsInv'
<1>p. "queued" \notin HandlerPCs
    BY DEF HandlerPCs, Methods
<1>1. CASE \/ BootDetect \/ BootPublish \/ Notify \/ RpcFails \/ TakeNotification
           \/ PutEvent \/ CloseEvents \/ SpoolEvent \/ Connect \/ UNCHANGED vars
  <2>1. UNCHANGED <<results, pc>>
    BY <1>1 DEF BootDetect, BootPublish, Notify, RpcFails, TakeNotification, PutEvent,
                CloseEvents, SpoolEvent, Connect, vars, sessionVars, handlerVars
  <2>. QED BY <2>1 DEF ResultsInv
<1>2. CASE MainStops \/ SessionEnds
    BY <1>2 DEF MainStops, SessionEnds, ResultsInv
<1>3. CASE WriteResult
  <2> DEFINE h == Head(results)
  <2>1. /\ results # <<>> /\ results' = Tail(results)
        /\ pc' = [pc EXCEPT ![h] = "answered"]
    BY <1>3 DEF WriteResult
  <2>2. /\ results \in Seq(Commands) /\ Len(results) \in Nat /\ Len(results) > 0
        /\ h = results[1] /\ 1 \in 1..Len(results) /\ Len(results') = Len(results) - 1
        /\ \A i \in 1..Len(results) - 1 :
              /\ results'[i] = results[i + 1] /\ i + 1 \in 1..Len(results)
              /\ results[i + 1] \in Commands /\ i + 1 # 1
        /\ \A i, j \in 1..Len(results) - 1 : i # j => i + 1 # j + 1
    BY <2>1 DEF TypeOK
  <2>3. \A i \in 1..Len(results) - 1 : results[i + 1] # h
    BY <2>2 DEF ResultsInv
  <2> HIDE DEF h
  <2>4. \A d \in Commands : d # h => pc'[d] = pc[d]
    BY <2>1 DEF TypeOK
  <2>5. \A i \in 1..Len(results') : pc'[results'[i]] = "queued"
    BY <2>2, <2>3, <2>4 DEF ResultsInv
  <2>6. \A i, j \in 1..Len(results') : i # j => results'[i] # results'[j]
    <3> SUFFICES ASSUME NEW i \in 1..Len(results) - 1, NEW j \in 1..Len(results) - 1, i # j
                 PROVE  results'[i] # results'[j]
      BY <2>2
    <3>1. /\ results'[i] = results[i + 1] /\ results'[j] = results[j + 1] /\ i + 1 # j + 1
          /\ i + 1 \in 1..Len(results) /\ j + 1 \in 1..Len(results)
      BY <2>2
    <3>. QED BY <3>1 DEF ResultsInv
  <2>. QED BY <2>5, <2>6 DEF ResultsInv
<1>4. ASSUME NEW c \in Commands,
             \/ StartSend(c) \/ StartLink(c) \/ FinishLink(c) \/ StartConversations(c)
             \/ AnswerMessages(c)
      PROVE  ResultsInv'
  <2>1. pc[c] # "queued" /\ UNCHANGED results
    BY <1>4 DEF StartSend, StartLink, FinishLink, StartConversations, AnswerMessages,
                Incoming, TakeSlot
  <2>2. \E p : pc' = [pc EXCEPT ![c] = p]
    BY <1>4 DEF StartSend, StartLink, FinishLink, StartConversations, AnswerMessages,
                Call, Return
  <2>. QED BY <2>1, <2>2, ResultsKept
<1>5. ASSUME NEW c \in Commands, NEW k \in Kinds, AnswerBusy(c, k)
      PROVE  ResultsInv'
  <2>1. pc[c] # "queued"
    BY <1>5 DEF AnswerBusy, Incoming
  <2>2. CASE results' = Append(results, c) /\ pc' = [pc EXCEPT ![c] = "queued"]
    BY <2>1, <2>2, ResultQueued
  <2>3. CASE UNCHANGED results /\ pc' = [pc EXCEPT ![c] = "stuck"]
    BY <2>1, <2>3, ResultsKept
  <2>. QED BY <1>5, <2>2, <2>3 DEF AnswerBusy
<1>6. ASSUME NEW c \in Commands, NEW reply \in {"result", "error", "unreadable"},
             CliExecutes(c, reply)
      PROVE  ResultsInv'
    BY <1>6 DEF CliExecutes, ResultsInv, sessionVars
<1>7. ASSUME NEW c \in Commands, HandlerStep(c) PROVE ResultsInv'
  <2>1. pc[c] # "queued"
    BY <1>7 DEF HandlerStep, CallFails, CallDone, GroupsListed, LinkStarted, LinkFinished,
                AccountDetected, AccountMissing, PublishLive, Reply, Abandon, Returned,
                Handling, Methods
  <2>2. CASE Reply(c)
    BY <2>1, <2>2, ResultQueued DEF Reply
  <2>3. CASE ~Reply(c)
    <3>1. \E p : pc' = [pc EXCEPT ![c] = p]
      BY <1>7, <2>3 DEF HandlerStep, CallFails, CallDone, GroupsListed, LinkStarted,
                LinkFinished, AccountDetected, AccountMissing, PublishLive, Abandon, Call, Return
    <3>2. UNCHANGED results
      BY <1>7, <2>3 DEF HandlerStep, CallFails, CallDone, GroupsListed, LinkStarted,
                LinkFinished, AccountDetected, AccountMissing, PublishLive, Abandon,
                Returned, Handling, sessionVars
    <3>. QED BY <2>1, <3>1, <3>2, ResultsKept
  <2>. QED BY <2>2, <2>3
<1>. QED BY <1>1, <1>2, <1>3, <1>4, <1>5, <1>6, <1>7 DEF Next

\* A step leaves command d as it is.
Untouched(d) ==
    /\ pc'[d] = pc[d] /\ kind'[d] = kind[d] /\ ok'[d] = ok[d] /\ req'[d] = req[d]
    /\ effect'[d] = effect[d] /\ (d \in blind' <=> d \in blind)
    /\ (d \in undetected' <=> d \in undetected)

\* A command that a step does not touch stays right.
LEMMA UntouchedOK ==
    ASSUME NEW d, CommandOK(d), Untouched(d)
    PROVE  CommandOK(d)'
    BY DEF Untouched, CommandOK, IdleOK, KindOK, ResponseOK, ResultOK

\* It is enough to look at the one command that a step touches.
LEMMA OnlyOne ==
    ASSUME CommandInv, NEW c \in Commands, CommandOK(c)',
           \A d \in Commands \ {c} : Untouched(d)
    PROVE  CommandInv'
<1> SUFFICES ASSUME NEW d \in Commands PROVE CommandOK(d)'
    BY DEF CommandInv
<1>1. CASE d = c
    BY <1>1
<1>2. CASE d # c
    BY <1>2, UntouchedOK DEF CommandInv
<1>. QED BY <1>1, <1>2

\* What Return does to the command, and that it does nothing to others.
LEMMA ReturnOf ==
    ASSUME TypeOK, NEW c \in Commands, NEW b \in BOOLEAN, Return(c, b)
    PROVE  /\ pc'[c] = "reply" /\ ok'[c] = b /\ req'[c] = "none"
           /\ \A d \in Commands \ {c} : pc'[d] = pc[d] /\ ok'[d] = ok[d] /\ req'[d] = req[d]
    BY DEF Return, TypeOK

\* What Call does to the command, and that it does nothing to others.
LEMMA CallOf ==
    ASSUME TypeOK, NEW c \in Commands, NEW m, Call(c, m)
    PROVE  /\ pc'[c] = m /\ ok'[c] = ok[c]
           /\ req'[c] = IF rpc = "open" THEN "open" ELSE "none"
           /\ effect'[c] = IF rpc # "closed" /\ HasEffect(m) THEN "open" ELSE effect[c]
           /\ \A d \in Commands \ {c} : /\ pc'[d] = pc[d] /\ ok'[d] = ok[d]
                                        /\ req'[d] = req[d] /\ effect'[d] = effect[d]
    BY DEF Call, TypeOK

\* The command that comes in is new.
LEMMA IncomingOf ==
    ASSUME TypeOK, NEW c \in Commands, NEW k, Incoming(c, k)
    PROVE  /\ pc[c] = "idle" /\ kind'[c] = k /\ UNCHANGED <<blind, undetected>>
           /\ \A d \in Commands \ {c} : kind'[d] = kind[d]
    BY DEF Incoming, TypeOK

\* The result of a command tells what became of its effect, at every step.
LEMMA CommandStep ==
    ASSUME TypeOK, ResultsInv, CommandInv, [Next]_vars
    PROVE  CommandInv'
<1> USE DEF EffectKinds
<1>1. CASE \/ BootDetect \/ BootPublish \/ Notify \/ RpcFails \/ TakeNotification
           \/ PutEvent \/ CloseEvents \/ SpoolEvent \/ Connect \/ UNCHANGED vars
  <2>1. UNCHANGED handlerVars
    BY <1>1 DEF BootDetect, BootPublish, Notify, RpcFails, TakeNotification, PutEvent,
                CloseEvents, SpoolEvent, Connect, vars
  <2>2. \A d \in Commands : Untouched(d)
    BY <2>1 DEF handlerVars, Untouched
  <2>. QED BY <2>2, UntouchedOK DEF CommandInv
<1>2. CASE MainStops
  <2> SUFFICES ASSUME NEW d \in Commands PROVE CommandOK(d)'
    BY DEF CommandInv
  <2>1. /\ pc'[d] \in {"idle", "answered", "gone"} /\ (pc'[d] = "idle" => pc[d] = "idle")
        /\ pc'[d] = "idle" => ~ok'[d]
        /\ req'[d] = "none" /\ UNCHANGED <<effect, blind, undetected, kind>>
    BY <1>2 DEF MainStops, TypeOK
  <2>2. CommandOK(d)
    BY DEF CommandInv
  <2>. QED BY <2>1, <2>2 DEF CommandOK, IdleOK, KindOK, ResponseOK, ResultOK
<1>3. CASE SessionEnds
  <2> SUFFICES ASSUME NEW d \in Commands PROVE CommandOK(d)'
    BY DEF CommandInv
  <2>1. pc'[d] \in {pc[d], "gone"} /\ UNCHANGED <<kind, ok, req, effect, blind, undetected>>
    BY <1>3 DEF SessionEnds, TypeOK
  <2>2. CommandOK(d)
    BY DEF CommandInv
  <2>. QED BY <2>1, <2>2 DEF CommandOK, IdleOK, KindOK, ResponseOK, ResultOK
<1>4. CASE WriteResult
  <2>1. PICK h \in Commands : /\ pc' = [pc EXCEPT ![h] = "answered"]
                              /\ UNCHANGED <<kind, ok, req, effect, blind, undetected>>
    <3>1. Head(results) \in Commands
      BY <1>4 DEF WriteResult, TypeOK
    <3>. QED BY <1>4, <3>1 DEF WriteResult
  <2>2. /\ pc'[h] = "answered"
        /\ \A d \in Commands \ {h} : Untouched(d)
    BY <2>1 DEF TypeOK, Untouched
  <2>3. CommandOK(h)'
    BY <2>2 DEF CommandOK, IdleOK, KindOK, ResponseOK, ResultOK
  <2>. QED BY <2>1, <2>2, <2>3, OnlyOne
<1>5. ASSUME NEW c \in Commands,
             \/ StartSend(c) \/ StartLink(c) \/ FinishLink(c) \/ StartConversations(c)
             \/ AnswerMessages(c)
      PROVE  CommandInv'
  <2>1. PICK k : Incoming(c, k) /\ \/ k = "send" /\ StartSend(c)
                                   \/ k = "link.start" /\ StartLink(c)
                                   \/ k = "link.finish" /\ FinishLink(c)
                                   \/ k = "conversations" /\ StartConversations(c)
                                   \/ k = "messages" /\ AnswerMessages(c)
    BY <1>5 DEF StartSend, StartLink, FinishLink, StartConversations, AnswerMessages
  <2>2. /\ pc[c] = "idle" /\ kind'[c] = k /\ UNCHANGED <<blind, undetected>>
        /\ \A d \in Commands \ {c} : kind'[d] = kind[d]
    BY <2>1, IncomingOf
  <2>3. effect[c] = "none" /\ c \notin blind \cup undetected
    BY <2>2 DEF CommandInv, CommandOK, IdleOK
  <2>4. CASE \E b \in BOOLEAN : Return(c, b) /\ UNCHANGED effect /\ (k \in EffectKinds => ~b)
    <3>1. PICK b \in BOOLEAN : Return(c, b) /\ UNCHANGED effect /\ (k \in EffectKinds => ~b)
      BY <2>4
    <3>2. /\ pc'[c] = "reply" /\ ok'[c] = b
          /\ \A d \in Commands \ {c} : pc'[d] = pc[d] /\ ok'[d] = ok[d] /\ req'[d] = req[d]
      BY <3>1, ReturnOf
    <3>3. CommandOK(c)'
      BY <2>2, <2>3, <3>1, <3>2 DEF CommandOK, IdleOK, KindOK, ResponseOK, ResultOK
    <3>4. \A d \in Commands \ {c} : Untouched(d)
      BY <2>2, <3>1, <3>2 DEF Untouched
    <3>. QED BY <3>3, <3>4, OnlyOne
  <2>5. CASE \/ k = "send" /\ Call(c, "send")
             \/ k = "link.finish" /\ Call(c, "finishLink")
             \/ k = "link.start" /\ Call(c, "startLink")
             \/ k = "conversations" /\ Call(c, "listGroups")
    <3>1. PICK m \in {"send", "finishLink", "startLink", "listGroups"} :
             /\ Call(c, m)
             /\ m = "send" => k = "send"
             /\ m = "finishLink" => k = "link.finish"
             /\ m \in {"startLink", "listGroups"} => k \notin EffectKinds
      BY <2>5
    <3>2. /\ pc'[c] = m
          /\ req'[c] = IF rpc = "open" THEN "open" ELSE "none"
          /\ effect'[c] = IF rpc # "closed" /\ HasEffect(m) THEN "open" ELSE effect[c]
          /\ \A d \in Commands \ {c} : /\ pc'[d] = pc[d] /\ ok'[d] = ok[d]
                                       /\ req'[d] = req[d] /\ effect'[d] = effect[d]
      BY <3>1, CallOf
    <3>3. CommandOK(c)'
      BY <2>2, <3>1, <3>2 DEF CommandOK, IdleOK, KindOK, ResponseOK, ResultOK, HasEffect
    <3>4. \A d \in Commands \ {c} : Untouched(d)
      BY <2>2, <3>2 DEF Untouched
    <3>. QED BY <3>3, <3>4, OnlyOne
  <2>. QED BY <2>1, <2>4, <2>5 DEF StartSend, StartLink, FinishLink, StartConversations,
                                   AnswerMessages
<1>6. ASSUME NEW c \in Commands, NEW k \in Kinds, AnswerBusy(c, k)
      PROVE  CommandInv'
  <2>1. /\ pc[c] = "idle" /\ kind'[c] = k /\ UNCHANGED <<blind, undetected>>
        /\ \A d \in Commands \ {c} : kind'[d] = kind[d]
    BY <1>6, IncomingOf DEF AnswerBusy
  <2>2. /\ pc'[c] \in {"queued", "stuck"} /\ UNCHANGED <<ok, req, effect>>
        /\ \A d \in Commands \ {c} : pc'[d] = pc[d]
    BY <1>6 DEF AnswerBusy, TypeOK
  <2>3. effect[c] = "none" /\ ~ok[c]
    BY <2>1 DEF CommandInv, CommandOK, IdleOK
  <2>4. CommandOK(c)'
    BY <2>1, <2>2, <2>3 DEF CommandOK, IdleOK, KindOK, ResponseOK, ResultOK
  <2>5. \A d \in Commands \ {c} : Untouched(d)
    BY <2>1, <2>2 DEF Untouched
  <2>. QED BY <2>4, <2>5, OnlyOne
<1>7. ASSUME NEW c \in Commands, NEW reply \in {"result", "error", "unreadable"},
             CliExecutes(c, reply)
      PROVE  CommandInv'
  <2>1. /\ req[c] = "open" \/ effect[c] = "open"
        /\ req'[c] = IF req[c] = "open" /\ rpc = "open" THEN reply ELSE "none"
        /\ effect'[c] = IF effect[c] # "open" THEN effect[c]
                        ELSE IF reply = "error" THEN "refused" ELSE "accepted"
        /\ UNCHANGED <<kind, pc, ok, blind, undetected>>
        /\ \A d \in Commands \ {c} : req'[d] = req[d] /\ effect'[d] = effect[d]
    BY <1>7 DEF CliExecutes, TypeOK
  <2>2. CommandOK(c) /\ pc[c] # "idle"
    BY <2>1 DEF CommandInv, CommandOK, IdleOK
  <2>3. CommandOK(c)'
    BY <2>1, <2>2 DEF CommandOK, IdleOK, KindOK, ResponseOK, ResultOK
  <2>4. \A d \in Commands \ {c} : Untouched(d)
    BY <2>1 DEF Untouched
  <2>. QED BY <2>3, <2>4, OnlyOne
<1>8. ASSUME NEW c \in Commands, HandlerStep(c) PROVE CommandInv'
  <2>a. CommandOK(c)
    BY DEF CommandInv
  <2>1. CASE CallFails(c) \/ AccountMissing(c)
    <3>1. Return(c, FALSE) /\ MissAccount(c) /\ UNCHANGED <<kind, effect>>
      BY <2>1 DEF CallFails, AccountMissing, Handling
    <3>2. /\ pc'[c] = "reply" /\ ~ok'[c]
          /\ \A d \in Commands \ {c} : pc'[d] = pc[d] /\ ok'[d] = ok[d] /\ req'[d] = req[d]
      BY <3>1, ReturnOf
    <3>3. \/ LoseSight(c)
          \/ blind' = blind /\ pc[c] = "listAccounts"
      BY <2>1 DEF CallFails, AccountMissing, Handling
    <3>4. ASSUME pc[c] \in {"send", "finishLink"}
          PROVE  effect[c] \in {"none", "refused"} \/ c \in blind'
      <4>1. rpc # "open" \/ req[c] \in {"error", "unreadable"}
        BY <2>1, <3>4 DEF CallFails, AccountMissing, Handling
      <4>2. CASE rpc # "open" \/ req[c] = "unreadable"
        BY <3>3, <3>4, <4>2 DEF LoseSight, HasEffect
      <4>3. CASE req[c] = "error"
        BY <2>a, <3>4, <4>3 DEF CommandOK, ResponseOK
      <4>. QED BY <4>1, <4>2, <4>3
    <3>5. ASSUME pc[c] = "listAccounts" PROVE c \in undetected'
      BY <3>1, <3>5 DEF MissAccount
    <3>6. ASSUME pc[c] \in {"startLink", "listGroups", "listContacts"}
          PROVE  kind[c] \notin EffectKinds
      BY <2>a, <3>6 DEF CommandOK, KindOK
    <3>7. /\ kind[c] \in EffectKinds =>
                effect[c] \in {"none", "refused"} \/ c \in blind' \cup undetected'
          /\ \A d \in Commands \ {c} : /\ d \in blind' <=> d \in blind
                                       /\ d \in undetected' <=> d \in undetected
      <4>1. pc[c] \in Methods
        BY <2>1 DEF CallFails, AccountMissing, Handling, Methods
      <4>2. /\ blind' \in {blind, blind \cup {c}}
            /\ undetected' \in {undetected, undetected \cup {c}}
        BY <3>1, <3>3 DEF LoseSight, MissAccount
      <4>. QED BY <4>1, <4>2, <3>4, <3>5, <3>6 DEF Methods
    <3>8. CommandOK(c)'
      BY <3>1, <3>2, <3>7 DEF CommandOK, IdleOK, KindOK, ResponseOK, ResultOK
    <3>9. \A d \in Commands \ {c} : Untouched(d)
      BY <3>1, <3>2, <3>7 DEF Untouched
    <3>. QED BY <3>8, <3>9, OnlyOne
  <2>2. CASE CallDone(c) \/ LinkStarted(c) \/ PublishLive(c)
    <3>1. /\ Return(c, TRUE) /\ UNCHANGED <<kind, effect, blind, undetected>>
      BY <2>2 DEF CallDone, LinkStarted, PublishLive, Returned, Handling
    <3>2. \/ pc[c] = "send" /\ req[c] = "result"
          \/ pc[c] \in {"listContacts", "startLink", "publish"}
      BY <2>2 DEF CallDone, LinkStarted, PublishLive, Returned, Handling
    <3>3. kind[c] \in EffectKinds => effect[c] = "accepted"
      BY <2>a, <3>2 DEF CommandOK, KindOK, ResponseOK
    <3>4. /\ pc'[c] = "reply" /\ ok'[c]
          /\ \A d \in Commands \ {c} : pc'[d] = pc[d] /\ ok'[d] = ok[d] /\ req'[d] = req[d]
      BY <3>1, ReturnOf
    <3>5. CommandOK(c)'
      BY <3>1, <3>3, <3>4 DEF CommandOK, IdleOK, KindOK, ResponseOK, ResultOK
    <3>6. \A d \in Commands \ {c} : Untouched(d)
      BY <3>1, <3>4 DEF Untouched
    <3>. QED BY <3>5, <3>6, OnlyOne
  <2>3. CASE GroupsListed(c) \/ LinkFinished(c)
    <3>1. PICK m \in {"listContacts", "listAccounts"} :
             /\ Call(c, m) /\ UNCHANGED <<kind, blind, undetected>>
             /\ m = "listContacts" => pc[c] = "listGroups"
             /\ m = "listAccounts" => pc[c] = "finishLink" /\ req[c] \in {"result", "unreadable"}
      BY <2>3 DEF GroupsListed, LinkFinished, Returned, Handling
    <3>2. /\ pc'[c] = m
          /\ effect'[c] = IF rpc # "closed" /\ HasEffect(m) THEN "open" ELSE effect[c]
          /\ \A d \in Commands \ {c} : /\ pc'[d] = pc[d] /\ ok'[d] = ok[d]
                                       /\ req'[d] = req[d] /\ effect'[d] = effect[d]
      BY <3>1, CallOf
    <3>3. effect'[c] = effect[c]
      BY <3>1, <3>2 DEF HasEffect
    <3>4. CommandOK(c)'
      BY <2>a, <3>1, <3>2, <3>3 DEF CommandOK, IdleOK, KindOK, ResponseOK, ResultOK
    <3>5. \A d \in Commands \ {c} : Untouched(d)
      BY <3>1, <3>2 DEF Untouched
    <3>. QED BY <3>4, <3>5, OnlyOne
  <2>4. CASE AccountDetected(c)
    <3>1. /\ pc[c] = "listAccounts" /\ pc'[c] = "publish"
          /\ UNCHANGED <<kind, ok, req, effect, blind, undetected>>
          /\ \A d \in Commands \ {c} : pc'[d] = pc[d]
      BY <2>4 DEF AccountDetected, Returned, Handling, TypeOK
    <3>2. CommandOK(c)'
      BY <2>a, <3>1 DEF CommandOK, IdleOK, KindOK, ResponseOK, ResultOK
    <3>. QED BY <3>1, <3>2, OnlyOne DEF Untouched
  <2>5. CASE Reply(c)
    <3>1. /\ pc[c] = "reply" /\ pc'[c] = "queued"
          /\ UNCHANGED <<kind, ok, req, effect, blind, undetected>>
          /\ \A d \in Commands \ {c} : pc'[d] = pc[d]
      BY <2>5 DEF Reply, TypeOK
    <3>2. CommandOK(c)'
      BY <2>a, <3>1 DEF CommandOK, IdleOK, KindOK, ResponseOK, ResultOK
    <3>. QED BY <3>1, <3>2, OnlyOne DEF Untouched
  <2>6. CASE Abandon(c)
    <3>1. /\ pc'[c] = "gone" /\ UNCHANGED <<kind, effect, blind, undetected>>
          /\ \A d \in Commands \ {c} : pc'[d] = pc[d] /\ ok'[d] = ok[d] /\ req'[d] = req[d]
      BY <2>6 DEF Abandon, Handling, TypeOK
    <3>2. CommandOK(c)'
      BY <3>1 DEF CommandOK, IdleOK, KindOK, ResponseOK, ResultOK
    <3>. QED BY <3>1, <3>2, OnlyOne DEF Untouched
  <2>. QED BY <1>8, <2>1, <2>2, <2>3, <2>4, <2>5, <2>6 DEF HandlerStep
<1>. QED BY <1>1, <1>2, <1>3, <1>4, <1>5, <1>6, <1>7, <1>8 DEF Next

-----------------------------------------------------------------------------
(* Theorems                                                                *)

\* Every step keeps the inductive invariant.
LEMMA IndStep == IndInv /\ [Next]_vars => IndInv'
<1> SUFFICES ASSUME IndInv, [Next]_vars PROVE IndInv'
    OBVIOUS
<1>1. TypeOK /\ SlotsInv /\ StreamInv /\ ResultsInv /\ CommandInv
    BY DEF IndInv
<1>2. HandlerTypes' /\ OtherTypes' /\ SlotsInv' /\ (Cardinality(Busy) <= HandlerLimit)'
    BY <1>1, HandlerTypesStep, OtherTypesStep, SlotsStep
<1>3. TypeOK'
    BY <1>2 DEF TypeOK, HandlerTypes, OtherTypes
<1>4. StreamInv' /\ ResultsInv' /\ CommandInv'
    BY <1>1, StreamStep, ResultsStep, CommandStep
<1>. QED BY <1>2, <1>3, <1>4 DEF IndInv

\* The inductive invariant holds in every reachable state.
THEOREM IndInvHolds == Spec => []IndInv
<1>1. Init => IndInv
  <2> SUFFICES ASSUME Init PROVE IndInv
    OBVIOUS
  <2>1. Busy = {}
    BY DEF Init, Busy
  <2>2. SlotsInv /\ Cardinality(Busy) <= HandlerLimit
    BY <2>1, FS_EmptySet, LimitAssumption DEF SlotsInv
  <2>3. TypeOK
    <3>1. <<>> \in Seq(Notifications) /\ <<>> \in Seq(0..NNotifications) /\ <<>> \in Seq(Commands)
      OBVIOUS
    <3>2. 0 \in 0..NNotifications /\ Len(<<>>) = 0
      BY NotificationAssumption
    <3>3. HandlerTypes
      BY <3>1, <3>2, LimitAssumption DEF Init, HandlerTypes, PCs
    <3>4. OtherTypes
      <4>1. 0 <= NotificationLimit /\ 0 <= EventLimit
        BY LimitAssumption
      <4>2. /\ notifications \in Seq(Notifications) /\ Len(notifications) <= NotificationLimit
            /\ events \in Seq(0..NNotifications) /\ Len(events) <= EventLimit
            /\ spooled \in Seq(Notifications)
        BY <3>1, <3>2, <4>1 DEF Init
      <4>. QED BY <3>2, <4>2 DEF Init, OtherTypes
    <3>. QED BY <2>2, <3>3, <3>4, TypeParts
  <2>4. StreamInv
    <3>1. /\ Texts(spooled) = {} /\ Texts(events) = {} /\ Texts(notifications) = {}
          /\ Sorted(spooled) /\ Sorted(events) /\ Sorted(notifications)
      BY EmptyQueue DEF Init, Texts, Sorted
    <3>2. HeldTexts = {}
      BY TextualNat DEF Init, HeldTexts
    <3>3. \A m \in Textual : ~(m <= emitted)
      BY NotificationAssumption DEF Init, Notifications
    <3>. QED BY <3>1, <3>2, <3>3
             DEF Init, StreamInv, StageInv, PassedInv, GapInv, Present, Precedes
  <2>5. ResultsInv
    BY DEF Init, ResultsInv
  <2>6. CommandInv
    BY DEF Init, CommandInv, CommandOK, IdleOK, KindOK, ResponseOK, ResultOK
  <2>. QED BY <2>2, <2>3, <2>4, <2>5, <2>6 DEF IndInv
<1>. QED BY <1>1, IndStep, PTL DEF Spec

\* The channels never exceed their capacity, and no more handlers of a session
\* run than there are slots.
THEOREM TypeCorrect == Spec => []TypeOK
<1>1. IndInv => TypeOK
    BY DEF IndInv
<1>. QED BY <1>1, IndInvHolds, PTL

\* Received messages reach the spool in order and without a gap, whatever the
\* capacities of the channels between the goroutines.
THEOREM OrderedStream == Spec => []NotificationsInOrder
<1>1. IndInv => NotificationsInOrder
    BY StreamInOrder DEF IndInv
<1>. QED BY <1>1, IndInvHolds, PTL

-----------------------------------------------------------------------------
(* Refinement                                                              *)

Answered == [c \in Commands |-> AnswerOf(c)]

\* A step that keeps the results and the kinds of what is answered keeps the
\* answers.
LEMMA SameAnswers ==
    ASSUME \A d \in Commands : /\ pc'[d] = "answered" <=> pc[d] = "answered"
                               /\ pc[d] = "answered" => kind'[d] = kind[d] /\ ok'[d] = ok[d]
    PROVE  Answered' = Answered
    BY DEF Answered, AnswerOf

\* Every step is a step of the contract or leaves its variables alone.
LEMMA ContractStep ==
    IndInv /\ [Next]_vars => [Contract!ContractNext]_(Contract!contractVars)
<1> SUFFICES ASSUME IndInv, [Next]_vars
             PROVE  Contract!ContractNext \/ UNCHANGED <<Answered, effect, blind, undetected>>
    BY DEF Contract!contractVars, Answered
<1>a. TypeOK /\ ResultsInv /\ CommandInv
    BY DEF IndInv
<1>b. \A c \in Commands : Answered[c] = AnswerOf(c)
    BY DEF Answered
<1>1. CASE \/ BootDetect \/ BootPublish \/ Notify \/ RpcFails \/ TakeNotification
           \/ PutEvent \/ CloseEvents \/ SpoolEvent \/ Connect \/ UNCHANGED vars
  <2>1. UNCHANGED handlerVars
    BY <1>1 DEF BootDetect, BootPublish, Notify, RpcFails, TakeNotification, PutEvent,
                CloseEvents, SpoolEvent, Connect, vars
  <2>. QED BY <2>1 DEF handlerVars, Answered, AnswerOf
<1>2. CASE MainStops \/ SessionEnds
  <2>1. /\ UNCHANGED <<kind, effect, blind, undetected>>
        /\ \A d \in Commands : /\ pc'[d] = "answered" <=> pc[d] = "answered"
                               /\ pc[d] = "answered" => ok'[d] = ok[d]
    BY <1>2, <1>a DEF MainStops, SessionEnds, TypeOK
  <2>. QED BY <2>1, SameAnswers
<1>3. CASE WriteResult
  <2>1. PICK h \in Commands : /\ pc[h] = "queued" /\ pc' = [pc EXCEPT ![h] = "answered"]
                              /\ UNCHANGED <<kind, ok, effect, blind, undetected>>
    <3>1. results # <<>> /\ results \in Seq(Commands)
      BY <1>3, <1>a DEF WriteResult, TypeOK
    <3>2. Head(results) = results[1] /\ 1 \in 1..Len(results) /\ Head(results) \in Commands
      BY <3>1
    <3>. QED BY <1>3, <1>a, <3>2 DEF WriteResult, ResultsInv
  <2>2. /\ pc'[h] = "answered" /\ \A d \in Commands \ {h} : pc'[d] = pc[d]
    BY <1>a, <2>1 DEF TypeOK
  <2>3. CASE kind[h] \notin EffectKinds
    <3>1. Answered' = Answered
      BY <2>1, <2>2, <2>3 DEF Answered, AnswerOf, EffectKinds
    <3>. QED BY <2>1, <3>1
  <2>4. CASE kind[h] \in EffectKinds
    <3> DEFINE a == IF ok[h] THEN "ok" ELSE "failed"
    <3>1. Answered[h] = "none"
      BY <1>b, <2>1 DEF AnswerOf
    <3>2. Answered' = [Answered EXCEPT ![h] = a]
      BY <2>1, <2>2, <2>4 DEF Answered, AnswerOf, EffectKinds
    <3>3. ResultOK(h)
      BY <1>a DEF CommandInv, CommandOK
    <3>4. /\ a = "ok" => effect[h] = "accepted"
          /\ a = "failed" => effect[h] \in {"none", "refused"} \/ h \in blind \cup undetected
          /\ a # "unknown" /\ a \in {"ok", "failed", "unknown"}
      BY <2>1, <2>4, <3>3 DEF ResultOK
    <3> HIDE DEF a
    <3>5. Contract!Answer(h, a)
      BY <2>1, <3>1, <3>2, <3>4 DEF Contract!Answer, Answered
    <3>. QED BY <3>4, <3>5 DEF Contract!ContractNext, Contract!Answers
  <2>. QED BY <2>3, <2>4
<1>4. ASSUME NEW c \in Commands,
             \/ StartSend(c) \/ StartLink(c) \/ FinishLink(c) \/ StartConversations(c)
             \/ AnswerMessages(c)
      PROVE  Contract!ContractNext \/ UNCHANGED <<Answered, effect, blind, undetected>>
  <2>1. PICK k : Incoming(c, k)
    BY <1>4 DEF StartSend, StartLink, FinishLink, StartConversations, AnswerMessages
  <2>2. /\ pc[c] = "idle" /\ UNCHANGED <<blind, undetected>>
        /\ \A d \in Commands \ {c} : kind'[d] = kind[d]
    BY <1>a, <2>1, IncomingOf
  <2>3. effect[c] = "none"
    BY <1>a, <2>2 DEF CommandInv, CommandOK, IdleOK
  <2>4. CASE \E b \in BOOLEAN : Return(c, b) /\ UNCHANGED effect
    <3>1. /\ pc'[c] = "reply" /\ UNCHANGED effect
          /\ \A d \in Commands \ {c} : pc'[d] = pc[d] /\ ok'[d] = ok[d]
      BY <1>a, <2>4, ReturnOf
    <3>2. Answered' = Answered
      BY <2>2, <3>1, SameAnswers
    <3>. QED BY <2>2, <3>1, <3>2
  <2>5. CASE \E m \in Methods : Call(c, m)
    <3>1. PICK m \in Methods : Call(c, m)
      BY <2>5
    <3>2. /\ pc'[c] = m
          /\ \A d \in Commands \ {c} : pc'[d] = pc[d] /\ ok'[d] = ok[d]
      BY <1>a, <3>1, CallOf
    <3>3. Answered' = Answered
      BY <2>2, <3>2, SameAnswers DEF Methods
    <3>4. effect' = [effect EXCEPT ![c] = "open"] \/ effect' = effect
      BY <1>a, <3>1 DEF Call, TypeOK
    <3>5. CASE effect' = [effect EXCEPT ![c] = "open"]
      <4>1. Answered[c] = "none"
        BY <1>b, <2>2 DEF AnswerOf
      <4>2. Contract!Submit(c)
        BY <2>2, <2>3, <3>3, <3>5, <4>1 DEF Contract!Submit, Answered
      <4>. QED BY <4>2 DEF Contract!ContractNext
    <3>. QED BY <2>2, <3>3, <3>4, <3>5
  <2>. QED BY <1>4, <2>4, <2>5 DEF StartSend, StartLink, FinishLink, StartConversations,
                                   AnswerMessages, Methods
<1>5. ASSUME NEW c \in Commands, NEW k \in Kinds, AnswerBusy(c, k)
      PROVE  UNCHANGED <<Answered, effect, blind, undetected>>
  <2>1. /\ pc[c] = "idle" /\ UNCHANGED <<blind, undetected>>
        /\ \A d \in Commands \ {c} : kind'[d] = kind[d]
    BY <1>5, <1>a, IncomingOf DEF AnswerBusy
  <2>2. /\ pc'[c] \in {"queued", "stuck"} /\ UNCHANGED <<ok, effect>>
        /\ \A d \in Commands \ {c} : pc'[d] = pc[d]
    BY <1>5, <1>a DEF AnswerBusy, TypeOK
  <2>. QED BY <2>1, <2>2, SameAnswers
<1>6. ASSUME NEW c \in Commands, NEW reply \in {"result", "error", "unreadable"},
             CliExecutes(c, reply)
      PROVE  Contract!ContractNext \/ UNCHANGED <<Answered, effect, blind, undetected>>
  <2>1. UNCHANGED <<kind, pc, ok, blind, undetected>>
    BY <1>6 DEF CliExecutes
  <2>2. Answered' = Answered
    BY <2>1 DEF Answered, AnswerOf
  <2>3. CASE effect[c] # "open"
    <3>1. effect' = effect
      BY <1>6, <1>a, <2>3 DEF CliExecutes, TypeOK
    <3>. QED BY <2>1, <2>2, <3>1
  <2>4. CASE effect[c] = "open"
    <3>1. \E e \in {"accepted", "refused"} : effect' = [effect EXCEPT ![c] = e]
      BY <1>6, <2>4 DEF CliExecutes
    <3>2. Contract!Decide(c)
      BY <2>1, <2>2, <2>4, <3>1 DEF Contract!Decide, Answered
    <3>. QED BY <3>2 DEF Contract!ContractNext
  <2>. QED BY <2>3, <2>4
<1>7. ASSUME NEW c \in Commands, HandlerStep(c)
      PROVE  Contract!ContractNext \/ UNCHANGED <<Answered, effect, blind, undetected>>
  <2>1. pc[c] # "answered" /\ UNCHANGED kind
    BY <1>7 DEF HandlerStep, CallFails, CallDone, GroupsListed, LinkStarted, LinkFinished,
                AccountDetected, AccountMissing, PublishLive, Reply, Abandon, Returned,
                Handling, Methods
  <2>2. \E p \in PCs \ {"answered"} : pc' = [pc EXCEPT ![c] = p]
    BY <1>7 DEF HandlerStep, CallFails, CallDone, GroupsListed, LinkStarted, LinkFinished,
                AccountDetected, AccountMissing, PublishLive, Reply, Abandon, Call, Return,
                PCs, HandlerPCs, Methods
  <2>3. ok' = ok \/ \E b : ok' = [ok EXCEPT ![c] = b]
    BY <1>7 DEF HandlerStep, CallFails, CallDone, GroupsListed, LinkStarted, LinkFinished,
                AccountDetected, AccountMissing, PublishLive, Reply, Abandon, Call, Return
  <2>4. Answered' = Answered
    <3>1. pc'[c] # "answered" /\ \A d \in Commands \ {c} : pc'[d] = pc[d] /\ ok'[d] = ok[d]
      BY <1>a, <2>2, <2>3 DEF TypeOK
    <3>. QED BY <2>1, <3>1, SameAnswers
  <2>5. effect' = effect
    <3>1. CASE GroupsListed(c) \/ LinkFinished(c)
      BY <3>1, <1>a DEF GroupsListed, LinkFinished, Call, HasEffect, TypeOK
    <3>2. CASE ~(GroupsListed(c) \/ LinkFinished(c))
      BY <1>7, <3>2 DEF HandlerStep, CallFails, CallDone, LinkStarted, AccountDetected,
                AccountMissing, PublishLive, Reply, Abandon
    <3>. QED BY <3>1, <3>2
  <2>6. \/ UNCHANGED <<blind, undetected>>
        \/ LoseSight(c) /\ MissAccount(c)
        \/ UNCHANGED blind /\ MissAccount(c)
    BY <1>7 DEF HandlerStep, CallFails, CallDone, GroupsListed, LinkStarted, LinkFinished,
                AccountDetected, AccountMissing, PublishLive, Reply, Abandon
  <2>a. Answered[c] = "none"
    BY <1>b, <2>1 DEF AnswerOf
  <2>7. CASE effect[c] # "none" /\ blind' = blind \cup {c} /\ UNCHANGED undetected
    <3>2. Contract!LoseSight({c})
      BY <2>4, <2>5, <2>7, <2>a DEF Contract!LoseSight, Answered
    <3>. QED BY <3>2 DEF Contract!ContractNext
  <2>8. CASE /\ pc[c] = "listAccounts" /\ undetected' = undetected \cup {c}
             /\ UNCHANGED blind
    <3>1. effect[c] = "accepted"
      BY <1>a, <2>8 DEF CommandInv, CommandOK, ResponseOK
    <3>2. Contract!FallShort(c)
      BY <2>4, <2>5, <2>8, <2>a, <3>1 DEF Contract!FallShort, Answered
    <3>. QED BY <3>2 DEF Contract!ContractNext
  <2>9. \/ UNCHANGED <<blind, undetected>>
        \/ effect[c] # "none" /\ blind' = blind \cup {c} /\ UNCHANGED undetected
        \/ pc[c] = "listAccounts" /\ undetected' = undetected \cup {c} /\ UNCHANGED blind
    BY <2>6 DEF LoseSight, MissAccount, HasEffect
  <2>. QED BY <2>4, <2>5, <2>7, <2>8, <2>9
<1>. QED BY <1>1, <1>2, <1>3, <1>4, <1>5, <1>6, <1>7 DEF Next

\* The Signal worker keeps the contract of WorkerContract, with any number of
\* commands and handlers of any number of sessions side by side.
THEOREM SignalKeepsContract == Spec => SignalImplementsWorker
<1>1. Init => Contract!ContractInit
    BY DEF Init, Contract!ContractInit, AnswerOf
<1>2. IndInv /\ [Next]_vars => [Contract!ContractNext]_(Contract!contractVars)
    BY ContractStep
<1>. QED
    BY <1>1, <1>2, IndInvHolds, PTL DEF Spec, SignalImplementsWorker, Contract!ContractSpec
=============================================================================
