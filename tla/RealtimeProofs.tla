--------------------------- MODULE RealtimeProofs ----------------------------
(***************************************************************************)
(* Proofs about Realtime for every number of outbox entries, every batch   *)
(* and queue limit and every set of client connections.                    *)
(***************************************************************************)
EXTENDS Realtime, Ordering

\* Ids the sequence has not handed out have no row.
InsertInv == \A i \in Ids : inserted < i => outbox[i] = "none"

\* The batch holds pending entries, each once.
BatchInv ==
    /\ \A j \in 1..Len(batch) : outbox[batch[j]] = "pending"
    /\ \A j, k \in 1..Len(batch) : batch[j] = batch[k] => j = k
    /\ published => batch # <<>> /\ times[batch[1]] > 0

\* What the publications of an entry cost: a failure each, but for the last
\* one of an entry that is marked or about to be marked.
Marked(i) == outbox[i] \in {"delivered", "pruned"}
Charged(i) == Marked(i) \/ (published /\ batch[1] = i)

TimesInv ==
    \A i \in Ids :
        /\ times[i] > 0 => outbox[i] \in {"pending", "delivered", "pruned"}
        /\ Marked(i) => times[i] > 0
        /\ times[i] <= failures + 1
        /\ ~Charged(i) => times[i] <= failures

\* A connection outside the hub's map has no history.
QuietInv ==
    \A s \in Subscribers :
        sub[s].phase # "open" => due[s] = <<>> /\ received[s] = <<>> /\ sub[s].queue = <<>>

IndInv ==
    /\ TypeOK
    /\ InsertInv
    /\ BatchInv
    /\ TimesInv
    /\ QuietInv
    /\ NoSilentGap

-----------------------------------------------------------------------------
(* Operators                                                               *)

\* PendingOutbox returns ids of the set it reads, in increasing order and so
\* each once, and at least one if there is any.
LEMMA FirstIdsOrdered ==
    ASSUME NEW S \in SUBSET Ids
    PROVE  /\ FirstIds(S) \in Seq(S)
           /\ \A j, k \in 1..Len(FirstIds(S)) : j < k => FirstIds(S)[j] < FirstIds(S)[k]
           /\ S # {} => FirstIds(S) # <<>>
<1> DEFINE f == [i \in S |-> i]
           n == IF Cardinality(S) < BatchLimit THEN Cardinality(S) ELSE BatchLimit
           B(k) == CHOOSE i \in S : Cardinality({j \in S : j < i}) = k - 1
<1>1. S \subseteq Nat /\ f \in [S -> Nat] /\ \A x, y \in S : f[x] = f[y] => x = y
    BY DEF Ids
<1>1a. \A x \in S : f[x] = x
    OBVIOUS
<1>2. IsFiniteSet(S)
  <2>1. IsFiniteSet(Ids)
    BY FS_Interval, BoundsAssumption DEF Ids
  <2>. QED BY <2>1, FS_Subset
<1> HIDE DEF f
<1>3. Cardinality(S) \in Nat /\ n \in Nat /\ n <= Cardinality(S)
    BY <1>2, FS_CardinalityType, LimitsAssumption
<1>4. \A i \in S : {j \in S : j < i} = Below(S, f, i)
    BY <1>1a DEF Below
<1>5. ASSUME NEW k \in 1..n PROVE B(k) \in S /\ Rank(S, f, B(k)) = k - 1
  <2>1. k - 1 \in 0..Cardinality(S) - 1
    BY <1>3
  <2>2. \E i \in S : Rank(S, f, i) = k - 1
    BY <1>1, <1>2, <2>1, RankExists
  <2>3. \E i \in S : Cardinality({j \in S : j < i}) = k - 1
    BY <2>2, <1>4 DEF Rank
  <2>. QED BY <2>3, <1>4 DEF Rank
<1>6. FirstIds(S) = [k \in 1..n |-> B(k)]
    BY DEF FirstIds
<1> HIDE DEF B, n
<1>7. FirstIds(S) \in Seq(S) /\ Len(FirstIds(S)) = n
    BY <1>3, <1>5, <1>6
<1>8. ASSUME NEW j \in 1..n, NEW k \in 1..n, j < k PROVE B(j) < B(k)
  <2>1. /\ B(j) \in S /\ B(k) \in S
        /\ Rank(S, f, B(j)) = j - 1 /\ Rank(S, f, B(k)) = k - 1
    BY <1>5
  <2>2. f[B(j)] = B(j) /\ f[B(k)] = B(k) /\ B(j) \in Nat /\ B(k) \in Nat
    BY <1>1, <1>1a, <2>1
  <2>3. ~(B(k) < B(j))
    <3>1. SUFFICES ASSUME f[B(k)] < f[B(j)] PROVE FALSE
      BY <2>2
    <3>2. Rank(S, f, B(k)) < Rank(S, f, B(j))
      BY <1>1, <1>2, <2>1, <3>1, RankMonotone
    <3>. QED BY <2>1, <3>2, <1>8, <1>3
  <2>4. B(k) # B(j)
    BY <2>1, <1>8, <1>3
  <2>. QED BY <2>2, <2>3, <2>4
<1>9. S # {} => n # 0
    BY <1>2, FS_EmptySet, LimitsAssumption DEF n
<1>10. \A j, k \in 1..n : j < k => FirstIds(S)[j] < FirstIds(S)[k]
    BY <1>6, <1>8
<1>. QED BY <1>7, <1>9, <1>10

\* Moving the head of the queue to the end of what was received changes
\* nothing of the two together.
LEMMA MoveHead ==
    ASSUME NEW T, NEW r \in Seq(T), NEW q \in Seq(T), q # <<>>
    PROVE  Append(r, Head(q)) \o Tail(q) = r \o q
    OBVIOUS

\* An event appended to the queue is an event appended to the whole.
LEMMA AppendWhole ==
    \A e \in Events : \A r, q \in Seq(Events) : Append(r \o q, e) = r \o Append(q, e)
<1> SUFFICES ASSUME NEW e \in Events, NEW r \in Seq(Events), NEW q \in Seq(Events)
             PROVE  Append(r \o q, e) = r \o Append(q, e)
    OBVIOUS
<1>. QED OBVIOUS

\* Publish to one connection: the event is in the queue, or the connection is
\* marked for closing.
LEMMA OfferRow ==
    ASSUME TypeOK, NEW s \in Subscribers, NEW e \in Events
    PROVE  /\ Offer(s, e) \in Subscriber
           /\ Offer(s, e).phase = sub[s].phase
           /\ Offer(s, e).active = sub[s].active
           /\ Len(Offer(s, e).queue) <= QueueLimit
           /\ \/ Offer(s, e).done
              \/ /\ Offer(s, e).done = sub[s].done
                 /\ Offer(s, e).queue = Append(sub[s].queue, e)
<1>1. /\ sub[s] \in Subscriber /\ Len(sub[s].queue) \in Nat
      /\ Len(sub[s].queue) <= QueueLimit /\ QueueLimit \in Nat
    BY LimitsAssumption DEF TypeOK, Subscriber
<1>2. CASE Len(sub[s].queue) < QueueLimit
  <2> DEFINE q == Append(sub[s].queue, e)
             row == [sub[s] EXCEPT !.queue = q]
  <2>1. q \in Seq(Events) /\ Len(q) <= QueueLimit
    BY <1>1, <1>2 DEF Subscriber
  <2>2. Offer(s, e) = row /\ q = Append(sub[s].queue, e)
    BY <1>2 DEF Offer
  <2> HIDE DEF q
  <2>3. /\ row \in Subscriber /\ row.queue = q /\ row.phase = sub[s].phase
        /\ row.active = sub[s].active /\ row.done = sub[s].done
    BY <1>1, <2>1 DEF Subscriber
  <2>. QED BY <2>1, <2>2, <2>3
<1>3. CASE ~(Len(sub[s].queue) < QueueLimit)
  <2> DEFINE row == [sub[s] EXCEPT !.done = TRUE]
  <2>1. Offer(s, e) = row
    BY <1>3 DEF Offer
  <2>2. /\ row \in Subscriber /\ row.queue = sub[s].queue /\ row.phase = sub[s].phase
        /\ row.active = sub[s].active /\ row.done
    BY <1>1 DEF Subscriber
  <2>. QED BY <1>1, <2>1, <2>2
<1>. QED BY <1>2, <1>3

-----------------------------------------------------------------------------
(* The clients                                                             *)

ClientType ==
    /\ sub \in [Subscribers -> Subscriber]
    /\ \A s \in Subscribers : Len(sub[s].queue) <= QueueLimit
    /\ due \in [Subscribers -> Seq(Events)]
    /\ received \in [Subscribers -> Seq(Events)]

ClientInv == ClientType /\ QuietInv /\ NoSilentGap

\* One connection changes to another row and other histories.
LEMMA OneConnection ==
    ASSUME ClientInv, NEW s \in Subscribers,
           NEW row \in Subscriber, NEW d \in Seq(Events), NEW r \in Seq(Events),
           sub' = [sub EXCEPT ![s] = row],
           due' = [due EXCEPT ![s] = d],
           received' = [received EXCEPT ![s] = r],
           Len(row.queue) <= QueueLimit,
           row.phase # "open" => d = <<>> /\ r = <<>> /\ row.queue = <<>>,
           row.phase = "open" /\ row.active /\ ~row.done => d = r \o row.queue
    PROVE  ClientInv'
<1>1. \A t \in Subscribers :
         /\ sub'[t] = IF t = s THEN row ELSE sub[t]
         /\ due'[t] = IF t = s THEN d ELSE due[t]
         /\ received'[t] = IF t = s THEN r ELSE received[t]
    BY DEF ClientInv, ClientType
<1>2. ClientType'
    BY <1>1 DEF ClientInv, ClientType
<1>3. QuietInv'
    BY <1>1 DEF ClientInv, QuietInv
<1>4. ASSUME NEW t \in Subscribers, Listening(t)', ~sub'[t].done
      PROVE  due'[t] = received'[t] \o sub'[t].queue
  <2>1. CASE t = s
    BY <1>1, <1>4, <2>1 DEF Listening
  <2>2. CASE t # s
    <3>1. sub'[t] = sub[t] /\ due'[t] = due[t] /\ received'[t] = received[t]
      BY <1>1, <2>2
    <3>2. Listening(t) /\ ~sub[t].done
      BY <1>4, <3>1 DEF Listening
    <3>3. due[t] = received[t] \o sub[t].queue
      BY <3>2 DEF ClientInv, NoSilentGap
    <3>. QED BY <3>1, <3>3
  <2>. QED BY <2>1, <2>2
<1>. QED BY <1>2, <1>3, <1>4 DEF ClientInv, NoSilentGap, Listening

\* Publish reaches every active connection.
LEMMA PublishStep ==
    ASSUME TypeOK, ClientInv, NEW e \in Events, Publish(e)
    PROVE  ClientInv'
<1>1. ASSUME NEW s \in Subscribers
      PROVE  /\ sub'[s] \in Subscriber /\ Len(sub'[s].queue) <= QueueLimit
             /\ due'[s] \in Seq(Events) /\ received'[s] = received[s]
             /\ sub'[s].phase # "open" => due'[s] = <<>> /\ received'[s] = <<>>
                                          /\ sub'[s].queue = <<>>
             /\ sub'[s].phase = "open" /\ sub'[s].active /\ ~sub'[s].done
                   => due'[s] = received'[s] \o sub'[s].queue
  <2>0. /\ sub[s] \in Subscriber /\ due[s] \in Seq(Events)
        /\ received[s] \in Seq(Events) /\ sub[s].queue \in Seq(Events)
    BY DEF ClientInv, ClientType, Subscriber
  <2>1. CASE ~Listening(s)
    <3>1. sub'[s] = sub[s] /\ due'[s] = due[s] /\ received'[s] = received[s]
      BY <2>1 DEF Publish
    <3>. QED BY <2>0, <2>1, <3>1 DEF ClientInv, ClientType, QuietInv, Listening
  <2>2. CASE Listening(s)
    <3>1. sub'[s] = Offer(s, e) /\ due'[s] = Append(due[s], e) /\ received'[s] = received[s]
      BY <2>2 DEF Publish
    <3>2. Append(due[s], e) \in Seq(Events)
      BY <2>0
    <3>3. ASSUME ~Offer(s, e).done PROVE Append(due[s], e) = received[s] \o Offer(s, e).queue
      <4>1. ~sub[s].done /\ Offer(s, e).queue = Append(sub[s].queue, e)
        BY <3>3, OfferRow
      <4>2. due[s] = received[s] \o sub[s].queue
        BY <2>2, <4>1 DEF ClientInv, NoSilentGap
      <4>3. \A r, q \in Seq(Events) : Append(r \o q, e) = r \o Append(q, e)
        BY AppendWhole
      <4>. QED BY <2>0, <4>1, <4>2, <4>3
    <3>. QED BY <2>2, <3>1, <3>2, <3>3, OfferRow DEF Listening
  <2>. QED BY <2>1, <2>2
<1>2. /\ sub' = [s \in Subscribers |-> sub'[s]]
      /\ due' = [s \in Subscribers |-> due'[s]]
      /\ received' = received
    BY DEF Publish
<1>3. ClientType'
    BY <1>1, <1>2 DEF ClientInv, ClientType
<1>. QED BY <1>1, <1>3 DEF ClientInv, QuietInv, NoSilentGap, Listening

\* Connections leave the map.
LEMMA CloseStep ==
    ASSUME ClientInv, NEW S, Close(S)
    PROVE  ClientInv'
<1>1. Closed \in Subscriber /\ Closed.phase = "gone" /\ Closed.queue = <<>>
      /\ Len(Closed.queue) <= QueueLimit
    BY LimitsAssumption DEF Closed, Subscriber
<1>2. \A s \in Subscribers :
         /\ sub'[s] = IF s \in S THEN Closed ELSE sub[s]
         /\ due'[s] = IF s \in S THEN <<>> ELSE due[s]
         /\ received'[s] = IF s \in S THEN <<>> ELSE received[s]
    BY DEF Close
<1>3. ClientType'
    BY <1>1, <1>2 DEF ClientInv, ClientType, Close
<1>4. QuietInv'
    BY <1>1, <1>2 DEF ClientInv, QuietInv
<1>5. NoSilentGap'
    BY <1>1, <1>2 DEF ClientInv, NoSilentGap, Listening
<1>. QED BY <1>3, <1>4, <1>5 DEF ClientInv

\* Every step keeps the histories of the clients together.
LEMMA ClientStep == TypeOK /\ ClientInv /\ BatchInv /\ [Next]_vars => ClientInv'
<1> SUFFICES ASSUME TypeOK, ClientInv, BatchInv, [Next]_vars PROVE ClientInv'
    OBVIOUS
<1>a. ASSUME NEW s \in Subscribers
      PROVE  /\ sub[s] \in Subscriber /\ sub[s].queue \in Seq(Events)
             /\ due[s] \in Seq(Events) /\ received[s] \in Seq(Events)
             /\ Len(sub[s].queue) \in Nat /\ Len(sub[s].queue) <= QueueLimit
             /\ due = [due EXCEPT ![s] = due[s]]
             /\ received = [received EXCEPT ![s] = received[s]]
    BY DEF ClientInv, ClientType, Subscriber
<1>1. CASE UNCHANGED clientVars
    BY <1>1 DEF clientVars, ClientInv, ClientType, QuietInv, NoSilentGap, Listening
<1>2. CASE PublishNext
  <2>1. batch[1] \in Events /\ Head(batch) = batch[1]
    <3>1. batch[1] \in Ids /\ Head(batch) = batch[1]
      BY <1>2, TailOfQueue DEF PublishNext, TypeOK
    <3>. QED BY <3>1 DEF Ids, Events
  <2>. QED BY <1>2, <2>1, PublishStep DEF PublishNext
<1>3. CASE PublishStatus
  <2>1. 0 \in Events
    BY BoundsAssumption DEF Events
  <2>. QED BY <1>3, <2>1, PublishStep DEF PublishStatus
<1>4. ASSUME NEW s \in Subscribers, Add(s) PROVE ClientInv'
  <2> DEFINE row == [sub[s] EXCEPT !.phase = "open", !.active = TRUE]
  <2>1. /\ row \in Subscriber /\ row.phase = "open" /\ row.queue = sub[s].queue
        /\ sub[s].phase = "new"
    BY <1>4, <1>a DEF Add, Subscriber
  <2>2. sub' = [sub EXCEPT ![s] = row] /\ due' = due /\ received' = received
    BY <1>4 DEF Add
  <2> HIDE DEF row
  <2>3. due[s] = received[s] \o row.queue
    <3>1. due[s] = <<>> /\ received[s] = <<>> /\ row.queue = <<>>
      BY <2>1 DEF ClientInv, QuietInv
    <3>2. <<>> \o <<>> = <<>>
      OBVIOUS
    <3>. QED BY <3>1, <3>2
  <2>. QED BY <1>a, <2>1, <2>2, <2>3, OneConnection
<1>5. ASSUME NEW s \in Subscribers, Deliver(s) PROVE ClientInv'
  <2> DEFINE q == Tail(sub[s].queue)
             row == [sub[s] EXCEPT !.queue = q]
             r == IF sub[s].active THEN Append(received[s], Head(sub[s].queue)) ELSE received[s]
  <2>1. /\ sub' = [sub EXCEPT ![s] = row] /\ due' = due
        /\ received' = [received EXCEPT ![s] = r]
        /\ sub[s].phase = "open" /\ sub[s].queue # <<>>
    BY <1>5, <1>a DEF Deliver
  <2>2. q \in Seq(Events) /\ Len(q) <= QueueLimit
    BY <1>a, <2>1, TailOfQueue, LimitsAssumption
  <2>3. r \in Seq(Events)
    BY <1>a, <2>1, TailOfQueue
  <2>4. ASSUME sub[s].active, ~sub[s].done PROVE due[s] = r \o q
    <3>1. due[s] = received[s] \o sub[s].queue
      BY <2>1, <2>4 DEF ClientInv, NoSilentGap, Listening
    <3>2. r = Append(received[s], Head(sub[s].queue))
      BY <2>4
    <3>3. Append(received[s], Head(sub[s].queue)) \o Tail(sub[s].queue)
            = received[s] \o sub[s].queue
      <4>1. received[s] \in Seq(Events) /\ sub[s].queue \in Seq(Events) /\ sub[s].queue # <<>>
        BY <1>a, <2>1
      <4>. QED BY <4>1, MoveHead
    <3>. QED BY <3>1, <3>2, <3>3
  <2> HIDE DEF q, r
  <2>5. /\ row \in Subscriber /\ row.phase = "open" /\ row.queue = q
        /\ row.active = sub[s].active /\ row.done = sub[s].done
    BY <1>a, <2>1, <2>2 DEF Subscriber
  <2> HIDE DEF row
  <2>. QED BY <1>a, <2>1, <2>2, <2>3, <2>4, <2>5, OneConnection
<1>6. ASSUME NEW s \in Subscribers, Unsubscribe(s) PROVE ClientInv'
  <2> DEFINE row == [sub[s] EXCEPT !.active = FALSE]
  <2>1. /\ row \in Subscriber /\ row.phase = "open" /\ row.queue = sub[s].queue /\ ~row.active
    BY <1>6, <1>a DEF Unsubscribe, Subscriber
  <2>2. sub' = [sub EXCEPT ![s] = row] /\ due' = due /\ received' = received
    BY <1>6 DEF Unsubscribe
  <2> HIDE DEF row
  <2>. QED BY <1>a, <2>1, <2>2, OneConnection
<1>7. ASSUME NEW s \in Subscribers, Subscribe(s) PROVE ClientInv'
  <2> DEFINE row == [sub[s] EXCEPT !.active = TRUE]
             d == IF sub[s].active THEN due[s] ELSE received[s] \o sub[s].queue
  <2>1. /\ row \in Subscriber /\ row.phase = "open" /\ row.queue = sub[s].queue
        /\ row.done = sub[s].done /\ sub[s].phase = "open"
    BY <1>7, <1>a DEF Subscribe, Subscriber
  <2>2. /\ sub' = [sub EXCEPT ![s] = row] /\ due' = [due EXCEPT ![s] = d]
        /\ received' = received
    BY <1>7 DEF Subscribe
  <2>3. d \in Seq(Events)
    BY <1>a
  <2>4. ~sub[s].done => d = received[s] \o sub[s].queue
    BY <2>1 DEF ClientInv, NoSilentGap, Listening
  <2> HIDE DEF row, d
  <2>. QED BY <1>a, <2>1, <2>2, <2>3, <2>4, OneConnection
<1>8. ASSUME NEW s \in Subscribers, Remove(s) \/ ClientLeaves(s) PROVE ClientInv'
    BY <1>8, CloseStep DEF Remove, ClientLeaves
<1>9. CASE ApiCrash
    BY <1>9, CloseStep DEF ApiCrash
<1>10. ASSUME \/ InsertOutbox \/ PendingOutbox \/ MarkOutboxDelivered \/ MarkOutboxFails
              \/ \E i \in Ids : Commit(i) \/ Rollback(i) \/ PruneOutbox(i)
       PROVE  UNCHANGED clientVars
    BY <1>10 DEF InsertOutbox, PendingOutbox, MarkOutboxDelivered, MarkOutboxFails,
                 Commit, Rollback, PruneOutbox
<1>11. CASE UNCHANGED vars
    BY <1>1, <1>11 DEF vars
<1>. QED
    BY <1>1, <1>2, <1>3, <1>4, <1>5, <1>6, <1>7, <1>8, <1>9, <1>10, <1>11 DEF Next

-----------------------------------------------------------------------------
(* The outbox                                                              *)

RowStates == {"none", "inserted", "aborted", "pending", "delivered", "pruned"}

StoreType ==
    /\ outbox \in [Ids -> RowStates]
    /\ inserted \in 0..MaxEvents
    /\ batch \in Seq(Ids)
    /\ published \in BOOLEAN
    /\ times \in [Ids -> Nat]
    /\ failures \in 0..MaxFailures

StoreInv == StoreType /\ InsertInv /\ BatchInv /\ TimesInv

\* A row that is in no batch and was never published changes to another state.
LEMMA RowChange ==
    ASSUME StoreInv, NEW i \in Ids, NEW st \in RowStates,
           outbox[i] # "pending",
           outbox' = [outbox EXCEPT ![i] = st],
           UNCHANGED <<batch, published, times, failures>>,
           times[i] > 0 => st \in {"pending", "delivered", "pruned"},
           st \in {"delivered", "pruned"} => outbox[i] = "delivered",
           outbox[i] \in {"delivered", "pruned"} => st \in {"delivered", "pruned"}
    PROVE  BatchInv' /\ TimesInv' /\ outbox' \in [Ids -> RowStates]
<1>1. \A j \in Ids : outbox'[j] = IF j = i THEN st ELSE outbox[j]
    BY DEF StoreInv, StoreType
<1>2. BatchInv'
  <2>1. \A j \in 1..Len(batch) : batch[j] \in Ids /\ batch[j] # i
    BY DEF StoreInv, StoreType, BatchInv
  <2>. QED BY <1>1, <2>1 DEF StoreInv, BatchInv
<1>3. \A j \in Ids : Charged(j)' <=> Charged(j)
    BY <1>1 DEF Charged, Marked
<1>4. TimesInv'
    BY <1>1, <1>3 DEF StoreInv, TimesInv, Marked
<1>. QED BY <1>2, <1>4 DEF StoreInv, StoreType

\* The batch ends early: its head, if published, has been charged to a failure.
LEMMA BatchDropped ==
    ASSUME StoreInv, batch' = <<>>, published' = FALSE,
           failures' = failures + 1, failures < MaxFailures,
           UNCHANGED <<times, inserted>>,
           outbox' = [i \in Ids |-> outbox'[i]],
           \A i \in Ids : \/ outbox'[i] = outbox[i]
                          \/ outbox[i] = "inserted" /\ outbox'[i] = "aborted"
    PROVE  StoreInv'
<1>1. failures \in Nat /\ times \in [Ids -> Nat]
    BY BoundsAssumption DEF StoreInv, StoreType
<1>2. StoreType'
  <2>1. \A i \in Ids : outbox'[i] \in RowStates
    BY DEF StoreInv, StoreType, RowStates
  <2>2. <<>> \in Seq(Ids) /\ failures' \in 0..MaxFailures
    BY BoundsAssumption DEF StoreInv, StoreType
  <2>. QED BY <2>1, <2>2 DEF StoreInv, StoreType
<1>3. InsertInv' /\ BatchInv'
    BY DEF StoreInv, InsertInv, BatchInv
<1>4. TimesInv'
  <2>1. SUFFICES ASSUME NEW i \in Ids
                 PROVE  /\ times[i] > 0 => outbox'[i] \in {"pending", "delivered", "pruned"}
                        /\ Marked(i)' => times[i] > 0
                        /\ times[i] <= failures + 1
    BY <1>1 DEF TimesInv
  <2>. QED BY <2>1 DEF StoreInv, TimesInv, Marked
<1>. QED BY <1>2, <1>3, <1>4 DEF StoreInv

\* Every step keeps the outbox, the batch and the count of publications
\* together.
LEMMA StoreStep == StoreInv /\ [Next]_vars => StoreInv'
<1> SUFFICES ASSUME StoreInv, [Next]_vars PROVE StoreInv'
    OBVIOUS
<1>a. /\ outbox \in [Ids -> RowStates] /\ inserted \in Nat /\ inserted <= MaxEvents
      /\ batch \in Seq(Ids) /\ published \in BOOLEAN /\ times \in [Ids -> Nat]
      /\ failures \in Nat
    BY BoundsAssumption DEF StoreInv, StoreType
<1>b. ASSUME batch # <<>>
      PROVE  /\ batch[1] \in Ids /\ Head(batch) = batch[1] /\ 1 \in 1..Len(batch)
             /\ outbox[batch[1]] = "pending"
             /\ Tail(batch) \in Seq(Ids) /\ Len(Tail(batch)) = Len(batch) - 1
             /\ \A j \in 1..Len(Tail(batch)) :
                   /\ j + 1 \in 1..Len(batch)
                   /\ Tail(batch)[j] = batch[j + 1]
  <2>1. /\ Head(batch) \in Ids /\ Head(batch) = batch[1]
        /\ Tail(batch) \in Seq(Ids) /\ Len(Tail(batch)) = Len(batch) - 1
        /\ \A j \in 1..Len(batch) - 1 : Tail(batch)[j] = batch[j + 1]
    BY <1>a, <1>b, TailOfQueue
  <2>2. Len(batch) \in Nat /\ Len(batch) # 0
    BY <1>a, <1>b
  <2>. QED BY <2>1, <2>2 DEF StoreInv, BatchInv
<1>1. CASE UNCHANGED <<outbox, inserted, batch, published, times, failures>>
    BY <1>1 DEF StoreInv, StoreType, InsertInv, BatchInv, TimesInv, Charged, Marked
<1>2. CASE InsertOutbox
  <2>1. /\ inserted + 1 \in Ids /\ inserted' = inserted + 1
        /\ outbox[inserted + 1] = "none"
        /\ outbox' = [outbox EXCEPT ![inserted + 1] = "inserted"]
        /\ UNCHANGED <<batch, published, times, failures>>
    BY <1>2, <1>a, BoundsAssumption DEF InsertOutbox, drainVars, Ids, StoreInv, InsertInv
  <2>2. ~(times[inserted + 1] > 0) /\ "inserted" \in RowStates
    BY <2>1 DEF StoreInv, TimesInv, RowStates
  <2>3. BatchInv' /\ TimesInv' /\ outbox' \in [Ids -> RowStates]
    BY <2>1, <2>2, RowChange
  <2>4. InsertInv'
    BY <1>a, <2>1 DEF StoreInv, InsertInv, Ids
  <2>5. inserted' \in 0..MaxEvents
    BY <1>a, <2>1, BoundsAssumption DEF Ids
  <2>. QED BY <2>1, <2>3, <2>4, <2>5 DEF StoreInv, StoreType
<1>3. ASSUME NEW i \in Ids, Commit(i) \/ Rollback(i) \/ PruneOutbox(i) PROVE StoreInv'
  <2>1. PICK st \in RowStates :
           /\ outbox' = [outbox EXCEPT ![i] = st]
           /\ \/ outbox[i] = "inserted" /\ st \in {"pending", "aborted"}
              \/ outbox[i] = "delivered" /\ st = "pruned"
    BY <1>3 DEF Commit, Rollback, PruneOutbox, RowStates
  <2>2. UNCHANGED <<inserted, batch, published, times, failures>>
    BY <1>3 DEF Commit, Rollback, PruneOutbox, drainVars
  <2>3. outbox[i] = "inserted" => ~(times[i] > 0)
    BY DEF StoreInv, TimesInv
  <2>4. BatchInv' /\ TimesInv' /\ outbox' \in [Ids -> RowStates]
    BY <2>1, <2>2, <2>3, RowChange
  <2>5. InsertInv'
    BY <1>a, <2>1, <2>2 DEF StoreInv, InsertInv
  <2>. QED BY <2>2, <2>4, <2>5 DEF StoreInv, StoreType
<1>4. CASE PendingOutbox
  <2>1. /\ batch' = FirstIds(PendingIds) /\ PendingIds # {} /\ ~published
        /\ UNCHANGED <<outbox, inserted, published, times, failures>>
    BY <1>4 DEF PendingOutbox, storeVars, StoreInv, BatchInv
  <2>2. PendingIds \in SUBSET Ids
    BY DEF PendingIds
  <2>3. /\ batch' \in Seq(PendingIds)
        /\ \A j, k \in 1..Len(batch') : j < k => batch'[j] < batch'[k]
    BY <2>1, <2>2, FirstIdsOrdered
  <2>4. /\ batch' \in Seq(Ids) /\ Len(batch') \in Nat
        /\ \A j \in 1..Len(batch') : batch'[j] \in PendingIds
    BY <2>2, <2>3, Widen
  <2>5. BatchInv'
    <3>1. \A j \in 1..Len(batch') : batch'[j] \in Nat /\ outbox'[batch'[j]] = "pending"
      BY <2>1, <2>4 DEF PendingIds, Ids
    <3>2. \A j, k \in 1..Len(batch') : batch'[j] = batch'[k] => j = k
      BY <2>3, <2>4, <3>1
    <3>. QED BY <2>1, <3>1, <3>2 DEF BatchInv
  <2>6. TimesInv'
    <3>2. ~published /\ ~published' /\ outbox' = outbox
      BY <2>1
    <3>1. \A i \in Ids : (Charged(i)' <=> Charged(i)) /\ (Marked(i)' <=> Marked(i))
      BY <3>2 DEF Charged, Marked
    <3>. QED BY <2>1, <3>1 DEF StoreInv, TimesInv
  <2>. QED BY <2>1, <2>4, <2>5, <2>6 DEF StoreInv, StoreType, InsertInv
<1>5. CASE PublishNext
  <2> DEFINE h == batch[1]
             n == times[h] + 1
  <2>1. /\ batch # <<>> /\ ~published /\ published' = TRUE
        /\ times' = [times EXCEPT ![h] = n]
        /\ UNCHANGED <<outbox, inserted, batch, failures>>
    BY <1>5, <1>b DEF PublishNext, storeVars
  <2>2. /\ h \in Ids /\ outbox[h] = "pending" /\ ~Charged(h)
    BY <2>1, <1>b DEF Charged, Marked
  <2>3. n \in Nat /\ n > 0 /\ n <= failures + 1
    BY <1>a, <2>2 DEF StoreInv, TimesInv
  <2> HIDE DEF n, h
  <2>4. times' \in [Ids -> Nat] /\ \A i \in Ids : times'[i] = IF i = h THEN n ELSE times[i]
    BY <1>a, <2>1, <2>2, <2>3
  <2>5. BatchInv'
    BY <2>1, <2>2, <2>3, <2>4 DEF StoreInv, BatchInv, h
  <2>6. TimesInv'
    <3>1. SUFFICES ASSUME NEW i \in Ids
                   PROVE  /\ times'[i] > 0 => outbox[i] \in {"pending", "delivered", "pruned"}
                          /\ Marked(i) => times'[i] > 0
                          /\ times'[i] <= failures + 1
                          /\ ~Charged(i)' => times'[i] <= failures
      BY <2>1 DEF TimesInv, Marked
    <3>2. CASE i = h
      BY <2>1, <2>2, <2>3, <2>4, <3>2 DEF Charged, h
    <3>3. CASE i # h
      BY <2>1, <2>4, <3>3 DEF StoreInv, TimesInv, Charged, Marked
    <3>. QED BY <3>2, <3>3
  <2>. QED BY <2>1, <2>4, <2>5, <2>6 DEF StoreInv, StoreType, InsertInv
<1>6. CASE MarkOutboxDelivered
  <2> DEFINE h == batch[1]
  <2>1. /\ batch # <<>> /\ published /\ published' = FALSE
        /\ outbox' = [outbox EXCEPT ![h] = "delivered"] /\ batch' = Tail(batch)
        /\ times[h] > 0
        /\ UNCHANGED <<inserted, times, failures>>
    BY <1>6, <1>b DEF MarkOutboxDelivered, StoreInv, BatchInv
  <2>2. h \in Ids /\ outbox[h] = "pending"
    BY <2>1, <1>b
  <2>3. /\ outbox' \in [Ids -> RowStates]
        /\ \A i \in Ids : outbox'[i] = IF i = h THEN "delivered" ELSE outbox[i]
    BY <1>a, <2>1, <2>2 DEF RowStates
  <2>4. BatchInv'
    <3>1. \A j \in 1..Len(batch) : batch[j] \in Ids
      BY <1>a
    <3>2. \A j \in 1..Len(batch') :
             /\ j + 1 \in 1..Len(batch) /\ batch'[j] = batch[j + 1] /\ batch'[j] # h
      BY <1>a, <1>b, <2>1 DEF StoreInv, BatchInv
    <3>3. \A j \in 1..Len(batch') : outbox'[batch'[j]] = "pending"
      BY <2>3, <3>1, <3>2 DEF StoreInv, BatchInv
    <3>4. \A j, k \in 1..Len(batch') : batch'[j] = batch'[k] => j = k
      BY <1>a, <1>b, <2>1, <3>2 DEF StoreInv, BatchInv
    <3>. QED BY <2>1, <3>3, <3>4 DEF BatchInv
  <2>5. TimesInv'
    <3>1. SUFFICES ASSUME NEW i \in Ids
                   PROVE  /\ times[i] > 0 => outbox'[i] \in {"pending", "delivered", "pruned"}
                          /\ Marked(i)' => times[i] > 0
                          /\ times[i] <= failures + 1
                          /\ ~Charged(i)' => times[i] <= failures
      BY <2>1 DEF TimesInv
    <3>2. CASE i = h
      <4>1. Marked(i)' /\ Charged(i)' /\ outbox'[i] = "delivered"
        <5>1. outbox'[i] = "delivered"
          BY <2>2, <2>3, <3>2
        <5>. QED BY <5>1 DEF Charged, Marked
      <4>2. times[i] > 0 /\ times[i] <= failures + 1
        BY <2>1, <3>2 DEF StoreInv, TimesInv
      <4>. QED BY <4>1, <4>2
    <3>3. CASE i # h
      BY <2>1, <2>3, <3>3 DEF StoreInv, TimesInv, Charged, Marked
    <3>. QED BY <3>2, <3>3
  <2>6. InsertInv'
    BY <2>1, <2>2, <2>3 DEF StoreInv, InsertInv
  <2>. QED BY <1>b, <2>1, <2>3, <2>4, <2>5, <2>6 DEF StoreInv, StoreType
<1>7. CASE MarkOutboxFails
  <2>1. outbox = [i \in Ids |-> outbox[i]]
    BY <1>a
  <2>. QED BY <1>7, <2>1, BatchDropped DEF MarkOutboxFails, Fail, storeVars
<1>8. CASE ApiCrash
  <2>1. outbox' = [i \in Ids |-> outbox'[i]]
    BY <1>8 DEF ApiCrash
  <2>2. \A i \in Ids : \/ outbox'[i] = outbox[i]
                       \/ outbox[i] = "inserted" /\ outbox'[i] = "aborted"
    BY <1>8 DEF ApiCrash
  <2>. QED BY <1>8, <2>1, <2>2, BatchDropped DEF ApiCrash, Fail
<1>9. ASSUME \/ PublishStatus
             \/ \E s \in Subscribers : \/ Add(s) \/ Deliver(s) \/ Unsubscribe(s)
                                       \/ Subscribe(s) \/ Remove(s) \/ ClientLeaves(s)
             \/ UNCHANGED vars
      PROVE  UNCHANGED <<outbox, inserted, batch, published, times, failures>>
    BY <1>9 DEF PublishStatus, Add, Deliver, Unsubscribe, Subscribe, Remove, ClientLeaves,
                storeVars, drainVars, vars
<1>. QED BY <1>1, <1>2, <1>3, <1>4, <1>5, <1>6, <1>7, <1>8, <1>9 DEF Next

-----------------------------------------------------------------------------
Counters == statuses \in 0..MaxStatus /\ toggles \in 0..MaxToggles

\* The bounded counters stay within their bounds.
LEMMA CounterStep == Counters /\ [Next]_vars => Counters'
<1> SUFFICES ASSUME Counters, [Next]_vars PROVE Counters'
    OBVIOUS
<1> USE BoundsAssumption DEF Counters
<1>1. CASE PublishStatus
    BY <1>1 DEF PublishStatus
<1>2. ASSUME NEW s \in Subscribers, Unsubscribe(s) \/ Subscribe(s) PROVE Counters'
  <2>1. toggles < MaxToggles /\ toggles' = toggles + 1 /\ UNCHANGED statuses
    BY <1>2 DEF Unsubscribe, Subscribe
  <2>. QED BY <2>1
<1>3. ASSUME \/ InsertOutbox \/ PendingOutbox \/ PublishNext \/ MarkOutboxDelivered
             \/ MarkOutboxFails \/ ApiCrash \/ UNCHANGED vars
             \/ \E i \in Ids : Commit(i) \/ Rollback(i) \/ PruneOutbox(i)
             \/ \E s \in Subscribers : Add(s) \/ Deliver(s) \/ Remove(s) \/ ClientLeaves(s)
      PROVE  UNCHANGED <<statuses, toggles>>
    BY <1>3 DEF InsertOutbox, PendingOutbox, PublishNext, MarkOutboxDelivered, MarkOutboxFails,
                ApiCrash, Commit, Rollback, PruneOutbox, Add, Deliver, Remove, ClientLeaves, vars
<1>. QED BY <1>1, <1>2, <1>3 DEF Next

\* The invariant is the conjunction of its parts.
LEMMA Parts == IndInv <=> StoreInv /\ ClientInv /\ Counters
    BY DEF IndInv, StoreInv, ClientInv, Counters, TypeOK, StoreType, ClientType, RowStates

\* The inductive invariant holds in every reachable state.
THEOREM IndInvHolds == Spec => []IndInv
<1>1. Init => IndInv
  <2> SUFFICES ASSUME Init PROVE IndInv
    OBVIOUS
  <2>1. <<>> \in Seq(Ids) /\ <<>> \in Seq(Events) /\ Len(<<>>) = 0
    OBVIOUS
  <2>2. StoreInv
    <3>1. StoreType
      <4>1. outbox \in [Ids -> RowStates] /\ times \in [Ids -> Nat]
        BY DEF Init, RowStates
      <4>2. inserted \in 0..MaxEvents /\ failures \in 0..MaxFailures
        BY BoundsAssumption DEF Init
      <4>. QED BY <2>1, <4>1, <4>2 DEF Init, StoreType
    <3>. QED BY <3>1, BoundsAssumption
             DEF Init, StoreInv, InsertInv, BatchInv, TimesInv, Charged, Marked
  <2>3. ClientInv
    <3> DEFINE row == [phase |-> "new", active |-> FALSE, done |-> FALSE, queue |-> <<>>]
    <3>1. row \in Subscriber /\ row.phase = "new" /\ row.queue = <<>>
      BY <2>1 DEF Subscriber
    <3>2. /\ sub = [s \in Subscribers |-> row] /\ due = [s \in Subscribers |-> <<>>]
          /\ received = [s \in Subscribers |-> <<>>]
      BY DEF Init
    <3> HIDE DEF row
    <3>3. ClientType
      BY <2>1, <3>1, <3>2, LimitsAssumption DEF ClientType
    <3>. QED BY <3>1, <3>2, <3>3 DEF ClientInv, QuietInv, NoSilentGap, Listening
  <2>4. Counters
    BY BoundsAssumption DEF Init, Counters
  <2>. QED BY <2>2, <2>3, <2>4, Parts
<1>2. IndInv /\ [Next]_vars => IndInv'
  <2> SUFFICES ASSUME IndInv, [Next]_vars PROVE IndInv'
    OBVIOUS
  <2>1. TypeOK /\ BatchInv /\ StoreInv /\ ClientInv /\ Counters
    BY Parts DEF IndInv
  <2>2. StoreInv' /\ ClientInv' /\ Counters'
    BY <2>1, StoreStep, ClientStep, CounterStep
  <2>. QED BY <2>2
           DEF IndInv, StoreInv, ClientInv, Counters, TypeOK, StoreType, ClientType, RowStates
<1>. QED BY <1>1, <1>2, PTL DEF Spec

\* Outbox, batch and client connections keep their types; no queue exceeds
\* its capacity.
THEOREM TypeCorrect == Spec => []TypeOK
<1>1. IndInv => TypeOK
    BY DEF IndInv
<1>. QED BY <1>1, IndInvHolds, PTL

\* drainOutbox marks, and Prune deletes, only what was published before,
\* wherever the API crashes and in whatever order transactions commit.
THEOREM MarkedWasPublished == Spec => []DeliveredIsPublished
<1>1. IndInv => DeliveredIsPublished
    BY DEF IndInv, TimesInv, Marked, DeliveredIsPublished
<1>. QED BY <1>1, IndInvHolds, PTL

\* No entry of a transaction that has not committed is published, and an entry
\* is published again at most once per crash or failed update.
THEOREM RepeatsArePaidFor == Spec => []PublishedAgainAfterFailure
<1>1. IndInv => PublishedAgainAfterFailure
  <2> SUFFICES ASSUME IndInv PROVE PublishedAgainAfterFailure
    OBVIOUS
  <2>1. failures \in Nat /\ times \in [Ids -> Nat]
    BY BoundsAssumption DEF IndInv, TypeOK
  <2>. QED BY <2>1 DEF IndInv, TimesInv, PublishedAgainAfterFailure
<1>. QED BY <1>1, IndInvHolds, PTL

\* A connected and subscribed client is sent everything that is published, in
\* order, for every capacity of its queue.
THEOREM NoGap == Spec => []NoSilentGap
<1>1. IndInv => NoSilentGap
    BY DEF IndInv
<1>. QED BY <1>1, IndInvHolds, PTL
=============================================================================
