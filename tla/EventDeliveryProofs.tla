------------------------- MODULE EventDeliveryProofs -------------------------
(***************************************************************************)
(* Proofs about EventDelivery for every number of events, whatever they    *)
(* contain, and every number of failures.                                  *)
(***************************************************************************)
EXTENDS EventDelivery, Ordering

\* The event needs no further delivery.
Settled(e) == e \in lost \/ Done(e)

\* The worker takes events in the provider's order.
MemoryInv ==
    /\ \A i \in 1..Len(memory) : memory[i] <= emitted
    /\ \A i, j \in 1..Len(memory) : i < j => memory[i] < memory[j]

\* No two files have the same number, and what is in memory comes after what
\* is on disk (the head may be in both, after a failed sync).
SpoolInv ==
    /\ IsFiniteSet(spool)
    /\ \A x, y \in spool : x.seq = y.seq => x = y
    /\ \A x \in spool : x.ev <= emitted
    /\ \A x \in spool, i \in 1..Len(memory) : x.ev <= memory[i]

\* Whatever precedes the event of a file and is not settled is in a file with
\* a smaller number.
SpoolOrder ==
    \A x \in spool : \A f \in Events :
        f < x.ev => \/ Settled(f)
                    \/ \E y \in spool : y.ev = f /\ y.seq < x.seq

DiskInv == MemoryInv /\ SpoolInv /\ SpoolOrder /\ NoEventLost

\* What a session has sent stays in the spool until its acknowledgement has
\* been handled, and the hub that has returned has nothing left to process.
WireKept ==
    /\ sent \subseteq spool
    /\ \A k \in 1..Len(toApi) : toApi[k] \in sent
    /\ \A k \in 1..Len(toWorker) : toWorker[k] \in sent
    /\ acking # NoEntry => acking \in sent
    /\ ~apiUp => acking = NoEntry /\ toApi = <<>>

\* An event is under way in one place: to the hub, in the hub, or back.
WireOnce ==
    /\ \A i, j \in 1..Len(toApi) : toApi[i] = toApi[j] => i = j
    /\ \A i, j \in 1..Len(toWorker) : toWorker[i] = toWorker[j] => i = j
    /\ \A i \in 1..Len(toApi), j \in 1..Len(toWorker) : toApi[i] # toWorker[j]
    /\ acking # NoEntry => /\ \A i \in 1..Len(toApi) : toApi[i] # acking
                           /\ \A i \in 1..Len(toWorker) : toWorker[i] # acking

KeptInv == WireKept /\ WireOnce

\* Whatever precedes an event under way and is not settled is under way
\* before it.
WireOrder ==
    \A k \in 1..Len(toApi) : \A f \in Events :
        f < toApi[k].ev => \/ Settled(f)
                           \/ \E j \in 1..Len(toApi) : j < k /\ toApi[j].ev = f

\* While both ends are up, what the session has sent is under way or done.
SentInv ==
    workerUp /\ apiUp =>
        \A y \in sent : Done(y.ev) \/ \E k \in 1..Len(toApi) : toApi[k] = y

\* The hub acknowledges what it has done.
AckInv == acking # NoEntry => Done(acking.ev)

WireInv == WireOrder /\ SentInv /\ AckInv /\ AcknowledgedIsStored

\* When an event was announced, everything before it was settled.
AnnounceOrder ==
    \A i \in 1..Len(announced) : \E e \in Events :
        /\ ContentOf[e] = announced[i]
        /\ \A f \in Events : f < e => Settled(f)

AnnounceInv == AnnouncedOnce /\ AnnounceOrder /\ AnnouncedInOrder

IndInv ==
    /\ TypeOK
    /\ DiskInv
    /\ KeptInv
    /\ WireInv
    /\ AnnounceInv

-----------------------------------------------------------------------------
(* Operators                                                               *)

\* What is left of a queue when its end is cut off.
LEMMA PrefixOfQueue ==
    ASSUME NEW T, NEW q \in Seq(T), NEW p \in Prefixes(q)
    PROVE  /\ p \in Seq(T) /\ Len(p) \in 0..Len(q)
           /\ \A j \in 1..Len(p) : p[j] = q[j]
<1>1. PICK n \in 0..Len(q) : p = SubSeq(q, 1, n)
    BY DEF Prefixes
<1>2. n \in Nat /\ n <= Len(q) /\ Len(q) \in Nat
    BY <1>1
<1>. QED BY <1>1, <1>2

\* A spool is a finite set of files with distinct numbers.
IsSpool(S) ==
    /\ S \subseteq Entries
    /\ IsFiniteSet(S)
    /\ \A x, y \in S : x.seq = y.seq => x = y

\* nextSequenceLocked returns a number above all those in use.
LEMMA NextSequenceAbove ==
    ASSUME NEW S, IsSpool(S)
    PROVE  NextSequence(S) \in Nat /\ \A x \in S : x.seq < NextSequence(S)
<1>1. CASE S = {}
    BY <1>1 DEF NextSequence
<1>2. CASE S # {}
  <2> DEFINE f == [x \in S |-> x.seq]
             N == {x.seq : x \in S}
             top == CHOOSE n \in N : \A x \in S : x.seq <= n
  <2>1. f \in [S -> Nat] /\ \A x, y \in S : f[x] = f[y] => x = y
    BY DEF IsSpool, Entries
  <2>2. \A x \in S : f[x] = x.seq
    OBVIOUS
  <2> HIDE DEF f
  <2>3. PICK z \in S : \A x \in S : f[x] <= f[z]
    BY <1>2, <2>1, LargestElement DEF IsSpool
  <2>4. z.seq \in N /\ \A x \in S : x.seq <= z.seq
    BY <2>2, <2>3
  <2>5. top \in N /\ \A x \in S : x.seq <= top
    BY <2>4
  <2>6. N \subseteq Nat
    BY DEF IsSpool, Entries
  <2>7. NextSequence(S) = 1 + top
    BY <1>2 DEF NextSequence
  <2> HIDE DEF top
  <2>8. \A x \in S : x.seq \in Nat
    BY DEF IsSpool, Entries
  <2>. QED BY <2>5, <2>6, <2>7, <2>8
<1>. QED BY <1>1, <1>2

Sorted(S, s) ==
    \A i, j \in 1..Cardinality(S) : i < j => s[i] # s[j] /\ s[i].seq <= s[j].seq

\* Pending returns every file once, in the order of the numbers.
LEMMA PendingSorted ==
    ASSUME NEW S, IsSpool(S)
    PROVE  /\ Pending(S) \in Seq(S) /\ Len(Pending(S)) = Cardinality(S)
           /\ Cardinality(S) \in Nat
           /\ \A x \in S : \E i \in 1..Cardinality(S) : Pending(S)[i] = x
           /\ \A i, j \in 1..Cardinality(S) : Pending(S)[i].seq < Pending(S)[j].seq => i < j
           /\ \A i, j \in 1..Cardinality(S) : Pending(S)[i] = Pending(S)[j] => i = j
<1> DEFINE f == [x \in S |-> x.seq]
           n == Cardinality(S)
           B(k) == CHOOSE x \in S : Rank(S, f, x) = k - 1
           w == [k \in 1..n |-> B(k)]
<1>1. n \in Nat /\ IsFiniteSet(S)
    BY FS_CardinalityType DEF IsSpool
<1>2. f \in [S -> Nat] /\ (\A x, y \in S : f[x] = f[y] => x = y) /\ (\A x \in S : f[x] = x.seq)
    BY DEF IsSpool, Entries
<1> HIDE DEF f
<1>3. ASSUME NEW k \in 1..n PROVE B(k) \in S /\ Rank(S, f, B(k)) = k - 1
  <2>1. k - 1 \in 0..Cardinality(S) - 1
    BY <1>1
  <2>2. \E x \in S : Rank(S, f, x) = k - 1
    BY <1>1, <1>2, <2>1, RankExists
  <2>. QED BY <2>2
<1> HIDE DEF B
<1>4. w \in [1..n -> S]
    BY <1>3
<1>5. Sorted(S, w)
  <2>1. SUFFICES ASSUME NEW i \in 1..n, NEW j \in 1..n, i < j
                 PROVE  w[i] # w[j] /\ w[i].seq <= w[j].seq
    BY DEF Sorted
  <2>2. /\ w[i] \in S /\ w[j] \in S
        /\ Rank(S, f, w[i]) = i - 1 /\ Rank(S, f, w[j]) = j - 1
    BY <1>3
  <2> HIDE DEF w
  <2>3. Rank(S, f, w[i]) < Rank(S, f, w[j]) /\ Rank(S, f, w[i]) \in Nat
        /\ Rank(S, f, w[j]) \in Nat
    BY <1>1, <2>1, <2>2
  <2>4. ~(f[w[j]] < f[w[i]])
    BY <1>1, <1>2, <2>2, <2>3, RankMonotone
  <2>. QED BY <1>2, <2>2, <2>3, <2>4
<1> HIDE DEF w
<1>6. Pending(S) \in [1..n -> S] /\ Sorted(S, Pending(S))
  <2>1. Pending(S) = CHOOSE s \in [1..n -> S] : Sorted(S, s)
    BY DEF Pending, Sorted
  <2>. QED BY <1>4, <1>5, <2>1
<1> DEFINE P == Pending(S)
<1> HIDE DEF P
<1>7. P \in [1..n -> S] /\ Sorted(S, P)
    BY <1>6 DEF P
<1>8. P \in Seq(S) /\ Len(P) = n
    BY <1>1, <1>7
<1>9. \A x \in S : \E i \in 1..n : P[i] = x
  <2>1. P \in Injection(1..n, S)
    BY <1>1, <1>7 DEF Injection, IsInjective, Sorted
  <2>2. IsFiniteSet(1..n) /\ Cardinality(1..n) = n
    BY <1>1, FS_Interval
  <2>3. P \in Surjection(1..n, S)
    BY <1>1, <2>1, <2>2, FS_Injection
  <2>. QED BY <2>3 DEF Surjection
<1>10. ASSUME NEW i \in 1..n, NEW j \in 1..n, P[i].seq < P[j].seq PROVE i < j
  <2>1. P[i].seq \in Nat /\ P[j].seq \in Nat
    BY <1>7 DEF IsSpool, Entries
  <2>2. ~(j < i) /\ i # j
    BY <1>7, <1>10, <2>1 DEF Sorted
  <2>. QED BY <1>1, <2>2
<1>11. \A i, j \in 1..n : P[i] = P[j] => i = j
    BY <1>1, <1>7 DEF Sorted
<1>. QED BY <1>1, <1>8, <1>9, <1>10, <1>11 DEF P

-----------------------------------------------------------------------------
(* Types                                                                   *)

\* Every step keeps the type invariant, if the spool is one.
LEMMA TypeStep == TypeOK /\ IsSpool(spool) /\ [Next]_vars => TypeOK'
<1> SUFFICES ASSUME TypeOK, IsSpool(spool), [Next]_vars PROVE TypeOK'
    OBVIOUS
<1>a. \A S \in SUBSET spool : IsSpool(S)
    BY FS_Subset DEF IsSpool
<1>b. ASSUME Fail PROVE failures' \in 0..MaxFailures
    BY <1>b, MaxFailuresAssumption DEF Fail, TypeOK
<1>c. ASSUME memory # <<>> PROVE Head(memory) \in Events /\ Tail(memory) \in Seq(Events)
    BY <1>c, TailOfQueue DEF TypeOK
<1>d. ASSUME toApi # <<>> PROVE Head(toApi) \in Entries /\ Tail(toApi) \in Seq(Entries)
    BY <1>d, TailOfQueue DEF TypeOK
<1>e. [seq |-> NextSequence(spool), ev |-> Head(memory)] \in Entries \/ memory = <<>>
  <2>1. NextSequence(spool) \in Nat
    BY NextSequenceAbove
  <2>. QED BY <1>c, <2>1 DEF Entries
<1>f. ASSUME NEW S \in SUBSET spool PROVE Pending(S) \in Seq(Entries)
  <2>1. Pending(S) \in Seq(S)
    BY <1>a, PendingSorted
  <2>2. S \subseteq Entries
    BY DEF IsSpool
  <2>. QED BY <2>1, <2>2
<1>1. CASE Emit
  <2>1. emitted + 1 \in Events /\ emitted + 1 \in 0..NEvents
    <3>1. load.events \in 0..NEvents
      BY LoadAssumption DEF TypeOK
    <3>. QED BY <1>1, <3>1, NEventsAssumption DEF Emit, TypeOK, Events
  <2>2. Append(memory, emitted + 1) \in Seq(Events)
    BY <2>1 DEF TypeOK
  <2>. QED BY <1>1, <2>1, <2>2 DEF Emit, TypeOK, linkVars, apiVars
<1>2. CASE SpoolAppend
    BY <1>2, <1>c, <1>e DEF SpoolAppend, TypeOK, linkVars, apiVars
<1>3. CASE SpoolAppendUnsynced
    BY <1>3, <1>b, <1>e DEF SpoolAppendUnsynced, TypeOK, linkVars, apiVars
<1>4. CASE Connect
  <2>1. Pending(spool) \in Seq(Entries) /\ <<>> \in Seq(Entries)
    BY <1>f
  <2>. QED BY <1>4, <2>1 DEF Connect, TypeOK, apiVars
<1>5. CASE SendPending
  <2>1. Pending(spool \ sent) \in Seq(Entries)
    BY <1>f
  <2>2. toApi \o Pending(spool \ sent) \in Seq(Entries)
    BY <2>1 DEF TypeOK
  <2>. QED BY <1>5, <2>2 DEF SendPending, TypeOK, apiVars
<1>6. CASE HandleAck
  <2>1. Tail(toWorker) \in Seq(Entries)
    BY <1>6, TailOfQueue DEF HandleAck, TypeOK
  <2>. QED BY <1>6, <2>1 DEF HandleAck, TypeOK, apiVars
<1>7. CASE IngestNew
  <2>1. toApi # <<>> /\ ContentOf[Head(toApi).ev] \in Messages
    BY <1>7 DEF IngestNew, HubReady, IsMessage
  <2>2. announced' \in Seq(Messages) /\ rows' \in SUBSET Messages
    BY <1>7, <2>1 DEF IngestNew, TypeOK
  <2>3. unread' \in Nat
    BY <1>7 DEF IngestNew, TypeOK
  <2>4. acking' \in Entries /\ toApi' \in Seq(Entries)
    BY <1>7, <1>d, <2>1 DEF IngestNew
  <2>. QED BY <1>7, <2>2, <2>3, <2>4 DEF IngestNew, TypeOK, workerVars
<1>8. CASE IngestDuplicate
  <2>1. acking' \in Entries /\ toApi' \in Seq(Entries)
    BY <1>8, <1>d DEF IngestDuplicate, HubReady
  <2>. QED BY <1>8, <2>1 DEF IngestDuplicate, TypeOK, workerVars
<1>9. ASSUME NEW m \in Messages, CacheMessage(m) PROVE TypeOK'
    BY <1>9 DEF CacheMessage, TypeOK, workerVars, linkVars
<1>10. CASE ApplyStatus
  <2>1. acking' \in Entries /\ toApi' \in Seq(Entries) /\ Head(toApi).ev \in Events
    BY <1>10, <1>d DEF ApplyStatus, HubReady, Entries
  <2>2. applied' \in SUBSET Events
    BY <1>10, <2>1 DEF ApplyStatus, TypeOK
  <2>. QED BY <1>10, <2>1, <2>2 DEF ApplyStatus, TypeOK, workerVars
<1>11. ASSUME HubReturns, failures' \in 0..MaxFailures PROVE TypeOK'
  <2>1. toWorker' \in Seq(Entries) /\ <<>> \in Seq(Entries)
    BY <1>11, PrefixOfQueue DEF HubReturns, TypeOK
  <2>. QED BY <1>11, <2>1 DEF HubReturns, TypeOK, workerVars
<1>12. CASE RejectStatus \/ HubFails \/ HubNotices
    BY <1>12, <1>11, <1>b DEF RejectStatus, HubFails, HubNotices, TypeOK
<1>13. CASE SendAck
  <2>1. Append(toWorker, acking) \in Seq(Entries)
    BY <1>13 DEF SendAck, TypeOK
  <2>. QED BY <1>13, <2>1 DEF SendAck, TypeOK, workerVars
<1>14. ASSUME WorkerGone, failures' \in 0..MaxFailures, UNCHANGED <<workerVars, apiUp, apiVars>>
       PROVE  TypeOK'
  <2>1. toApi' \in Seq(Entries) /\ <<>> \in Seq(Entries)
    BY <1>14, PrefixOfQueue DEF WorkerGone, TypeOK
  <2>. QED BY <1>14, <2>1 DEF WorkerGone, TypeOK, workerVars, apiVars
<1>15. CASE SessionFails \/ SessionNotices
    BY <1>15, <1>14, <1>b DEF SessionFails, SessionNotices, TypeOK
<1>16. CASE WorkerCrash
  <2>1. /\ toApi' \in Seq(Entries) /\ <<>> \in Seq(Entries) /\ <<>> \in Seq(Events)
    BY <1>16, PrefixOfQueue DEF WorkerCrash, TypeOK
  <2>2. lost' \in SUBSET Events
    BY <1>16 DEF WorkerCrash, TypeOK
  <2>. QED BY <1>16, <1>b, <2>1, <2>2 DEF WorkerCrash, TypeOK, apiVars
<1>17. CASE UNCHANGED vars
    BY <1>17 DEF vars, workerVars, linkVars, apiVars, TypeOK
<1>18. ASSUME NEW M \in SUBSET Messages, Prune(M) PROVE TypeOK'
    BY <1>18 DEF Prune, TypeOK, workerVars, linkVars
<1>. QED
    BY <1>1, <1>2, <1>3, <1>4, <1>5, <1>6, <1>7, <1>8, <1>9, <1>10, <1>12, <1>13,
       <1>15, <1>16, <1>17, <1>18 DEF Next

\* Statuses and losses are never taken back, rows only by pruning.
LEMMA Growth ==
    [Next]_vars => /\ rows \cup pruned \subseteq rows' \cup pruned'
                   /\ pruned \subseteq pruned'
                   /\ applied \subseteq applied'
                   /\ lost \subseteq lost'
<1> SUFFICES ASSUME [Next]_vars
             PROVE  /\ rows \cup pruned \subseteq rows' \cup pruned'
                    /\ pruned \subseteq pruned'
                    /\ applied \subseteq applied'
                    /\ lost \subseteq lost'
    OBVIOUS
<1> USE DEF vars, workerVars, linkVars, apiVars
<1>1. CASE Emit \/ SpoolAppend \/ SpoolAppendUnsynced \/ Connect \/ SendPending \/ HandleAck
    BY <1>1 DEF Emit, SpoolAppend, SpoolAppendUnsynced, Connect, SendPending, HandleAck
<1>2. CASE \/ IngestNew \/ IngestDuplicate \/ ApplyStatus \/ SendAck
           \/ \E m \in Messages : CacheMessage(m)
           \/ \E M \in SUBSET Messages : Prune(M)
    BY <1>2 DEF IngestNew, IngestDuplicate, ApplyStatus, SendAck, CacheMessage, Prune
<1>3. CASE RejectStatus \/ HubFails \/ HubNotices \/ SessionFails \/ SessionNotices
           \/ WorkerCrash \/ UNCHANGED vars
    BY <1>3 DEF RejectStatus, HubFails, HubNotices, HubReturns, SessionFails,
                SessionNotices, WorkerGone, WorkerCrash
<1>. QED BY <1>1, <1>2, <1>3 DEF Next

\* What is lost stays lost, what is done stays done.
LEMMA Monotone ==
    [Next]_vars => \A f : (Done(f) => Done(f)') /\ (Settled(f) => Settled(f)')
    BY Growth DEF Done, Settled, Stored, IsMessage

-----------------------------------------------------------------------------
(* Memory and spool                                                        *)

\* A file is written for the head of the memory, which may stay in memory.
LEMMA AppendStep ==
    ASSUME TypeOK, DiskInv, memory # <<>>,
           spool' = spool \cup {[seq |-> NextSequence(spool), ev |-> Head(memory)]},
           memory' = memory \/ memory' = Tail(memory),
           UNCHANGED <<emitted, lost, rows, pruned, applied>>
    PROVE  DiskInv'
<1> DEFINE x == [seq |-> NextSequence(spool), ev |-> Head(memory)]
           h == Head(memory)
<1>1. IsSpool(spool)
    BY DEF IsSpool, TypeOK, DiskInv, SpoolInv
<1>2. x.ev = h /\ x.seq \in Nat /\ \A y \in spool : y.seq < x.seq /\ y.seq \in Nat
    BY <1>1, NextSequenceAbove DEF TypeOK, Entries
<1>3. spool' = spool \cup {x}
    OBVIOUS
<1> HIDE DEF x
<1>4. /\ h \in Events /\ h = memory[1] /\ 1 \in 1..Len(memory)
      /\ Len(memory) \in Nat
      /\ \A j \in 1..Len(memory) : memory[j] \in Events
    BY TailOfQueue DEF TypeOK
<1>5. /\ Len(memory') \in Nat
      /\ \A j \in 1..Len(memory') : \E k \in 1..Len(memory) :
            j <= k /\ memory'[j] = memory[k] /\ memory'[j] \in Events
      /\ \A i, j \in 1..Len(memory') : i < j => memory'[i] < memory'[j]
  <2>1. CASE memory' = memory
    BY <1>4, <2>1 DEF DiskInv, MemoryInv
  <2>2. CASE memory' = Tail(memory)
    <3>1. /\ Len(memory') = Len(memory) - 1
          /\ \A j \in 1..Len(memory) - 1 : memory'[j] = memory[j + 1]
      BY <2>2, TailOfQueue DEF TypeOK
    <3>2. \A j \in 1..Len(memory') : j + 1 \in 1..Len(memory)
      BY <1>4, <3>1
    <3>3. \A j \in 1..Len(memory') : \E k \in 1..Len(memory) :
             j <= k /\ memory'[j] = memory[k] /\ memory'[j] \in Events
      <4>1. ASSUME NEW j \in 1..Len(memory')
            PROVE  j <= j + 1 /\ memory'[j] = memory[j + 1] /\ memory'[j] \in Events
        <5>1. memory'[j] = memory[j + 1] /\ j <= j + 1
          BY <3>1
        <5>. QED BY <1>4, <3>2, <5>1
      <4>. QED BY <3>2, <4>1
    <3>4. ASSUME NEW i \in 1..Len(memory'), NEW j \in 1..Len(memory'), i < j
          PROVE  memory'[i] < memory'[j]
      <4>1. memory'[i] = memory[i + 1] /\ memory'[j] = memory[j + 1] /\ i + 1 < j + 1
        BY <3>1, <3>4
      <4>. QED BY <3>2, <4>1 DEF DiskInv, MemoryInv
    <3>. QED BY <1>4, <3>1, <3>3, <3>4
  <2>. QED BY <2>1, <2>2
<1>6. Events \subseteq Nat /\ emitted \in Nat /\ h <= emitted
    BY <1>4, NEventsAssumption DEF Events, TypeOK, DiskInv, MemoryInv
<1>6a. h \in Nat /\ \A j \in 1..Len(memory) : memory[j] \in Nat
    BY <1>4, <1>6
<1>7. \A j \in 1..Len(memory) : h <= memory[j]
  <2>1. ASSUME NEW j \in 1..Len(memory) PROVE h <= memory[j]
    <3>1. CASE j = 1
      BY <1>4, <1>6a, <3>1
    <3>2. CASE 1 < j
      BY <1>4, <1>6a, <3>2 DEF DiskInv, MemoryInv
    <3>. QED BY <1>4, <3>1, <3>2
  <2>. QED BY <2>1
<1>8. MemoryInv'
    BY <1>5 DEF DiskInv, MemoryInv
<1>9. SpoolInv'
  <2>1. IsFiniteSet(spool')
    BY <1>1, <1>3, FS_AddElement DEF IsSpool
  <2>2. \A y, z \in spool' : y.seq = z.seq => y = z
    BY <1>2, <1>3 DEF DiskInv, SpoolInv
  <2>3. \A y \in spool' : y.ev <= emitted
    BY <1>2, <1>3, <1>6 DEF DiskInv, SpoolInv
  <2>4. \A y \in spool', i \in 1..Len(memory') : y.ev <= memory'[i]
    BY <1>2, <1>3, <1>5, <1>7 DEF DiskInv, SpoolInv
  <2>. QED BY <2>1, <2>2, <2>3, <2>4 DEF SpoolInv
<1>10. \A e : (Done(e)' <=> Done(e)) /\ (Settled(e)' <=> Settled(e)) /\ (Held(e) => Held(e)')
    BY <1>3 DEF Done, Settled, Stored, Held
<1>11. SpoolOrder'
  <2>1. SUFFICES ASSUME NEW y \in spool', NEW f \in Events, f < y.ev, ~Settled(f)
                 PROVE  \E z \in spool' : z.ev = f /\ z.seq < y.seq
    BY <1>10 DEF SpoolOrder
  <2>2. CASE y \in spool
    BY <1>3, <2>1, <2>2 DEF DiskInv, SpoolOrder
  <2>3. CASE y = x
    <3>1. f < h /\ f \in 1..emitted
      BY <1>2, <1>4, <1>6, <2>1, <2>3 DEF Events
    <3>2. \A j \in 1..Len(memory) : memory[j] # f
      BY <1>6a, <1>7, <3>1
    <3>3. PICK z \in spool : z.ev = f
      BY <2>1, <3>1, <3>2 DEF DiskInv, NoEventLost, Settled, Held
    <3>. QED BY <1>2, <1>3, <2>3, <3>3
  <2>. QED BY <1>3, <2>1, <2>2, <2>3
<1>12. NoEventLost'
  <2>1. SUFFICES ASSUME NEW e \in 1..emitted
                 PROVE  \/ \E i \in 1..Len(memory') : memory'[i] = e
                        \/ e \in lost
                        \/ Held(e)'
                        \/ Done(e)'
    BY DEF NoEventLost
  <2>2. ASSUME NEW i \in 1..Len(memory), memory[i] = e
        PROVE  Held(e)' \/ \E j \in 1..Len(memory') : memory'[j] = e
    <3>1. CASE i = 1
      <4>1. x \in spool' /\ x.ev = e
        BY <1>2, <1>3, <1>4, <2>2, <3>1
      <4>. QED BY <4>1 DEF Held
    <3>2. CASE memory' = memory
      BY <2>2, <3>2
    <3>3. CASE i # 1 /\ memory' = Tail(memory)
      <4>1. /\ Len(memory') = Len(memory) - 1
            /\ \A j \in 1..Len(memory) - 1 : memory'[j] = memory[j + 1]
        BY <3>3, TailOfQueue DEF TypeOK
      <4>2. i - 1 \in 1..Len(memory') /\ memory'[i - 1] = memory[i]
        BY <1>4, <3>3, <4>1
      <4>. QED BY <2>2, <4>2
    <3>. QED BY <3>1, <3>2, <3>3
  <2>. QED BY <1>10, <2>1, <2>2 DEF DiskInv, NoEventLost
<1>. QED BY <1>8, <1>9, <1>11, <1>12 DEF DiskInv

\* Every step keeps events in memory and spool in order and loses none.
LEMMA DiskStep == TypeOK /\ DiskInv /\ AcknowledgedIsStored /\ [Next]_vars => DiskInv'
<1> SUFFICES ASSUME TypeOK, DiskInv, AcknowledgedIsStored, [Next]_vars PROVE DiskInv'
    OBVIOUS
<1>a. \A f : (Done(f) => Done(f)') /\ (Settled(f) => Settled(f)')
    BY Monotone
<1>b. /\ Events \subseteq Nat /\ emitted \in Nat /\ Len(memory) \in Nat
      /\ \A i \in 1..Len(memory) : memory[i] \in Events
      /\ \A x \in spool : x.ev \in Events
    BY NEventsAssumption DEF Events, TypeOK, Entries
<1>c. (\A i \in 1..Len(memory) : memory[i] \in Nat) /\ (\A x \in spool : x.ev \in Nat)
    BY <1>b
<1>1. CASE UNCHANGED <<emitted, memory, spool, lost>>
  <2>1. \A e : Held(e) => Held(e)'
    BY <1>1 DEF Held
  <2>. QED BY <1>1, <1>a, <2>1 DEF DiskInv, MemoryInv, SpoolInv, SpoolOrder, NoEventLost
<1>2. CASE Emit
  <2>1. /\ emitted' = emitted + 1 /\ memory' = Append(memory, emitted + 1)
        /\ UNCHANGED <<spool, lost>>
    BY <1>2 DEF Emit
  <2>2. /\ Len(memory') = Len(memory) + 1
        /\ memory'[Len(memory) + 1] = emitted + 1
        /\ \A i \in 1..Len(memory) : memory'[i] = memory[i] /\ i \in 1..Len(memory')
    BY <2>1, <1>b DEF TypeOK
  <2>3. \A i \in 1..Len(memory') : i \in 1..Len(memory) \/ i = Len(memory) + 1
    BY <1>b, <2>2
  <2>4. MemoryInv'
    <3>1. \A i \in 1..Len(memory) : memory[i] <= emitted
      BY DEF DiskInv, MemoryInv
    <3>2. \A i \in 1..Len(memory') : memory'[i] <= emitted'
      BY <1>b, <1>c, <2>1, <2>2, <2>3, <3>1
    <3>3. \A i, j \in 1..Len(memory') : i < j => memory'[i] < memory'[j]
      <4>1. SUFFICES ASSUME NEW i \in 1..Len(memory'), NEW j \in 1..Len(memory'), i < j
                     PROVE  memory'[i] < memory'[j]
        OBVIOUS
      <4>2. i \in 1..Len(memory) /\ memory'[i] = memory[i] /\ memory[i] <= emitted
        BY <1>b, <2>2, <2>3, <3>1, <4>1
      <4>3. CASE j \in 1..Len(memory)
        BY <2>2, <4>1, <4>2, <4>3 DEF DiskInv, MemoryInv
      <4>4. CASE j = Len(memory) + 1
        BY <1>b, <1>c, <2>2, <4>2, <4>4
      <4>. QED BY <2>3, <4>3, <4>4
    <3>. QED BY <3>2, <3>3 DEF MemoryInv
  <2>5. SpoolInv'
    <3>1. \A x \in spool : x.ev <= emitted /\ x.ev <= emitted + 1
      BY <1>b, <1>c DEF DiskInv, SpoolInv
    <3>2. \A x \in spool, i \in 1..Len(memory') : x.ev <= memory'[i]
      BY <2>2, <2>3, <3>1 DEF DiskInv, SpoolInv
    <3>. QED BY <2>1, <3>1, <3>2 DEF DiskInv, SpoolInv
  <2>6. SpoolOrder'
    BY <1>a, <2>1 DEF DiskInv, SpoolOrder
  <2>7. NoEventLost'
    <3>1. SUFFICES ASSUME NEW e \in 1..emitted'
                   PROVE  \/ \E i \in 1..Len(memory') : memory'[i] = e
                          \/ e \in lost' \/ Held(e)' \/ Done(e)'
      BY DEF NoEventLost
    <3>2. e \in 1..emitted \/ e = emitted + 1
      BY <1>b, <2>1
    <3>3. Held(e) => Held(e)'
      BY <2>1 DEF Held
    <3>4. Len(memory) + 1 \in 1..Len(memory')
      BY <1>b, <2>2
    <3>. QED BY <1>a, <2>1, <2>2, <3>2, <3>3, <3>4 DEF DiskInv, NoEventLost
  <2>. QED BY <2>4, <2>5, <2>6, <2>7 DEF DiskInv
<1>3. CASE SpoolAppend \/ SpoolAppendUnsynced
    BY <1>3, AppendStep DEF SpoolAppend, SpoolAppendUnsynced, apiVars
<1>4. CASE HandleAck
  <2> DEFINE a == Head(toWorker)
  <2>1. spool' = spool \ {a} /\ UNCHANGED <<emitted, memory, lost, rows, pruned, applied>>
    BY <1>4 DEF HandleAck, apiVars
  <2>2. Done(a.ev)
    BY <1>4, TailOfQueue DEF HandleAck, TypeOK, AcknowledgedIsStored
  <2> HIDE DEF a
  <2>3. \A e : Held(e) => Held(e)' \/ Done(e)
    BY <2>1, <2>2 DEF Held
  <2>4. MemoryInv'
    BY <2>1 DEF DiskInv, MemoryInv
  <2>5. SpoolInv'
    <3>1. IsFiniteSet(spool')
      BY <2>1, FS_RemoveElement DEF DiskInv, SpoolInv
    <3>. QED BY <2>1, <3>1 DEF DiskInv, SpoolInv
  <2>6. SpoolOrder'
    BY <1>a, <2>1, <2>2 DEF DiskInv, SpoolOrder, Settled
  <2>7. NoEventLost'
    BY <1>a, <2>1, <2>3 DEF DiskInv, NoEventLost
  <2>. QED BY <2>4, <2>5, <2>6, <2>7 DEF DiskInv
<1>5. CASE WorkerCrash
  <2>1. /\ lost' = lost \cup {memory[i] : i \in 1..Len(memory)} /\ memory' = <<>>
        /\ UNCHANGED <<emitted, spool>>
    BY <1>5 DEF WorkerCrash
  <2>2. \A e : Held(e) => Held(e)'
    BY <2>1 DEF Held
  <2>3. MemoryInv' /\ SpoolInv'
    BY <2>1 DEF DiskInv, MemoryInv, SpoolInv
  <2>4. SpoolOrder'
    BY <1>a, <2>1 DEF DiskInv, SpoolOrder
  <2>5. NoEventLost'
    BY <1>a, <2>1, <2>2 DEF DiskInv, NoEventLost
  <2>. QED BY <2>3, <2>4, <2>5 DEF DiskInv
<1>6. ASSUME \/ Connect \/ SendPending \/ IngestNew \/ IngestDuplicate \/ ApplyStatus
             \/ RejectStatus \/ SendAck \/ HubFails \/ HubNotices \/ SessionFails
             \/ SessionNotices \/ UNCHANGED vars \/ \E m \in Messages : CacheMessage(m)
             \/ \E M \in SUBSET Messages : Prune(M)
      PROVE  UNCHANGED <<emitted, memory, spool, lost>>
    BY <1>6 DEF Connect, SendPending, IngestNew, IngestDuplicate, ApplyStatus, RejectStatus,
                SendAck, HubFails, HubNotices, HubReturns, SessionFails, SessionNotices,
                CacheMessage, Prune, vars, workerVars
<1>. QED BY <1>1, <1>2, <1>3, <1>4, <1>5, <1>6 DEF Next

-----------------------------------------------------------------------------
(* The wire                                                                *)

\* The hub has processed the head of what is under way.
LEMMA ProcessedStep ==
    ASSUME TypeOK, WireInv, toApi # <<>>, toApi' = Tail(toApi),
           NEW h, h = Head(toApi), Done(h.ev)',
           \A f : (Done(f) => Done(f)') /\ (Settled(f) => Settled(f)'),
           UNCHANGED <<spool, sent, workerUp, apiUp>>
    PROVE  WireOrder' /\ SentInv'
<1>1. /\ h = toApi[1] /\ Len(toApi) \in Nat /\ Len(toApi') = Len(toApi) - 1
      /\ \A j \in 1..Len(toApi) - 1 : toApi'[j] = toApi[j + 1]
    BY TailOfQueue DEF TypeOK
<1>2. \A j \in 1..Len(toApi') : j + 1 \in 1..Len(toApi) /\ toApi'[j] = toApi[j + 1]
    BY <1>1
<1>3. \A j \in 1..Len(toApi) : j = 1 \/ (j - 1 \in 1..Len(toApi') /\ toApi'[j - 1] = toApi[j])
    BY <1>1
<1>4. WireOrder'
  <2>1. SUFFICES ASSUME NEW k \in 1..Len(toApi'), NEW f \in Events, f < toApi'[k].ev,
                        ~Settled(f)'
                 PROVE  \E j \in 1..Len(toApi') : j < k /\ toApi'[j].ev = f
    BY DEF WireOrder
  <2>2. PICK j \in 1..Len(toApi) : j < k + 1 /\ toApi[j].ev = f
    BY <1>2, <2>1 DEF WireInv, WireOrder
  <2>3. j # 1
    BY <1>1, <2>1, <2>2 DEF Settled
  <2>4. j - 1 \in 1..Len(toApi') /\ toApi'[j - 1].ev = f
    BY <1>3, <2>2, <2>3
  <2>5. j - 1 < k
    BY <1>1, <2>2
  <2>. QED BY <2>4, <2>5
<1>5. SentInv'
  <2>1. SUFFICES ASSUME workerUp, apiUp, NEW y \in sent, ~Done(y.ev)'
                 PROVE  \E k \in 1..Len(toApi') : toApi'[k] = y
    BY DEF SentInv
  <2>2. PICK k \in 1..Len(toApi) : toApi[k] = y
    BY <2>1 DEF WireInv, SentInv
  <2>3. k # 1
    BY <1>1, <2>1, <2>2
  <2>. QED BY <1>3, <2>2, <2>3
<1>. QED BY <1>4, <1>5

\* The end of what is under way is cut off.
LEMMA CutStep ==
    ASSUME TypeOK, WireInv, toApi' \in Prefixes(toApi),
           \A f : Settled(f) => Settled(f)'
    PROVE  WireOrder'
<1>1. /\ Len(toApi') \in 0..Len(toApi) /\ \A j \in 1..Len(toApi') : toApi'[j] = toApi[j]
      /\ Len(toApi) \in Nat
    BY PrefixOfQueue DEF TypeOK
<1>2. \A j \in 1..Len(toApi') : j \in 1..Len(toApi)
    BY <1>1
<1>3. WireOrder'
  <2>1. SUFFICES ASSUME NEW k \in 1..Len(toApi'), NEW f \in Events, f < toApi'[k].ev,
                        ~Settled(f)'
                 PROVE  \E j \in 1..Len(toApi') : j < k /\ toApi'[j].ev = f
    BY DEF WireOrder
  <2>2. PICK j \in 1..Len(toApi) : j < k /\ toApi[j].ev = f
    BY <1>1, <1>2, <2>1 DEF WireInv, WireOrder
  <2>3. j \in 1..Len(toApi')
    BY <1>1, <2>2
  <2>. QED BY <1>1, <2>2, <2>3
<1>. QED BY <1>3

\* A session writes the files it has not sent, in order, behind what is
\* under way; every file it has sent is done or under way.
LEMMA WriteStep ==
    ASSUME TypeOK, DiskInv, NEW S, S \subseteq spool,
           NEW q \in Seq(Entries),
           \A k \in 1..Len(q) : \A f \in Events :
              f < q[k].ev => Settled(f) \/ \E j \in 1..Len(q) : j < k /\ q[j].ev = f,
           \A y \in spool \ S : Done(y.ev) \/ \E k \in 1..Len(q) : q[k] = y,
           toApi' = q \o Pending(S),
           UNCHANGED <<spool, lost, rows, pruned, applied>>
    PROVE  /\ WireOrder'
           /\ \A k \in 1..Len(q) : k \in 1..Len(toApi') /\ toApi'[k] = q[k]
           /\ \A x \in S : \E k \in 1..Len(toApi') : toApi'[k] = x
<1> DEFINE P == Pending(S)
           n == Cardinality(S)
           m == Len(q)
<1>1. IsSpool(S)
    BY FS_Subset DEF IsSpool, TypeOK, DiskInv, SpoolInv
<1>2. /\ P \in Seq(S) /\ Len(P) = n /\ n \in Nat
      /\ \A x \in S : \E i \in 1..n : P[i] = x
      /\ \A i, j \in 1..n : P[i].seq < P[j].seq => i < j
    BY <1>1, PendingSorted
<1>3. toApi' = q \o P /\ P \in Seq(Entries) /\ \A i \in 1..n : P[i] \in S
    BY <1>1, <1>2 DEF IsSpool
<1> HIDE DEF P, n
<1>4. /\ m \in Nat /\ Len(toApi') = m + n
      /\ \A k \in 1..m : toApi'[k] = q[k]
      /\ \A i \in 1..n : toApi'[m + i] = P[i]
  <2>1. /\ Len(q \o P) = Len(q) + Len(P) /\ Len(q) \in Nat
        /\ \A k \in 1..Len(q) : (q \o P)[k] = q[k]
        /\ \A i \in 1..Len(P) : (q \o P)[Len(q) + i] = P[i]
    BY <1>3, Joined
  <2>. QED BY <1>2, <1>3, <2>1
<1> HIDE DEF m
<1>5. /\ \A k \in 1..m : k \in 1..Len(toApi')
      /\ \A i \in 1..n : m + i \in 1..Len(toApi')
      /\ \A k \in 1..Len(toApi') : k \in 1..m \/ (k - m \in 1..n /\ toApi'[k] = P[k - m])
  <2>1. ASSUME NEW k \in 1..Len(toApi'), k \notin 1..m
        PROVE  k - m \in 1..n /\ toApi'[k] = P[k - m]
    <3>1. k - m \in 1..n /\ m + (k - m) = k
      BY <1>2, <1>4, <2>1
    <3>. QED BY <1>4, <3>1
  <2>. QED BY <1>2, <1>4, <2>1
<1>6. \A f : (Done(f)' <=> Done(f)) /\ (Settled(f)' <=> Settled(f))
    BY DEF Done, Settled, Stored
<1>7. WireOrder'
  <2>1. SUFFICES ASSUME NEW k \in 1..Len(toApi'), NEW f \in Events, f < toApi'[k].ev,
                        ~Settled(f)
                 PROVE  \E j \in 1..Len(toApi') : j < k /\ toApi'[j].ev = f
    BY <1>6 DEF WireOrder
  <2>2. CASE k \in 1..m
    <3>1. PICK j \in 1..m : j < k /\ q[j].ev = f
      BY <1>4, <2>1, <2>2 DEF m
    <3>. QED BY <1>4, <1>5, <3>1
  <2>3. CASE k \notin 1..m
    <3> DEFINE x == P[k - m]
    <3>1. k - m \in 1..n /\ toApi'[k] = x /\ x \in S
      BY <1>3, <1>5, <2>3
    <3> HIDE DEF x
    <3>2. PICK y \in spool : y.ev = f /\ y.seq < x.seq
      BY <2>1, <3>1 DEF DiskInv, SpoolOrder
    <3>3. CASE y \in S
      <4>1. PICK i \in 1..n : P[i] = y
        BY <1>2, <3>3
      <4>2. i < k - m
        BY <1>2, <3>1, <3>2, <4>1 DEF x
      <4>3. m + i \in 1..Len(toApi') /\ toApi'[m + i] = P[i]
        BY <1>2, <1>4, <1>5, <4>1
      <4>4. m + i < k
        BY <1>4, <1>5, <4>1, <4>2
      <4>5. toApi'[m + i].ev = f
        BY <3>2, <4>1, <4>3
      <4>. QED BY <4>3, <4>4, <4>5
    <3>4. CASE y \notin S
      <4>1. PICK j \in 1..m : q[j] = y
        BY <2>1, <3>2, <3>4 DEF Settled, m
      <4>2. j < k
        BY <1>2, <1>4, <3>1, <4>1
      <4>. QED BY <1>4, <1>5, <3>2, <4>1, <4>2
    <3>. QED BY <3>3, <3>4
  <2>. QED BY <2>2, <2>3
<1>8. \A x \in S : \E k \in 1..Len(toApi') : toApi'[k] = x
  <2>1. SUFFICES ASSUME NEW x \in S PROVE \E k \in 1..Len(toApi') : toApi'[k] = x
    OBVIOUS
  <2>2. PICK i \in 1..n : P[i] = x
    BY <1>2, <2>1
  <2>. QED BY <1>4, <1>5, <2>2
<1>. QED BY <1>4, <1>5, <1>7, <1>8 DEF m

\* Every step keeps what is under way in the spool, and in one place.
LEMMA KeptStep == TypeOK /\ IsSpool(spool) /\ KeptInv /\ [Next]_vars => KeptInv'
<1> SUFFICES ASSUME TypeOK, IsSpool(spool), KeptInv, [Next]_vars PROVE KeptInv'
    OBVIOUS
<1>a. /\ toApi \in Seq(Entries) /\ toWorker \in Seq(Entries)
      /\ Len(toApi) \in Nat /\ Len(toWorker) \in Nat
    BY DEF TypeOK
<1>b. WireKept /\ WireOnce
    BY DEF KeptInv
<1>1. CASE \/ Emit \/ SpoolAppend \/ SpoolAppendUnsynced \/ UNCHANGED vars
           \/ \E m \in Messages : CacheMessage(m)
           \/ \E M \in SUBSET Messages : Prune(M)
  <2>1. UNCHANGED <<toApi, toWorker, sent, apiUp, acking>> /\ spool \subseteq spool'
    BY <1>1 DEF Emit, SpoolAppend, SpoolAppendUnsynced, CacheMessage, Prune, vars, workerVars,
                linkVars, apiVars
  <2>. QED BY <1>b, <2>1 DEF KeptInv, WireKept, WireOnce
<1>2. CASE Connect
  <2>1. /\ ~apiUp /\ apiUp' = TRUE /\ sent' = spool /\ toApi' = Pending(spool)
        /\ toWorker' = <<>> /\ UNCHANGED <<spool, acking>>
    BY <1>2 DEF Connect, apiVars
  <2>2. acking' = NoEntry /\ Len(toWorker') = 0
    BY <1>b, <2>1 DEF WireKept
  <2>3. /\ \A k \in 1..Len(toApi') : toApi'[k] \in spool
        /\ \A i, j \in 1..Len(toApi') : toApi'[i] = toApi'[j] => i = j
    BY <2>1, PendingSorted
  <2>. QED BY <2>1, <2>2, <2>3 DEF KeptInv, WireKept, WireOnce
<1>3. CASE SendPending
  <2>1. sent' = sent \cup spool /\ UNCHANGED <<spool, toWorker, acking, apiUp>>
    BY <1>3 DEF SendPending, apiVars
  <2>2. CASE ~apiUp
    <3>1. UNCHANGED toApi
      BY <1>3, <2>2 DEF SendPending
    <3>. QED BY <1>b, <2>1, <3>1 DEF KeptInv, WireKept, WireOnce
  <2>3. CASE apiUp
    <3> DEFINE P == Pending(spool \ sent)
               m == Len(toApi)
               n == Len(P)
    <3>1. toApi' = toApi \o P
      BY <1>3, <2>3 DEF SendPending
    <3>2. IsSpool(spool \ sent)
      BY FS_Subset DEF IsSpool
    <3>3. /\ P \in Seq(spool \ sent) /\ n \in Nat
          /\ \A i, j \in 1..n : P[i] = P[j] => i = j
      BY <3>2, PendingSorted
    <3>4. P \in Seq(Entries) /\ \A i \in 1..n : P[i] \in spool \ sent
      <4>1. spool \ sent \in SUBSET Entries
        BY DEF IsSpool
      <4>. QED BY <3>3, <4>1, Widen
    <3> HIDE DEF P
    <3>5. /\ Len(toApi') = m + n
          /\ \A k \in 1..m : toApi'[k] = toApi[k]
          /\ \A i \in 1..n : toApi'[m + i] = P[i]
      BY <1>a, <3>1, <3>4, Joined
    <3>6. \A k \in 1..Len(toApi') :
             \/ k \in 1..m /\ toApi'[k] = toApi[k] /\ toApi'[k] \in sent
             \/ k \notin 1..m /\ k - m \in 1..n /\ toApi'[k] = P[k - m]
                /\ toApi'[k] \in spool \ sent
      <4>1. SUFFICES ASSUME NEW k \in 1..Len(toApi'), k \notin 1..m
                     PROVE  k - m \in 1..n /\ toApi'[k] = P[k - m]
        BY <1>b, <3>4, <3>5 DEF WireKept
      <4>2. k - m \in 1..n /\ m + (k - m) = k
        BY <1>a, <3>3, <3>5, <4>1
      <4>. QED BY <3>5, <4>2
    <3>7. \A i, j \in 1..Len(toApi') : toApi'[i] = toApi'[j] => i = j
      <4>1. SUFFICES ASSUME NEW i \in 1..Len(toApi'), NEW j \in 1..Len(toApi'),
                            toApi'[i] = toApi'[j]
                     PROVE  i = j
        OBVIOUS
      <4>2. CASE i \in 1..m
        BY <1>b, <3>6, <4>1, <4>2 DEF WireOnce
      <4>3. CASE i \notin 1..m
        <5>1. i - m \in 1..n /\ j - m \in 1..n /\ P[i - m] = P[j - m]
          BY <3>6, <4>1, <4>3
        <5>2. i - m = j - m
          BY <3>3, <5>1
        <5>. QED BY <1>a, <3>3, <3>5, <5>2
      <4>. QED BY <4>2, <4>3
    <3>8. \A i \in 1..Len(toApi'), j \in 1..Len(toWorker) : toApi'[i] # toWorker[j]
      BY <1>b, <3>6 DEF WireKept, WireOnce
    <3>9. acking # NoEntry => \A i \in 1..Len(toApi') : toApi'[i] # acking
      BY <1>b, <3>6 DEF WireKept, WireOnce
    <3>10. WireKept'
      BY <1>b, <2>1, <2>3, <3>6 DEF WireKept
    <3>11. WireOnce'
      BY <1>b, <2>1, <3>7, <3>8, <3>9 DEF WireOnce
    <3>. QED BY <3>10, <3>11 DEF KeptInv
  <2>. QED BY <2>2, <2>3
<1>4. CASE HandleAck
  <2>1. PICK a \in Entries : a = Head(toWorker)
    BY <1>4, <1>a, TailOfQueue DEF HandleAck
  <2>2. /\ spool' = spool \ {a} /\ sent' = sent \ {a} /\ toWorker' = Tail(toWorker)
        /\ toWorker # <<>> /\ UNCHANGED <<toApi, apiUp, acking>>
    BY <1>4, <2>1 DEF HandleAck, apiVars
  <2>3. /\ a = toWorker[1] /\ 1 \in 1..Len(toWorker)
        /\ Len(toWorker') = Len(toWorker) - 1
        /\ \A j \in 1..Len(toWorker) - 1 : toWorker'[j] = toWorker[j + 1]
    BY <1>a, <2>1, <2>2, TailOfQueue
  <2>4. \A j \in 1..Len(toWorker') :
           j + 1 \in 1..Len(toWorker) /\ j + 1 # 1 /\ toWorker'[j] = toWorker[j + 1]
    BY <1>a, <2>3
  <2>5. \A j \in 1..Len(toWorker') : toWorker'[j] \in sent /\ toWorker'[j] # a
    BY <1>b, <2>3, <2>4 DEF WireKept, WireOnce
  <2>6. \A i \in 1..Len(toApi) : toApi[i] # a
    BY <1>b, <2>3 DEF WireOnce
  <2>7. acking # NoEntry => acking # a
    BY <1>b, <2>3 DEF WireOnce
  <2>8. WireKept'
    BY <1>b, <2>2, <2>5, <2>6, <2>7 DEF WireKept
  <2>9. \A i, j \in 1..Len(toWorker') : toWorker'[i] = toWorker'[j] => i = j
    <3>1. SUFFICES ASSUME NEW i \in 1..Len(toWorker'), NEW j \in 1..Len(toWorker'),
                          toWorker'[i] = toWorker'[j]
                   PROVE  i = j
      OBVIOUS
    <3>2. i + 1 = j + 1
      BY <1>b, <2>4, <3>1 DEF WireOnce
    <3>. QED BY <1>a, <2>3, <3>2
  <2>10. WireOnce'
    BY <1>b, <2>2, <2>4, <2>9 DEF WireOnce
  <2>. QED BY <2>8, <2>10 DEF KeptInv
<1>5. CASE IngestNew \/ IngestDuplicate \/ ApplyStatus
  <2>1. PICK h \in Entries : h = Head(toApi)
    BY <1>5, <1>a, TailOfQueue DEF IngestNew, IngestDuplicate, ApplyStatus, HubReady
  <2>2. /\ apiUp /\ toApi # <<>> /\ toApi' = Tail(toApi) /\ acking' = h
        /\ UNCHANGED <<spool, sent, apiUp, toWorker>>
    BY <1>5, <2>1 DEF IngestNew, IngestDuplicate, ApplyStatus, HubReady, workerVars
  <2>3. /\ h = toApi[1] /\ 1 \in 1..Len(toApi)
        /\ Len(toApi') = Len(toApi) - 1
        /\ \A j \in 1..Len(toApi) - 1 : toApi'[j] = toApi[j + 1]
    BY <1>a, <2>1, <2>2, TailOfQueue
  <2>4. \A j \in 1..Len(toApi') :
           j + 1 \in 1..Len(toApi) /\ j + 1 # 1 /\ toApi'[j] = toApi[j + 1]
    BY <1>a, <2>3
  <2>5. WireKept'
    BY <1>b, <2>2, <2>3, <2>4 DEF WireKept
  <2>6. \A i, j \in 1..Len(toApi') : toApi'[i] = toApi'[j] => i = j
    <3>1. SUFFICES ASSUME NEW i \in 1..Len(toApi'), NEW j \in 1..Len(toApi'),
                          toApi'[i] = toApi'[j]
                   PROVE  i = j
      OBVIOUS
    <3>2. i + 1 = j + 1
      BY <1>b, <2>4, <3>1 DEF WireOnce
    <3>. QED BY <1>a, <2>3, <3>2
  <2>7. /\ \A i \in 1..Len(toApi') : toApi'[i] # h
        /\ \A i \in 1..Len(toWorker) : toWorker[i] # h
    BY <1>b, <2>3, <2>4 DEF WireOnce
  <2>8. WireOnce'
    BY <1>b, <2>2, <2>4, <2>6, <2>7 DEF WireOnce
  <2>. QED BY <2>5, <2>8 DEF KeptInv
<1>6. CASE SendAck
  <2>1. /\ apiUp /\ acking # NoEntry /\ acking' = NoEntry
        /\ toWorker' = toWorker \/ toWorker' = Append(toWorker, acking)
        /\ UNCHANGED <<toApi, sent, apiUp, spool>>
    BY <1>6 DEF SendAck, workerVars
  <2>2. CASE toWorker' = toWorker
    BY <1>b, <2>1, <2>2 DEF KeptInv, WireKept, WireOnce
  <2>3. CASE toWorker' = Append(toWorker, acking)
    <3>1. acking \in Entries /\ acking \in sent
      BY <1>b, <2>1 DEF TypeOK, WireKept
    <3>2. \A i \in 1..Len(toWorker') :
             \/ i \in 1..Len(toWorker) /\ toWorker'[i] = toWorker[i]
             \/ i = Len(toWorker) + 1 /\ toWorker'[i] = acking
      BY <1>a, <2>3, <3>1
    <3>3. WireKept'
      BY <1>b, <2>1, <3>1, <3>2 DEF WireKept
    <3>4. \A i, j \in 1..Len(toWorker') : toWorker'[i] = toWorker'[j] => i = j
      BY <1>b, <2>1, <3>2 DEF WireOnce
    <3>5. WireOnce'
      BY <1>b, <2>1, <3>2, <3>4 DEF WireOnce
    <3>. QED BY <3>3, <3>5 DEF KeptInv
  <2>. QED BY <2>1, <2>2, <2>3
<1>7. CASE RejectStatus \/ HubFails \/ HubNotices
  <2>1. HubReturns
    BY <1>7 DEF RejectStatus, HubFails, HubNotices
  <2>2. /\ acking' = NoEntry /\ toApi' = <<>> /\ Len(toApi') = 0
        /\ toWorker' \in Prefixes(toWorker) /\ UNCHANGED <<spool, sent>>
    BY <2>1 DEF HubReturns, workerVars
  <2>3. /\ Len(toWorker') \in 0..Len(toWorker)
        /\ \A j \in 1..Len(toWorker') : toWorker'[j] = toWorker[j]
    BY <1>a, <2>2, PrefixOfQueue
  <2>4. \A j \in 1..Len(toWorker') : j \in 1..Len(toWorker) /\ toWorker'[j] = toWorker[j]
    BY <1>a, <2>3
  <2>. QED BY <1>b, <2>2, <2>4 DEF KeptInv, WireKept, WireOnce
<1>8. CASE SessionFails \/ SessionNotices \/ WorkerCrash
  <2>1. /\ toApi' \in Prefixes(toApi) /\ toWorker' = <<>> /\ Len(toWorker') = 0
        /\ UNCHANGED <<spool, sent, acking, apiUp>>
    BY <1>8 DEF SessionFails, SessionNotices, WorkerCrash, WorkerGone, workerVars, apiVars
  <2>2. /\ toApi' \in Seq(Entries) /\ Len(toApi') \in 0..Len(toApi)
        /\ \A j \in 1..Len(toApi') : toApi'[j] = toApi[j]
    BY <1>a, <2>1, PrefixOfQueue
  <2>3. \A j \in 1..Len(toApi') : j \in 1..Len(toApi) /\ toApi'[j] = toApi[j]
    BY <1>a, <2>2
  <2>4. toApi = <<>> => toApi' = <<>>
    BY <1>a, <2>2
  <2>. QED BY <1>b, <2>1, <2>3, <2>4 DEF KeptInv, WireKept, WireOnce
<1>. QED BY <1>1, <1>2, <1>3, <1>4, <1>5, <1>6, <1>7, <1>8 DEF Next

\* Every step keeps what is under way in order, and acknowledges only what is
\* done.
LEMMA WireStep == TypeOK /\ DiskInv /\ WireInv /\ [Next]_vars => WireInv'
<1> SUFFICES ASSUME TypeOK, DiskInv, WireInv, [Next]_vars PROVE WireInv'
    OBVIOUS
<1>a. \A f : (Done(f) => Done(f)') /\ (Settled(f) => Settled(f)')
    BY Monotone
<1>b. toApi \in Seq(Entries) /\ Len(toApi) \in Nat /\ toWorker \in Seq(Entries)
    BY DEF TypeOK
<1>c. ASSUME UNCHANGED acking PROVE AckInv'
    BY <1>a, <1>c DEF WireInv, AckInv
<1>d. ASSUME UNCHANGED toWorker PROVE AcknowledgedIsStored'
    BY <1>a, <1>d DEF WireInv, AcknowledgedIsStored
<1>e. ASSUME toWorker' = <<>> PROVE AcknowledgedIsStored'
    BY <1>e DEF AcknowledgedIsStored
<1>f. ASSUME UNCHANGED <<toApi, sent, workerUp, apiUp>> PROVE WireOrder' /\ SentInv'
    BY <1>a, <1>f DEF WireInv, WireOrder, SentInv
<1>1. CASE \/ Emit \/ SpoolAppend \/ SpoolAppendUnsynced \/ UNCHANGED vars
           \/ \E m \in Messages : CacheMessage(m)
           \/ \E M \in SUBSET Messages : Prune(M)
  <2>1. UNCHANGED <<toApi, toWorker, sent, workerUp, apiUp, acking>>
    BY <1>1 DEF Emit, SpoolAppend, SpoolAppendUnsynced, CacheMessage, Prune, vars, workerVars,
                linkVars, apiVars
  <2>. QED BY <1>c, <1>d, <1>f, <2>1 DEF WireInv
<1>2. CASE Connect
  <2>1. /\ sent' = spool /\ toApi' = Pending(spool) /\ toWorker' = <<>>
        /\ UNCHANGED <<spool, lost, rows, pruned, applied, acking>>
    BY <1>2 DEF Connect, apiVars
  <2>2. IsSpool(spool)
    BY DEF IsSpool, TypeOK, DiskInv, SpoolInv
  <2>3. <<>> \in Seq(Entries) /\ Len(<<>>) = 0
    OBVIOUS
  <2>4. toApi' = <<>> \o Pending(spool)
    <3>1. Pending(spool) \in Seq(spool)
      BY <2>2, PendingSorted
    <3>. QED BY <2>1, <3>1
  <2>5. WireOrder' /\ \A x \in spool : \E k \in 1..Len(toApi') : toApi'[k] = x
    <3> DEFINE q == <<>>
    <3>1. q \in Seq(Entries) /\ (\A k \in 1..Len(q) : FALSE) /\ toApi' = q \o Pending(spool)
      BY <2>3, <2>4
    <3>2. \A y \in spool \ spool : Done(y.ev) \/ \E k \in 1..Len(q) : q[k] = y
      OBVIOUS
    <3> HIDE DEF q
    <3>. QED BY <2>1, <3>1, <3>2, WriteStep
  <2>6. SentInv'
    BY <2>1, <2>5 DEF SentInv
  <2>. QED BY <1>c, <1>e, <2>1, <2>5, <2>6 DEF WireInv
<1>3. CASE SendPending
  <2>1. /\ sent' = sent \cup spool /\ workerUp
        /\ UNCHANGED <<spool, lost, rows, pruned, applied, acking, toWorker, workerUp, apiUp>>
    BY <1>3 DEF SendPending, apiVars
  <2>2. CASE apiUp
    <3>1. toApi' = toApi \o Pending(spool \ sent)
      BY <1>3, <2>2 DEF SendPending
    <3>2. spool \ sent \subseteq spool
      OBVIOUS
    <3>3. \A y \in sent : Done(y.ev) \/ \E k \in 1..Len(toApi) : toApi[k] = y
      BY <2>1, <2>2 DEF WireInv, SentInv
    <3>4. \A y \in spool \ (spool \ sent) : Done(y.ev) \/ \E k \in 1..Len(toApi) : toApi[k] = y
      BY <3>3
    <3>5. /\ WireOrder'
          /\ \A k \in 1..Len(toApi) : k \in 1..Len(toApi') /\ toApi'[k] = toApi[k]
          /\ \A x \in spool \ sent : \E k \in 1..Len(toApi') : toApi'[k] = x
      BY <1>b, <2>1, <3>1, <3>2, <3>4, WriteStep DEF WireInv, WireOrder
    <3>6. SentInv'
      <4>1. SUFFICES ASSUME NEW y \in sent', ~Done(y.ev)'
                     PROVE  \E k \in 1..Len(toApi') : toApi'[k] = y
        BY DEF SentInv
      <4>2. CASE y \in sent
        BY <1>a, <3>3, <3>5, <4>1, <4>2
      <4>3. CASE y \notin sent
        BY <2>1, <3>5, <4>1, <4>3
      <4>. QED BY <4>2, <4>3
    <3>. QED BY <1>c, <1>d, <2>1, <3>5, <3>6 DEF WireInv
  <2>3. CASE ~apiUp
    <3>1. UNCHANGED toApi
      BY <1>3, <2>3 DEF SendPending
    <3>2. SentInv'
      BY <2>1, <2>3 DEF SentInv
    <3>. QED BY <1>a, <1>c, <1>d, <2>1, <3>1, <3>2 DEF WireInv, WireOrder
  <2>. QED BY <2>2, <2>3
<1>4. CASE HandleAck
  <2> DEFINE a == Head(toWorker)
  <2>1. /\ spool' = spool \ {a} /\ sent' = sent \ {a} /\ toWorker' = Tail(toWorker)
        /\ toWorker # <<>>
        /\ UNCHANGED <<toApi, workerUp, apiUp, acking>>
    BY <1>4 DEF HandleAck, apiVars
  <2>2. /\ a = toWorker[1] /\ 1 \in 1..Len(toWorker) /\ Len(toWorker) \in Nat
        /\ Len(toWorker') = Len(toWorker) - 1
        /\ \A j \in 1..Len(toWorker) - 1 : toWorker'[j] = toWorker[j + 1]
    BY <1>b, <2>1, TailOfQueue
  <2> HIDE DEF a
  <2>3. Done(a.ev)
    BY <2>2 DEF WireInv, AcknowledgedIsStored
  <2>4. WireOrder' /\ SentInv'
    BY <1>a, <2>1, <2>3 DEF WireInv, WireOrder, SentInv
  <2>5. AcknowledgedIsStored'
    <3>1. \A j \in 1..Len(toWorker') : j + 1 \in 1..Len(toWorker) /\ toWorker'[j] = toWorker[j + 1]
      BY <2>2
    <3>. QED BY <1>a, <3>1 DEF WireInv, AcknowledgedIsStored
  <2>. QED BY <1>c, <2>1, <2>4, <2>5 DEF WireInv
<1>5. CASE IngestNew \/ IngestDuplicate \/ ApplyStatus
  <2>1. PICK h \in Entries : h = Head(toApi)
    BY <1>5, <1>b, TailOfQueue DEF IngestNew, IngestDuplicate, ApplyStatus, HubReady
  <2>2. /\ toApi # <<>> /\ toApi' = Tail(toApi) /\ acking' = h
        /\ UNCHANGED <<spool, sent, workerUp, apiUp, toWorker>>
    BY <1>5, <2>1 DEF IngestNew, IngestDuplicate, ApplyStatus, HubReady, workerVars
  <2>3. Done(h.ev)'
    <3>1. CASE IngestNew \/ IngestDuplicate
      BY <2>1, <3>1 DEF IngestNew, IngestDuplicate, IsMessage, Stored, Done
    <3>2. CASE ApplyStatus
      <4>1. ContentOf[h.ev] \notin Messages
        BY <2>1, <3>2, MessagesAssumption DEF ApplyStatus, AcceptedStates, States
      <4>. QED BY <2>1, <3>2, <4>1 DEF ApplyStatus, IsMessage, Done
    <3>. QED BY <1>5, <3>1, <3>2
  <2>4. WireOrder' /\ SentInv'
    BY <1>a, <2>1, <2>2, <2>3, ProcessedStep
  <2>5. AckInv'
    BY <2>2, <2>3 DEF AckInv
  <2>. QED BY <1>d, <2>2, <2>4, <2>5 DEF WireInv
<1>6. CASE SendAck
  <2>1. /\ acking # NoEntry /\ acking' = NoEntry
        /\ toWorker' = toWorker \/ toWorker' = Append(toWorker, acking)
        /\ UNCHANGED <<toApi, sent, workerUp, apiUp, spool>>
    BY <1>6 DEF SendAck, workerVars
  <2>2. Done(acking.ev) /\ acking \in Entries
    BY <2>1 DEF WireInv, AckInv, TypeOK
  <2>3. AcknowledgedIsStored'
    <3>1. CASE toWorker' = Append(toWorker, acking)
      <4>1. \A i \in 1..Len(toWorker') :
               \/ i \in 1..Len(toWorker) /\ toWorker'[i] = toWorker[i]
               \/ toWorker'[i] = acking
        BY <1>b, <2>2, <3>1
      <4>. QED BY <1>a, <2>2, <4>1 DEF WireInv, AcknowledgedIsStored
    <3>. QED BY <1>d, <2>1, <3>1
  <2>4. AckInv'
    BY <2>1 DEF AckInv
  <2>. QED BY <1>f, <2>1, <2>3, <2>4 DEF WireInv
<1>7. CASE RejectStatus \/ HubFails \/ HubNotices
  <2>1. HubReturns
    BY <1>7 DEF RejectStatus, HubFails, HubNotices
  <2>2. /\ apiUp' = FALSE /\ acking' = NoEntry /\ toApi' = <<>>
        /\ toWorker' \in Prefixes(toWorker)
    BY <2>1 DEF HubReturns
  <2>3. WireOrder' /\ SentInv' /\ AckInv'
    BY <2>2 DEF WireOrder, SentInv, AckInv
  <2>4. AcknowledgedIsStored'
    <3>1. /\ Len(toWorker') \in 0..Len(toWorker) /\ Len(toWorker) \in Nat
          /\ \A j \in 1..Len(toWorker') : toWorker'[j] = toWorker[j]
      BY <1>b, <2>2, PrefixOfQueue
    <3>2. \A j \in 1..Len(toWorker') : j \in 1..Len(toWorker)
      BY <3>1
    <3>. QED BY <1>a, <3>1, <3>2 DEF WireInv, AcknowledgedIsStored
  <2>. QED BY <2>3, <2>4 DEF WireInv
<1>8. CASE SessionFails \/ SessionNotices \/ WorkerCrash
  <2>1. /\ workerUp' = FALSE /\ toApi' \in Prefixes(toApi) /\ toWorker' = <<>>
        /\ UNCHANGED <<spool, acking>>
    BY <1>8 DEF SessionFails, SessionNotices, WorkerCrash, WorkerGone, workerVars, apiVars
  <2>2. WireOrder'
    BY <1>a, <2>1, CutStep
  <2>3. SentInv'
    BY <2>1 DEF SentInv
  <2>. QED BY <1>c, <1>e, <2>1, <2>2, <2>3 DEF WireInv
<1>. QED BY <1>1, <1>2, <1>3, <1>4, <1>5, <1>6, <1>7, <1>8 DEF Next

-----------------------------------------------------------------------------
(* Announcements                                                           *)

\* IngestMessage announces a new message behind everything that precedes it.
LEMMA IngestStep ==
    ASSUME TypeOK, WireInv, AnnounceInv, IngestNew
    PROVE  AnnounceInv'
<1> DEFINE h == Head(toApi)
           e == h.ev
           m == ContentOf[e]
           n == Len(announced)
           I == {i \in 1..Len(announced) : announced[i] \in Incoming}
<1>1. /\ toApi # <<>> /\ m \in Messages /\ m \notin rows
      /\ rows' = rows \cup {m} /\ announced' = Append(announced, m)
      /\ unread' = (IF m \in Incoming THEN unread + 1 ELSE unread)
      /\ UNCHANGED <<lost, pruned>>
    BY DEF IngestNew, HubReady, IsMessage, Stored, workerVars
<1>2. h \in Entries /\ h = toApi[1] /\ 1 \in 1..Len(toApi) /\ e \in Events
  <2>1. h \in Entries /\ h = toApi[1] /\ 1 \in 1..Len(toApi)
    BY <1>1, TailOfQueue DEF TypeOK
  <2>. QED BY <2>1 DEF Entries
<1>3. /\ n \in Nat /\ Len(announced') = n + 1 /\ announced'[n + 1] = m
      /\ \A i \in 1..n : announced'[i] = announced[i] /\ announced[i] \in rows \cup pruned
      /\ \A i \in 1..n + 1 : i \in 1..n \/ i = n + 1
  <2>1. announced \in Seq(Messages) /\ m \in Messages
    BY <1>1 DEF TypeOK
  <2>2. /\ n \in Nat /\ Len(Append(announced, m)) = n + 1 /\ Append(announced, m)[n + 1] = m
        /\ \A i \in 1..n : Append(announced, m)[i] = announced[i]
        /\ \A i \in 1..n + 1 : i \in 1..n \/ i = n + 1
    BY <2>1
  <2>3. \A i \in 1..n : announced[i] \in rows \cup pruned
    BY DEF AnnounceInv, AnnouncedOnce
  <2>. QED BY <1>1, <2>2, <2>3
<1>4. \A f \in Events : f < e => Settled(f)
  <2>1. SUFFICES ASSUME NEW f \in Events, f < e, ~Settled(f) PROVE FALSE
    OBVIOUS
  <2>2. PICK j \in 1..Len(toApi) : j < 1
    BY <1>2, <2>1 DEF WireInv, WireOrder
  <2>. QED BY <2>2
<1> HIDE DEF h, e, n, I
<1>5. \A f : Settled(f) => Settled(f)'
  <2>1. rows \subseteq rows' /\ applied \subseteq applied'
    BY <1>1 DEF IngestNew
  <2>. QED BY <1>1, <2>1 DEF Settled, Done, IsMessage
<1>6. ASSUME m \notin pruned PROVE \A f \in Events : ContentOf[f] = m => ~Done(f)
    BY <1>1, <1>6 DEF Done, IsMessage
<1>7. AnnouncedOnce'
  <2>1. \A i, j \in 1..Len(announced') :
           announced'[i] = announced'[j] => i = j \/ announced'[i] \in pruned'
    <3>1. SUFFICES ASSUME NEW i \in 1..n + 1, NEW j \in 1..n + 1,
                          announced'[i] = announced'[j], announced'[i] \notin pruned
                   PROVE  i = j
      BY <1>1, <1>3
    <3>2. CASE i \in 1..n /\ j \in 1..n
      BY <1>3, <3>1, <3>2 DEF AnnounceInv, AnnouncedOnce, n
    <3>. QED BY <1>1, <1>3, <3>1, <3>2
  <2>2. \A i \in 1..Len(announced') : announced'[i] \in rows' \cup pruned'
    BY <1>1, <1>3
  <2>3. IsFiniteSet(I) /\ n + 1 \notin I /\ unread = Cardinality(I)
    <3>1. IsFiniteSet(1..n)
      BY <1>3, FS_Interval
    <3>2. I \in SUBSET (1..n) /\ n + 1 \notin 1..n
      BY <1>3 DEF I, n
    <3>. QED BY <3>1, <3>2, FS_Subset DEF I, AnnounceInv, AnnouncedOnce
  <2>4. {i \in 1..Len(announced') : announced'[i] \in Incoming}
          = IF m \in Incoming THEN I \cup {n + 1} ELSE I
    <3>1. \A i : i \in 1..n + 1 <=> i \in 1..n \/ i = n + 1
      BY <1>3
    <3>2. \A i : i \in I <=> i \in 1..n /\ announced[i] \in Incoming
      BY DEF I, n
    <3>. QED BY <1>3, <3>1, <3>2
  <2>5. Cardinality(I \cup {n + 1}) = Cardinality(I) + 1
    BY <2>3, FS_AddElement
  <2>6. unread' = Cardinality({i \in 1..Len(announced') : announced'[i] \in Incoming})
    BY <1>1, <2>3, <2>4, <2>5
  <2>. QED BY <2>1, <2>2, <2>6 DEF AnnouncedOnce
<1>8. AnnounceOrder'
  <2>1. SUFFICES ASSUME NEW i \in 1..n + 1
                 PROVE  \E d \in Events : /\ ContentOf[d] = announced'[i]
                                          /\ \A f \in Events : f < d => Settled(f)'
    BY <1>3 DEF AnnounceOrder
  <2>2. CASE i \in 1..n
    <3>1. PICK d \in Events : ContentOf[d] = announced[i] /\ \A f \in Events : f < d => Settled(f)
      BY <2>2 DEF AnnounceInv, AnnounceOrder, n
    <3>. QED BY <1>3, <1>5, <2>2, <3>1
  <2>3. CASE i = n + 1
    <3>1. ContentOf[e] = announced'[i] /\ \A f \in Events : f < e => Settled(f)'
      BY <1>3, <1>4, <1>5, <2>3
    <3>. QED BY <1>2, <3>1
  <2>. QED BY <1>3, <2>2, <2>3
<1>9. AnnouncedInOrder'
  <2>1. SUFFICES ASSUME NEW i \in 1..n + 1, NEW j \in 1..n + 1, i < j,
                        announced'[j] \notin pruned
                 PROVE  \E d \in Events :
                           /\ ContentOf[d] = announced'[i]
                           /\ \A f \in Events :
                                 ContentOf[f] = announced'[j] => d < f \/ f \in lost
    BY <1>1, <1>3 DEF AnnouncedInOrder
  <2>2. i \in 1..n
    BY <1>3, <2>1
  <2>3. CASE j \in 1..n
    <3>1. PICK d \in Events :
             /\ ContentOf[d] = announced[i]
             /\ \A f \in Events : ContentOf[f] = announced[j] => d < f \/ f \in lost
      BY <1>3, <2>1, <2>2, <2>3 DEF AnnounceInv, AnnouncedInOrder, n
    <3>. QED BY <1>3, <2>2, <2>3, <3>1
  <2>4. CASE j = n + 1
    <3>1. PICK d \in Events : ContentOf[d] = announced[i] /\ \A f \in Events : f < d => Settled(f)
      BY <2>2 DEF AnnounceInv, AnnounceOrder, n
    <3>2. ASSUME NEW f \in Events, ContentOf[f] = m, f \notin lost PROVE d < f
      <4>. m \notin pruned
        BY <1>3, <2>1, <2>4
      <4>1. ~(f < d)
        BY <1>6, <3>1, <3>2 DEF Settled
      <4>2. f # d
        BY <1>1, <1>3, <2>2, <3>1, <3>2
      <4>. QED BY <4>1, <4>2 DEF Events
    <3>. QED BY <1>3, <2>2, <2>4, <3>1, <3>2
  <2>. QED BY <1>3, <2>3, <2>4
<1>. QED BY <1>7, <1>8, <1>9 DEF AnnounceInv

\* Every step keeps the announcements unique and in order.
LEMMA AnnounceStep == TypeOK /\ WireInv /\ AnnounceInv /\ [Next]_vars => AnnounceInv'
<1> SUFFICES ASSUME TypeOK, WireInv, AnnounceInv, [Next]_vars PROVE AnnounceInv'
    OBVIOUS
<1>1. CASE UNCHANGED <<announced, unread>>
  <2>1. /\ rows \cup pruned \subseteq rows' \cup pruned'
        /\ pruned \subseteq pruned' /\ lost \subseteq lost'
    BY Growth
  <2>2. AnnouncedOnce'
    BY <1>1, <2>1 DEF AnnounceInv, AnnouncedOnce
  <2>3. AnnounceOrder'
    BY <1>1, Monotone DEF AnnounceInv, AnnounceOrder
  <2>4. AnnouncedInOrder'
    BY <1>1, <2>1 DEF AnnounceInv, AnnouncedInOrder
  <2>. QED BY <2>2, <2>3, <2>4 DEF AnnounceInv
<1>2. ASSUME \/ Emit \/ SpoolAppend \/ SpoolAppendUnsynced \/ Connect \/ SendPending
             \/ HandleAck \/ IngestDuplicate \/ ApplyStatus \/ RejectStatus \/ SendAck
             \/ HubFails \/ HubNotices \/ SessionFails \/ SessionNotices \/ WorkerCrash
             \/ UNCHANGED vars \/ \E m \in Messages : CacheMessage(m)
             \/ \E M \in SUBSET Messages : Prune(M)
      PROVE  UNCHANGED <<announced, unread>>
    BY <1>2 DEF Emit, SpoolAppend, SpoolAppendUnsynced, Connect, SendPending, HandleAck,
                IngestDuplicate, ApplyStatus, RejectStatus, SendAck, HubFails, HubNotices,
                HubReturns, SessionFails, SessionNotices, WorkerCrash, CacheMessage, Prune,
                vars, apiVars
<1>. QED BY <1>1, <1>2, IngestStep DEF Next

-----------------------------------------------------------------------------
(* Theorems                                                                *)

\* Every step keeps the inductive invariant.
LEMMA IndStep == IndInv /\ [Next]_vars => IndInv'
<1> SUFFICES ASSUME IndInv, [Next]_vars PROVE IndInv'
    OBVIOUS
<1>1. /\ TypeOK /\ DiskInv /\ KeptInv /\ WireInv /\ AnnounceInv /\ AcknowledgedIsStored
      /\ IsSpool(spool)
    BY DEF IndInv, WireInv, DiskInv, SpoolInv, TypeOK, IsSpool
<1>. QED BY <1>1, TypeStep, DiskStep, KeptStep, WireStep, AnnounceStep DEF IndInv

\* The inductive invariant holds in every reachable state.
THEOREM IndInvHolds == Spec => []IndInv
<1>1. Init => IndInv
  <2> SUFFICES ASSUME Init PROVE IndInv
    OBVIOUS
  <2>1. TypeOK
    <3>1. <<>> \in Seq(Events) /\ <<>> \in Seq(Entries) /\ <<>> \in Seq(Messages)
      OBVIOUS
    <3>2. 0 \in 0..NEvents /\ 0 \in 0..MaxFailures
      BY NEventsAssumption, MaxFailuresAssumption
    <3>. QED BY <3>1, <3>2 DEF Init, TypeOK
  <2>2. DiskInv
    BY FS_EmptySet
    DEF Init, DiskInv, MemoryInv, SpoolInv, SpoolOrder, NoEventLost
  <2>3. WireInv
    BY DEF Init, WireInv, WireOrder, SentInv, AckInv, AcknowledgedIsStored
  <2>4. KeptInv
    BY DEF Init, KeptInv, WireKept, WireOnce
  <2>5. AnnounceInv
    <3>1. Len(announced) = 0 /\ unread = 0
      BY DEF Init
    <3>2. {i \in 1..Len(announced) : announced[i] \in Incoming} = {}
      BY <3>1
    <3>. QED BY <3>1, <3>2, FS_EmptySet
             DEF AnnounceInv, AnnouncedOnce, AnnounceOrder, AnnouncedInOrder
  <2>. QED BY <2>1, <2>2, <2>3, <2>4, <2>5 DEF IndInv
<1>. QED BY <1>1, IndStep, PTL DEF Spec

\* Memory, spool, session, hub and tables keep their types.
THEOREM TypeCorrect == Spec => []TypeOK
<1>1. IndInv => TypeOK
    BY DEF IndInv
<1>. QED BY <1>1, IndInvHolds, PTL

\* However often either end crashes, reconnects or loses an acknowledgement,
\* no event the worker has taken disappears before it is processed, unless the
\* worker dies before spooling it; after that only retention deletes it.
THEOREM NothingLost == Spec => []NoEventLost
<1>1. IndInv => NoEventLost
    BY DEF IndInv, DiskInv
<1>. QED BY <1>1, IndInvHolds, PTL

\* The worker removes a file only for an event the API has committed, even if
\* retention has deleted the row since.
THEOREM AckAfterCommit == Spec => []AcknowledgedIsStored
<1>1. IndInv => AcknowledgedIsStored
    BY DEF IndInv, WireInv
<1>. QED BY <1>1, IndInvHolds, PTL

\* However often a message is delivered, clients hear of it once more only if
\* retention has deleted its row in between, and the unread count rises with
\* the announcement.
THEOREM OneAnnouncement == Spec => []AnnouncedOnce
<1>1. IndInv => AnnouncedOnce
    BY DEF IndInv, AnnounceInv
<1>. QED BY <1>1, IndInvHolds, PTL

\* Messages retention has never deleted are announced in the provider's order,
\* although spool numbers are used again and every reconnect sends the spool
\* again.
THEOREM OrderedAnnouncements == Spec => []AnnouncedInOrder
<1>1. IndInv => AnnouncedInOrder
    BY DEF IndInv, AnnounceInv
<1>. QED BY <1>1, IndInvHolds, PTL

-----------------------------------------------------------------------------
(* Refinement                                                              *)

\* Every step is a step of the contract or leaves its variables alone.
LEMMA ContractStep ==
    IndInv /\ [Next]_vars => [Contract!ContractNext]_(Contract!contractVars)
<1> SUFFICES ASSUME IndInv, [Next]_vars
             PROVE  Contract!ContractNext \/ UNCHANGED <<HeldMessages, rows, pruned, announced>>
    BY DEF Contract!contractVars
<1>a. TypeOK /\ WireKept /\ AcknowledgedIsStored
    BY DEF IndInv, KeptInv, WireInv
<1>1. CASE SpoolAppend \/ SpoolAppendUnsynced
  <2>1. PICK x : spool' = spool \cup {x} /\ UNCHANGED <<rows, pruned, announced>>
    BY <1>1 DEF SpoolAppend, SpoolAppendUnsynced, apiVars
  <2>2. CASE IsMessage(x.ev)
    <3>1. HeldMessages' = HeldMessages \cup {ContentOf[x.ev]}
      BY <2>1, <2>2 DEF HeldMessages, IsMessage
    <3>2. Contract!Hold(ContentOf[x.ev]) /\ ContentOf[x.ev] \in Messages
      BY <2>1, <2>2, <3>1 DEF Contract!Hold, IsMessage
    <3>. QED BY <3>2 DEF Contract!ContractNext
  <2>3. CASE ~IsMessage(x.ev)
    <3>1. HeldMessages' = HeldMessages
      BY <2>1, <2>3 DEF HeldMessages, IsMessage
    <3>. QED BY <2>1, <3>1
  <2>. QED BY <2>2, <2>3
<1>2. CASE HandleAck
  <2> DEFINE a == Head(toWorker)
             m == ContentOf[a.ev]
  <2>1. spool' = spool \ {a} /\ UNCHANGED <<rows, pruned, announced>>
    BY <1>2 DEF HandleAck, apiVars
  <2>2. Done(a.ev)
    BY <1>2, <1>a, TailOfQueue DEF HandleAck, TypeOK, AcknowledgedIsStored
  <2> HIDE DEF a
  <2>3. CASE IsMessage(a.ev) /\ HeldMessages' # HeldMessages
    <3>1. HeldMessages' = HeldMessages \ {m} /\ m \in HeldMessages
      BY <2>1, <2>3 DEF HeldMessages, IsMessage
    <3>2. m \in rows \cup pruned /\ m \in Messages
      BY <2>2, <2>3 DEF Done, IsMessage
    <3>3. Contract!Release(m)
      BY <2>1, <3>1, <3>2 DEF Contract!Release
    <3>. QED BY <3>2, <3>3 DEF Contract!ContractNext
  <2>4. CASE ~IsMessage(a.ev)
    <3>1. HeldMessages' = HeldMessages
      BY <2>1, <2>4 DEF HeldMessages, IsMessage
    <3>. QED BY <2>1, <3>1
  <2>. QED BY <2>1, <2>3, <2>4
<1>3. CASE IngestNew
  <2> DEFINE h == Head(toApi)
             m == ContentOf[h.ev]
  <2>1. /\ toApi # <<>> /\ m \in Messages /\ m \notin rows
        /\ rows' = rows \cup {m} /\ announced' = Append(announced, m)
        /\ UNCHANGED <<spool, pruned>>
    BY <1>3 DEF IngestNew, HubReady, IsMessage, Stored, workerVars
  <2>2. h = toApi[1] /\ 1 \in 1..Len(toApi)
    BY <1>a, <2>1, TailOfQueue DEF TypeOK
  <2>3. h \in spool
    BY <1>a, <2>2 DEF WireKept
  <2>4. m \in HeldMessages /\ UNCHANGED HeldMessages
    BY <2>1, <2>3 DEF HeldMessages, IsMessage
  <2>5. Contract!Store(m)
    BY <2>1, <2>4 DEF Contract!Store
  <2>. QED BY <2>1, <2>5 DEF Contract!ContractNext
<1>4. ASSUME NEW m \in Messages, CacheMessage(m) PROVE Contract!ContractNext
  <2>1. UNCHANGED HeldMessages
    BY <1>4 DEF CacheMessage, workerVars, HeldMessages, IsMessage
  <2>2. Contract!Cache(m)
    BY <1>4, <2>1 DEF CacheMessage, Contract!Cache
  <2>. QED BY <2>2 DEF Contract!ContractNext
<1>5. ASSUME \/ Emit \/ Connect \/ SendPending \/ IngestDuplicate \/ ApplyStatus
             \/ RejectStatus \/ SendAck \/ HubFails \/ HubNotices \/ SessionFails
             \/ SessionNotices \/ WorkerCrash \/ UNCHANGED vars
      PROVE  UNCHANGED <<HeldMessages, rows, pruned, announced>>
  <2>1. UNCHANGED <<spool, rows, pruned, announced>>
    BY <1>5 DEF Emit, Connect, SendPending, IngestDuplicate, ApplyStatus, RejectStatus,
                SendAck, HubFails, HubNotices, HubReturns, SessionFails, SessionNotices,
                WorkerCrash, vars, workerVars, apiVars
  <2>. QED BY <2>1 DEF HeldMessages, IsMessage
<1>6. ASSUME NEW M \in SUBSET Messages, Prune(M) PROVE Contract!ContractNext
  <2>1. UNCHANGED HeldMessages
    BY <1>6 DEF Prune, workerVars, HeldMessages, IsMessage
  <2>2. Contract!Drop(M)
    BY <1>6, <2>1 DEF Prune, Contract!Drop
  <2>. QED BY <2>2 DEF Contract!ContractNext
<1>. QED BY <1>1, <1>2, <1>3, <1>4, <1>5, <1>6 DEF Next

\* Spool, session and hub implement the contract of EventContract: a message
\* is stored only while the worker holds it and the table does not have it, and
\* is announced by the step that stores it; the worker lets go of it only after
\* it has been stored; retention is the one way out of the table.
THEOREM DeliveryKeepsContract == Spec => DeliveryImplementsContract
<1>1. Init => Contract!ContractInit
    BY DEF Init, Contract!ContractInit, HeldMessages
<1>2. IndInv /\ [Next]_vars => [Contract!ContractNext]_(Contract!contractVars)
    BY ContractStep
<1>. QED
    BY <1>1, <1>2, IndInvHolds, PTL DEF Spec, DeliveryImplementsContract, Contract!ContractSpec
=============================================================================
