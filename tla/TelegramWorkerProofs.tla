------------------------ MODULE TelegramWorkerProofs ------------------------
(***************************************************************************)
(* Proofs about TelegramWorker for every set of commands, every workload   *)
(* and every number of sends whose outcome is kept.                        *)
(***************************************************************************)
EXTENDS TelegramWorker, Ordering

\* The messages in a queue of lines, and their order.
WrittenIn(q) == {m \in Updates : \E i \in 1..Len(q) : q[i].type = "update" /\ q[i].value = m}

LinesOrdered(q) ==
    \A i, j \in 1..Len(q) :
        i < j /\ q[i].type = "update" /\ q[j].type = "update" => q[i].value < q[j].value

Published == Among(spooled, Updates)
Waiting == Among(chain, Updates)
Unread == WrittenIn(lines)

\* Published, waiting and unread messages follow each other, and a message is
\* given up when all before it have had their turn.
OrderInv ==
    /\ Ordered(spooled, Updates) /\ Ordered(chain, Updates) /\ LinesOrdered(lines)
    /\ Precedes(Published, Waiting \cup Unread)
    /\ Precedes(Waiting, Unread)
    /\ Precedes(lost, Waiting \cup Unread)
    /\ Published \cap lost = {}

\* Every message that was reported is somewhere.
TraceInv ==
    \A m \in Updates : m <= told <=> m \in Published \cup Waiting \cup Unread \cup lost

\* The update at the head of the chain is the one that is looked up.
LookupInv == lookup # "none" => chain # <<>>

UpdateInv == OrderInv /\ TraceInv /\ LookupInv

\* The commands in the inbox are different, and have not been taken.
InboxInv ==
    /\ \A i \in 1..Len(inbox) : pc[inbox[i]] = "inbox"
    /\ \A i, j \in 1..Len(inbox) : i # j => inbox[i] # inbox[j]

\* The loop runs one command at a time.
LoopInv == \A c, d \in Commands : pc[c] \in Running /\ pc[d] \in Running => c = d

\* What TDLib writes about a request agrees with what it has made of it.
Agrees(c, v) ==
    /\ v = "error" => remote[c] = "refused"
    /\ v \in {"done", "unreadable"} => remote[c] = "accepted"
    /\ v = "pending" => kind[c] = "send" /\ remote[c] # "none"

LineOK(l) ==
    /\ l.type = "response" => Agrees(l.of, l.value)
    /\ l.type = "sent" => remote[l.of] = "accepted"
    /\ l.type = "notSent" => remote[l.of] = "refused"

LinesInv == \A i \in 1..Len(lines) : LineOK(lines[i])

\* An outcome is kept for a message that was sent.
CompletedInv == \A i \in 1..Len(completed) : remote[completed[i]] = "accepted"

\* A command that was not taken has left no trace.
IdleOK(c) == pc[c] \in {"idle", "inbox"} => kind[c] = "none" /\ remote[c] = "none"

\* A command that waits has asked TDLib; what it has read agrees with TDLib.
WaitOK(c) ==
    /\ pc[c] \in {"request", "resolved", "sendWaiter", "authWaiter"} => remote[c] # "none"
    /\ pc[c] = "resolved" => out[c] \in Responses /\ Agrees(c, out[c])
    /\ pc[c] = "sendWaiter" => kind[c] = "send"
    /\ pc[c] = "authWaiter" => kind[c] \in LinkKinds /\ remote[c] = "accepted"

\* The result of a command is what the worker knows of its effect.
ResultOK(c) ==
    kind[c] \in EffectKinds /\ pc[c] = "reply" =>
        /\ out[c] \in Results
        /\ out[c] = "ok" => remote[c] = "accepted"
        /\ out[c] = "unknown" => c \in blind
        /\ out[c] = "failed" => remote[c] \in {"none", "refused"} \/ c \in blind

CommandOK(c) == IdleOK(c) /\ WaitOK(c) /\ ResultOK(c)

CommandInv ==
    /\ LinesInv
    /\ CompletedInv
    /\ \A c \in Commands : CommandOK(c)

IndInv ==
    /\ TypeOK
    /\ UpdateInv
    /\ InboxInv
    /\ LoopInv
    /\ CommandInv

-----------------------------------------------------------------------------
(* Operators                                                               *)

\* Messages have positive numbers; 0 stands for a status.
LEMMA UpdatesNat == Updates \subseteq Nat /\ 0 \notin Updates /\ NUpdates \in Nat
    BY TelegramAssumption DEF Updates

\* The lines that TDLib writes.
LEMMA LineTypes ==
    /\ \A c \in Commands, r \in Responses : Response(c, r) \in Lines
    /\ \A c \in Commands : [type |-> "sent", of |-> c] \in Lines
    /\ \A c \in Commands : [type |-> "notSent", of |-> c] \in Lines
    /\ \A a \in AuthStates : [type |-> "auth", value |-> a] \in Lines
    /\ \A m \in Updates : [type |-> "update", value |-> m] \in Lines
    /\ \A v \in {"found", "failed"} : [type |-> "sender", value |-> v] \in Lines
    BY DEF Lines, Response

\* What a line of each type holds.
LEMMA LineFields ==
    ASSUME NEW l \in Lines
    PROVE  /\ l.type = "response" => l.of \in Commands /\ l.value \in Responses
           /\ l.type \in {"sent", "notSent"} => l.of \in Commands
           /\ l.type = "auth" => l.value \in AuthStates
           /\ l.type = "update" => l.value \in Updates
           /\ l.type = "sender" => l.value \in {"found", "failed"}
    BY DEF Lines

\* Lines that are not about messages.
LEMMA OtherLines ==
    ASSUME NEW q \in Seq(Lines), NEW p \in Seq(Lines),
           \A i \in 1..Len(p) : p[i].type # "update"
    PROVE  /\ WrittenIn(q \o p) = WrittenIn(q)
           /\ LinesOrdered(q) => LinesOrdered(q \o p)
<1>1. /\ Len(q \o p) = Len(q) + Len(p) /\ Len(q) \in Nat /\ Len(p) \in Nat
      /\ \A k \in 1..Len(q) : (q \o p)[k] = q[k] /\ k \in 1..Len(q) + Len(p)
      /\ \A i \in 1..Len(p) : (q \o p)[Len(q) + i] = p[i]
      /\ \A i \in 1..Len(q) + Len(p) :
            i \in 1..Len(q) \/ (i - Len(q) \in 1..Len(p) /\ Len(q) + (i - Len(q)) = i)
    BY Joined
<1>2. \A i \in 1..Len(q) + Len(p) : (q \o p)[i].type = "update" => i \in 1..Len(q)
    BY <1>1
<1>. QED BY <1>1, <1>2 DEF WrittenIn, LinesOrdered

\* A report of message m.
LEMMA ReportLine ==
    ASSUME NEW q \in Seq(Lines), NEW l \in Lines
    PROVE  /\ l.type # "update" => /\ WrittenIn(Append(q, l)) = WrittenIn(q)
                                   /\ LinesOrdered(q) => LinesOrdered(Append(q, l))
           /\ l.type = "update" =>
                /\ WrittenIn(Append(q, l)) = WrittenIn(q) \cup {l.value}
                /\ LinesOrdered(q) /\ Precedes(WrittenIn(q), {l.value}) =>
                      LinesOrdered(Append(q, l))
<1>1. /\ Len(Append(q, l)) = Len(q) + 1 /\ Len(q) \in Nat
      /\ Append(q, l)[Len(q) + 1] = l
      /\ \A i \in 1..Len(q) : Append(q, l)[i] = q[i] /\ i \in 1..Len(q) + 1 /\ q[i] \in Lines
      /\ \A i \in 1..Len(q) + 1 : i \in 1..Len(q) \/ i = Len(q) + 1
    OBVIOUS
<1>2. \A i \in 1..Len(q) : q[i].type = "update" => q[i].value \in Updates
    BY <1>1, LineFields
<1>3. l.type = "update" => l.value \in Updates
    BY LineFields
<1>. QED BY <1>1, <1>2, <1>3 DEF WrittenIn, LinesOrdered, Precedes

\* A line is read.
LEMMA ReadOne ==
    ASSUME NEW q \in Seq(Lines), q # <<>>
    PROVE  /\ Tail(q) \in Seq(Lines) /\ Head(q) \in Lines
           /\ Head(q).type # "update" => WrittenIn(q) = WrittenIn(Tail(q))
           /\ Head(q).type = "update" => WrittenIn(q) = {Head(q).value} \cup WrittenIn(Tail(q))
           /\ LinesOrdered(q) =>
                /\ LinesOrdered(Tail(q))
                /\ Head(q).type = "update" => Precedes({Head(q).value}, WrittenIn(Tail(q)))
<1>1. /\ Head(q) = q[1] /\ Head(q) \in Lines /\ Len(q) \in Nat /\ Len(q) > 0
      /\ Tail(q) \in Seq(Lines) /\ Len(Tail(q)) = Len(q) - 1
      /\ \A i \in 1..Len(q) - 1 : Tail(q)[i] = q[i + 1] /\ i + 1 \in 1..Len(q) /\ 1 < i + 1
      /\ \A i \in 1..Len(q) : i = 1 \/ (i - 1 \in 1..Len(q) - 1 /\ (i - 1) + 1 = i)
      /\ 1 \in 1..Len(q)
    OBVIOUS
<1>2. Head(q).type = "update" => Head(q).value \in Updates
    BY <1>1, LineFields
<1>3. /\ Head(q).type # "update" => WrittenIn(q) = WrittenIn(Tail(q))
      /\ Head(q).type = "update" => WrittenIn(q) = {Head(q).value} \cup WrittenIn(Tail(q))
    BY <1>1, <1>2 DEF WrittenIn
<1>4. ASSUME LinesOrdered(q) PROVE LinesOrdered(Tail(q))
  <2> SUFFICES ASSUME NEW i \in 1..Len(q) - 1, NEW j \in 1..Len(q) - 1, i < j,
                      Tail(q)[i].type = "update", Tail(q)[j].type = "update"
               PROVE  Tail(q)[i].value < Tail(q)[j].value
    BY <1>1 DEF LinesOrdered
  <2>1. i + 1 < j + 1
    OBVIOUS
  <2>. QED BY <1>1, <1>4, <2>1 DEF LinesOrdered
<1>5. ASSUME LinesOrdered(q), Head(q).type = "update"
      PROVE  Precedes({Head(q).value}, WrittenIn(Tail(q)))
    BY <1>1, <1>5 DEF LinesOrdered, WrittenIn, Precedes
<1>. QED BY <1>1, <1>3, <1>4, <1>5

\* completedSends without the outcome that is used.
LEMMA RemoveOne ==
    ASSUME NEW q \in Seq(Commands), NEW c, Contains(q, c)
    PROVE  /\ RemoveFirst(q, c) \in Seq(Commands)
           /\ Len(RemoveFirst(q, c)) <= Len(q)
           /\ \A i \in 1..Len(RemoveFirst(q, c)) : \E j \in 1..Len(q) : RemoveFirst(q, c)[i] = q[j]
<1> DEFINE I == {i \in 1..Len(q) : q[i] = c}
           k == Min(I)
<1>1. I \subseteq Nat /\ I # {}
    BY DEF Contains
<1>2. \E n \in I : \A m \in I : n <= m
    BY <1>1, LeastNumber
<1>3. k \in I
    BY <1>2 DEF Min
<1>4. RemoveFirst(q, c) = RemoveAt(q, k)
    BY <1>1 DEF RemoveFirst, SelectInSeq, Contains
<1> HIDE DEF k
<1>5. k \in 1..Len(q) /\ Len(q) \in Nat
    BY <1>3
<1> HIDE DEF I
<1> DEFINE a == SubSeq(q, 1, k - 1)
           b == SubSeq(q, k + 1, Len(q))
<1>6. /\ a \in Seq(Commands) /\ Len(a) = k - 1
      /\ \A i \in 1..k - 1 : a[i] = q[i]
    BY <1>5
<1>7. /\ b \in Seq(Commands) /\ Len(b) = Len(q) - k
      /\ \A i \in 1..Len(q) - k : b[i] = q[k + i] /\ k + i \in 1..Len(q)
    BY <1>5
<1>8. RemoveFirst(q, c) = a \o b
    BY <1>4 DEF RemoveAt
<1> HIDE DEF a, b
<1>9. /\ a \o b \in Seq(Commands) /\ Len(a \o b) = Len(a) + Len(b)
      /\ Len(a) \in Nat /\ Len(b) \in Nat
      /\ \A i \in 1..Len(a) : (a \o b)[i] = a[i]
      /\ \A i \in 1..Len(b) : (a \o b)[Len(a) + i] = b[i]
      /\ \A i \in 1..Len(a) + Len(b) :
            i \in 1..Len(a) \/ (i - Len(a) \in 1..Len(b) /\ Len(a) + (i - Len(a)) = i)
  <2>1. a \in Seq(Commands) /\ b \in Seq(Commands)
    BY <1>6, <1>7
  <2>2. a \o b \in Seq(Commands)
    BY <2>1
  <2>3. Len(a) \in Nat /\ Len(b) \in Nat
    BY <2>1
  <2>4. /\ Len(a \o b) = Len(a) + Len(b)
        /\ \A i \in 1..Len(a) : (a \o b)[i] = a[i]
        /\ \A i \in 1..Len(b) : (a \o b)[Len(a) + i] = b[i]
    BY <2>1, Joined
  <2>. QED BY <2>2, <2>3, <2>4
<1>10. ASSUME NEW i \in 1..Len(a) + Len(b) PROVE \E j \in 1..Len(q) : (a \o b)[i] = q[j]
  <2>1. CASE i \in 1..Len(a)
    BY <1>5, <1>6, <1>9, <2>1
  <2>2. CASE i - Len(a) \in 1..Len(b) /\ Len(a) + (i - Len(a)) = i
    <3>1. (a \o b)[i] = b[i - Len(a)]
      BY <1>9, <2>2
    <3>. QED BY <1>7, <2>2, <3>1
  <2>. QED BY <1>9, <2>1, <2>2
<1>11. Len(a) + Len(b) <= Len(q)
    BY <1>5, <1>6, <1>7
<1>. QED BY <1>8, <1>9, <1>10, <1>11

-----------------------------------------------------------------------------
(* Steps in groups                                                         *)

\* TDLib is done with a part of a request.
Decides(c) == TdAnswers(c) \/ TdQueuesSend(c) \/ TdFinishesSend(c) \/ TdAuthorizes(c)

\* Steps of the session and of the commands that neither read nor write lines.
SessionStep ==
    \/ Connect \/ SocketFails \/ SessionEnds \/ Take
    \/ \E c \in Commands : Timers(c) \/ Continuation(c) \/ Incoming(c) \/ Reply(c)

\* Every step is one of these.
LEMMA NextGroups ==
    Next <=> \/ StartTdlib \/ TdReports \/ TdFindsSender \/ TdExits \/ LookupTimesOut
             \/ ReadResponse \/ ReadSent \/ ReadNotSent \/ ReadAuth \/ ReadUpdate \/ ReadSender
             \/ StartUpdate \/ PublishUpdate \/ UpdateFails
             \/ \E c \in Commands : Decides(c)
             \/ SessionStep
    BY DEF Next, TdStep, ReadLine, UpdateStep, Decides, SessionStep

\* What TDLib writes then agrees with where it has come to.
LEMMA DecidesOf ==
    ASSUME TypeOK, NEW c \in Commands, Decides(c)
    PROVE  /\ UNCHANGED <<load, td, told, auth, completed, chainVars, sessionVars, kind, pc, out,
                          blind>>
           /\ tdAuth' \in AuthStates
           /\ remote[c] \in {"asked", "sending"}
           /\ \E d \in {"sending", "accepted", "refused"} : remote' = [remote EXCEPT ![c] = d]
           /\ \E ls \in Seq(Lines) :
                 /\ lines' = lines \o ls
                 /\ \A i \in 1..Len(ls) : ls[i].type # "update" /\ LineOK(ls[i])'
<1>a. remote \in [Commands -> {"none", "asked", "sending", "accepted", "refused"}]
    BY DEF TypeOK
<1>b. ASSUME NEW d, NEW ls, TdWrites(c, d, ls)
      PROVE  /\ UNCHANGED <<load, td, told, auth, completed, chainVars, sessionVars, kind, pc,
                            out, blind>>
             /\ remote' = [remote EXCEPT ![c] = d] /\ remote'[c] = d
             /\ lines' = lines \o ls
    BY <1>a, <1>b DEF TdWrites
<1>c. ASSUME NEW l \in Lines, l.type # "update", LineOK(l)', lines' = lines \o <<l>>
      PROVE  \E ls \in Seq(Lines) :
                 /\ lines' = lines \o ls
                 /\ \A i \in 1..Len(ls) : ls[i].type # "update" /\ LineOK(ls[i])'
  <2> DEFINE ls == <<l>>
  <2>1. ls \in Seq(Lines) /\ Len(ls) = 1 /\ ls[1] = l /\ \A i \in 1..1 : i = 1
    OBVIOUS
  <2>. QED BY <1>c, <2>1
<1>d. ASSUME NEW l \in Lines, l.type # "update", LineOK(l)',
             NEW k \in Lines, k.type # "update", LineOK(k)', lines' = lines \o <<l, k>>
      PROVE  \E ls \in Seq(Lines) :
                 /\ lines' = lines \o ls
                 /\ \A i \in 1..Len(ls) : ls[i].type # "update" /\ LineOK(ls[i])'
  <2> DEFINE ls == <<l, k>>
  <2>1. ls \in Seq(Lines) /\ Len(ls) = 2 /\ ls[1] = l /\ ls[2] = k
        /\ \A i \in 1..2 : i = 1 \/ i = 2
    OBVIOUS
  <2>. QED BY <1>d, <2>1
<1>r. ASSUME NEW r \in Responses
      PROVE  /\ Response(c, r) \in Lines /\ Response(c, r).type # "update"
             /\ LineOK(Response(c, r))' <=> Agrees(c, r)'
    BY LineTypes DEF Response, LineOK, Agrees
<1>1. CASE TdAnswers(c)
  <2>1. /\ remote[c] = "asked" /\ UNCHANGED tdAuth
        /\ \/ TdWrites(c, "refused", <<Response(c, "error")>>)
           \/ TdWrites(c, "accepted", <<Response(c, "done")>>)
           \/ TdWrites(c, "accepted", <<Response(c, "unreadable")>>)
    BY <1>1 DEF TdAnswers
  <2>2. \E r \in {"error", "done", "unreadable"}, d \in {"accepted", "refused"} :
           /\ TdWrites(c, d, <<Response(c, r)>>)
           /\ r = "error" => d = "refused"
           /\ r \in {"done", "unreadable"} => d = "accepted"
    BY <2>1
  <2>3. PICK r \in {"error", "done", "unreadable"}, d \in {"accepted", "refused"} :
           /\ TdWrites(c, d, <<Response(c, r)>>)
           /\ r = "error" => d = "refused"
           /\ r \in {"done", "unreadable"} => d = "accepted"
    BY <2>2
  <2>4. remote'[c] = d /\ lines' = lines \o <<Response(c, r)>>
    BY <1>b, <2>3
  <2>5. r \in Responses /\ Agrees(c, r)'
    BY <2>3, <2>4 DEF Agrees, Responses
  <2>6. \E ls \in Seq(Lines) :
                 /\ lines' = lines \o ls
                 /\ \A i \in 1..Len(ls) : ls[i].type # "update" /\ LineOK(ls[i])'
    BY <1>c, <1>r, <2>4, <2>5
  <2>. QED BY <1>b, <2>1, <2>3, <2>6 DEF TypeOK
<1>2. CASE TdQueuesSend(c)
  <2>1. /\ remote[c] = "asked" /\ kind[c] = "send" /\ UNCHANGED tdAuth
        /\ TdWrites(c, "sending", <<Response(c, "pending")>>)
    BY <1>2 DEF TdQueuesSend
  <2>2. remote'[c] = "sending" /\ kind' = kind /\ lines' = lines \o <<Response(c, "pending")>>
    BY <1>b, <2>1
  <2>3. "pending" \in Responses /\ Agrees(c, "pending")'
    BY <2>1, <2>2 DEF Agrees, Responses
  <2>4. \E ls \in Seq(Lines) :
                 /\ lines' = lines \o ls
                 /\ \A i \in 1..Len(ls) : ls[i].type # "update" /\ LineOK(ls[i])'
    BY <1>c, <1>r, <2>2, <2>3
  <2>. QED BY <1>b, <2>1, <2>4 DEF TypeOK
<1>3. CASE TdFinishesSend(c)
  <2>1. PICK t \in {"sent", "notSent"}, d \in {"accepted", "refused"} :
           /\ remote[c] = "sending" /\ UNCHANGED tdAuth
           /\ TdWrites(c, d, <<[type |-> t, of |-> c]>>)
           /\ t = "sent" => d = "accepted"
           /\ t = "notSent" => d = "refused"
    BY <1>3 DEF TdFinishesSend
  <2> DEFINE l == [type |-> t, of |-> c]
  <2>2. remote'[c] = d /\ lines' = lines \o <<l>>
    BY <1>b, <2>1
  <2>3. l \in Lines /\ l.type = t /\ l.of = c
    BY <2>1, LineTypes
  <2> HIDE DEF l
  <2>4. LineOK(l)'
    BY <2>1, <2>2, <2>3 DEF LineOK
  <2>5. \E ls \in Seq(Lines) :
                 /\ lines' = lines \o ls
                 /\ \A i \in 1..Len(ls) : ls[i].type # "update" /\ LineOK(ls[i])'
    BY <1>c, <2>1, <2>2, <2>3, <2>4
  <2>6. TdWrites(c, d, <<l>>) /\ tdAuth' \in AuthStates
    BY <2>1 DEF TypeOK, l
  <2>7. UNCHANGED <<load, td, told, auth, completed, chainVars, sessionVars, kind, pc, out,
                    blind>>
    BY <1>b, <2>6
  <2>8. remote' = [remote EXCEPT ![c] = d]
    BY <1>b, <2>6
  <2>. QED BY <2>1, <2>5, <2>6, <2>7, <2>8
<1>4. CASE TdAuthorizes(c)
  <2>1. PICK v \in AuthStates :
           /\ remote[c] = "asked" /\ tdAuth' = v
           /\ \/ TdWrites(c, "accepted", <<Response(c, "done"), [type |-> "auth", value |-> v]>>)
              \/ TdWrites(c, "accepted", <<[type |-> "auth", value |-> v], Response(c, "done")>>)
    BY <1>4 DEF TdAuthorizes, AcceptedStates, AuthStates, LinkKinds
  <2> DEFINE u == [type |-> "auth", value |-> v]
  <2>2. u \in Lines /\ u.type = "auth"
    BY LineTypes
  <2>3. \/ TdWrites(c, "accepted", <<Response(c, "done"), u>>)
        \/ TdWrites(c, "accepted", <<u, Response(c, "done")>>)
    BY <2>1
  <2> HIDE DEF u
  <2>4. LineOK(u)'
    BY <2>2 DEF LineOK
  <2>5. /\ remote'[c] = "accepted" /\ remote' = [remote EXCEPT ![c] = "accepted"]
        /\ lines' = lines \o <<Response(c, "done"), u>> \/ lines' = lines \o <<u, Response(c, "done")>>
    BY <1>b, <2>3
  <2>6. "done" \in Responses /\ Agrees(c, "done")'
    BY <2>5 DEF Agrees, Responses
  <2>7. \E ls \in Seq(Lines) :
                 /\ lines' = lines \o ls
                 /\ \A i \in 1..Len(ls) : ls[i].type # "update" /\ LineOK(ls[i])'
    BY <1>d, <1>r, <2>2, <2>4, <2>5, <2>6
  <2>. QED BY <1>b, <2>1, <2>3, <2>5, <2>7
<1>. QED BY <1>1, <1>2, <1>3, <1>4 DEF Decides

\* A line of the given type is read.
LEMMA NextLineOf ==
    ASSUME TypeOK, NEW t, NextLine(t)
    PROVE  /\ lines # <<>> /\ lines \in Seq(Lines) /\ lines' = Tail(lines)
           /\ Head(lines) \in Lines /\ Head(lines).type = t
           /\ Head(lines) = lines[1] /\ 1 \in 1..Len(lines)
<1>1. lines # <<>> /\ lines \in Seq(Lines) /\ lines' = Tail(lines) /\ Head(lines).type = t
    BY DEF NextLine, TypeOK
<1>. QED BY <1>1, TailOfQueue

-----------------------------------------------------------------------------
(* Updates                                                                 *)

\* A step that moves no message.
LEMMA UpdatesKept ==
    ASSUME UpdateInv, UNCHANGED <<spooled, lost, told>>, LookupInv',
           Waiting' = Waiting, Ordered(chain, Updates)',
           Unread' = Unread, LinesOrdered(lines)'
    PROVE  UpdateInv'
<1>1. Published' = Published /\ Ordered(spooled, Updates)'
    BY DEF Published, UpdateInv, OrderInv, Updates
<1>2. OrderInv'
    BY <1>1 DEF UpdateInv, OrderInv
<1>3. TraceInv'
    BY <1>1 DEF UpdateInv, TraceInv, Updates
<1>. QED BY <1>2, <1>3 DEF UpdateInv

\* A step keeps the order of the messages, and each of them somewhere.
LEMMA UpdateStepKept ==
    ASSUME TypeOK, UpdateInv, [Next]_vars
    PROVE  UpdateInv'
<1>a. /\ lines \in Seq(Lines) /\ chain \in Seq(Nat) /\ spooled \in Seq(Nat)
      /\ lost \subseteq Updates /\ told \in Nat
  <2>1. /\ spooled \in Seq(Updates) /\ lines \in Seq(Lines) /\ lost \subseteq Updates
        /\ chain \in Seq(0..NUpdates) /\ told \in 0..NUpdates
    BY DEF TypeOK
  <2>2. spooled \in Seq(Nat)
    BY <2>1, UpdatesNat, Widen
  <2>3. chain \in Seq(Nat) /\ told \in Nat
    BY <2>1, UpdatesNat
  <2>. QED BY <2>1, <2>2, <2>3
<1>b. /\ Ordered(spooled, Updates) /\ Ordered(chain, Updates) /\ LinesOrdered(lines)
      /\ Precedes(Published, Waiting \cup Unread) /\ Precedes(Waiting, Unread)
      /\ Precedes(lost, Waiting \cup Unread) /\ Published \cap lost = {}
      /\ TraceInv /\ LookupInv
    BY DEF UpdateInv, OrderInv
<1>c. Published \subseteq Updates /\ Waiting \subseteq Updates /\ Unread \subseteq Updates
    BY DEF Published, Waiting, Unread, Among, WrittenIn
<1>d. ASSUME UNCHANGED chain PROVE Waiting' = Waiting /\ Ordered(chain, Updates)'
    BY <1>d, <1>b DEF Waiting, Updates
<1>e. ASSUME UNCHANGED lines PROVE Unread' = Unread /\ LinesOrdered(lines)'
    BY <1>e, <1>b DEF Unread, WrittenIn, LinesOrdered
<1>f. ASSUME NEW t, NextLine(t), t # "update" PROVE Unread' = Unread /\ LinesOrdered(lines)'
  <2>1. /\ lines # <<>> /\ lines' = Tail(lines) /\ Head(lines).type # "update"
    BY <1>f, NextLineOf
  <2>2. WrittenIn(lines) = WrittenIn(Tail(lines)) /\ LinesOrdered(Tail(lines))
    BY <1>a, <1>b, <2>1, ReadOne
  <2>. QED BY <2>1, <2>2 DEF Unread, WrittenIn, LinesOrdered
<1>1. CASE StartTdlib \/ SessionStep \/ UNCHANGED vars
  <2>1. UNCHANGED <<spooled, lost, told, chain, lookup, lines>>
    BY <1>1 DEF StartTdlib, SessionStep, Connect, SocketFails, SessionEnds, Take, TakeCommand,
                TakeFinishLink, Takes, Timers, RequestFails, SendTimesOut, AuthTimesOut,
                Continuation, RequestDone, LinkStepDone, SendQueued, Continues, Incoming, Reply,
                vars, tdVars, chainVars
  <2>2. LookupInv'
    BY <1>b, <2>1 DEF LookupInv
  <2>. QED BY <1>d, <1>e, <2>1, <2>2, UpdatesKept
<1>2. CASE TdReports
  <2> DEFINE m == told + 1
             l == [type |-> "update", value |-> m]
  <2>1. /\ UNCHANGED <<spooled, lost, chain, lookup>> /\ told' = m /\ told < load.updates
        /\ lines' = Append(lines, l)
    BY <1>2 DEF TdReports, chainVars
  <2>2. m \in Updates
    <3>1. load.updates \in 0..NUpdates
      BY TelegramAssumption DEF TypeOK
    <3>. QED BY <1>a, <2>1, <3>1, UpdatesNat DEF Updates
  <2>3. l \in Lines /\ l.type = "update" /\ l.value = m
    BY <2>2, LineTypes
  <2>4. \A n \in Nat : (n <= m <=> n <= told \/ n = m) /\ (n <= told => n < m) /\ ~(m <= told)
    BY <1>a
  <2> HIDE DEF l, m
  <2>5. Precedes(Published \cup Waiting \cup Unread \cup lost, {m})
    BY <1>a, <1>b, <1>c, <2>4, UpdatesNat DEF TraceInv, Precedes
  <2>6. Unread' = Unread \cup {m} /\ LinesOrdered(lines)'
    <3>1. Precedes(WrittenIn(lines), {m})
      BY <2>5 DEF Precedes, Unread
    <3>2. /\ WrittenIn(Append(lines, l)) = WrittenIn(lines) \cup {m}
          /\ LinesOrdered(Append(lines, l))
      BY <1>a, <1>b, <2>3, <3>1, ReportLine
    <3>. QED BY <2>1, <3>2 DEF Unread, WrittenIn, LinesOrdered
  <2>7. /\ Waiting' = Waiting /\ Ordered(chain, Updates)'
        /\ Published' = Published /\ Ordered(spooled, Updates)' /\ lost' = lost
    BY <1>b, <1>d, <2>1 DEF Published, Updates
  <2>8. OrderInv'
    BY <1>b, <2>5, <2>6, <2>7 DEF OrderInv, Precedes
  <2>9. TraceInv'
    <3>1. \A n \in Updates : n <= m <=> n \in Published \cup Waiting \cup Unread \cup lost \cup {m}
      BY <1>b, <2>2, <2>4, UpdatesNat DEF TraceInv
    <3>2. Updates' = Updates
      BY DEF Updates
    <3>. QED BY <2>1, <2>6, <2>7, <3>1, <3>2 DEF TraceInv
  <2>10. LookupInv'
    BY <1>b, <2>1 DEF LookupInv
  <2>. QED BY <2>8, <2>9, <2>10 DEF UpdateInv
<1>3. CASE TdFindsSender
  <2>1. PICK v \in {"found", "failed"} :
           /\ lines' = Append(lines, [type |-> "sender", value |-> v])
           /\ UNCHANGED <<spooled, lost, told, chain, lookup>>
    BY <1>3 DEF TdFindsSender, tdVars, chainVars
  <2>2. WrittenIn(lines') = WrittenIn(lines) /\ LinesOrdered(lines')
    <3>1. [type |-> "sender", value |-> v] \in Lines
      BY LineTypes
    <3>. QED BY <1>a, <1>b, <2>1, <3>1, ReportLine
  <2>3. Unread' = Unread /\ LinesOrdered(lines)'
    BY <2>2 DEF Unread, WrittenIn, LinesOrdered, Updates
  <2>4. LookupInv'
    BY <1>b, <2>1 DEF LookupInv
  <2>. QED BY <1>d, <2>1, <2>3, <2>4, UpdatesKept
<1>4. ASSUME NEW c \in Commands, Decides(c) PROVE UpdateInv'
  <2>1. PICK ls \in Seq(Lines) : lines' = lines \o ls /\ \A i \in 1..Len(ls) : ls[i].type # "update"
    BY <1>4, DecidesOf
  <2>2. UNCHANGED <<spooled, lost, told, chain, lookup>>
    BY <1>4, DecidesOf DEF chainVars
  <2>3. WrittenIn(lines') = WrittenIn(lines) /\ LinesOrdered(lines')
    BY <1>a, <1>b, <2>1, OtherLines
  <2>4. Unread' = Unread /\ LinesOrdered(lines)'
    BY <2>3 DEF Unread, WrittenIn, LinesOrdered, Updates
  <2>5. LookupInv'
    BY <1>b, <2>2 DEF LookupInv
  <2>. QED BY <1>d, <2>2, <2>4, <2>5, UpdatesKept
<1>5. CASE TdExits \/ LookupTimesOut \/ StartUpdate
  <2>1. UNCHANGED <<spooled, lost, told, chain, lines>>
    BY <1>5 DEF TdExits, LookupTimesOut, StartUpdate, tdVars, chainVars
  <2>2. LookupInv'
    BY <1>5, <1>b DEF TdExits, LookupTimesOut, StartUpdate, LookupInv
  <2>. QED BY <1>d, <1>e, <2>1, <2>2, UpdatesKept
<1>6. CASE ReadResponse \/ ReadSent \/ ReadNotSent \/ ReadSender
  <2>1. UNCHANGED <<spooled, lost, told, chain>>
    BY <1>6 DEF ReadResponse, ReadSent, ReadNotSent, ReadSender, tdVars, chainVars
  <2>2. PICK t \in {"response", "sent", "notSent", "sender"} : NextLine(t)
    BY <1>6 DEF ReadResponse, ReadSent, ReadNotSent, ReadSender
  <2>3. LookupInv'
    BY <1>6, <1>b DEF ReadResponse, ReadSent, ReadNotSent, ReadSender, LookupInv, chainVars
  <2>. QED BY <1>d, <1>f, <2>1, <2>2, <2>3, UpdatesKept
<1>7. CASE ReadAuth
  <2>1. NextLine("auth") /\ chain' = Append(chain, 0) /\ UNCHANGED <<spooled, lost, told, lookup>>
    BY <1>7 DEF ReadAuth, tdVars
  <2>2. Waiting' = Waiting /\ Ordered(chain, Updates)'
    <3>1. {0} \cap Updates = {}
      BY UpdatesNat
    <3>2. Among(Append(chain, 0), Updates) = Among(chain, Updates) \cup ({0} \cap Updates)
      BY <1>a, QueueAppend
    <3>3. Precedes(Among(chain, Updates), {0} \cap Updates)
      BY <3>1 DEF Precedes
    <3>4. Ordered(Append(chain, 0), Updates)
      BY <1>a, <1>b, <3>3, QueueAppend
    <3>. QED BY <2>1, <3>1, <3>2, <3>4 DEF Waiting, Updates
  <2>3. LookupInv'
    <3>1. Append(chain, 0) # <<>>
      BY <1>a, Nonempty
    <3>. QED BY <2>1, <3>1 DEF LookupInv
  <2>. QED BY <1>f, <2>1, <2>2, <2>3, UpdatesKept
<1>8. CASE ReadUpdate
  <2>1. PICK m : /\ m = Head(lines).value /\ NextLine("update") /\ chain' = Append(chain, m)
                 /\ UNCHANGED <<spooled, lost, told, lookup>>
    BY <1>8 DEF ReadUpdate, tdVars
  <2>2. /\ lines # <<>> /\ lines' = Tail(lines) /\ Head(lines) \in Lines
        /\ Head(lines).type = "update"
    BY <2>1, NextLineOf
  <2>3. m \in Updates /\ m \in Nat
    BY <2>1, <2>2, LineFields, UpdatesNat
  <2>4. /\ WrittenIn(lines) = {m} \cup WrittenIn(Tail(lines)) /\ LinesOrdered(Tail(lines))
        /\ Precedes({m}, WrittenIn(Tail(lines)))
    BY <1>a, <1>b, <2>1, <2>2, ReadOne
  <2>5. /\ Unread = {m} \cup Unread' /\ LinesOrdered(lines)' /\ Precedes({m}, Unread')
    BY <2>2, <2>4 DEF Unread, WrittenIn, LinesOrdered
  <2>6. Waiting' = Waiting \cup {m} /\ Ordered(chain, Updates)'
    <3>1. {m} \cap Updates = {m} /\ Precedes(Among(chain, Updates), {m} \cap Updates)
      BY <1>b, <2>3, <2>5 DEF Precedes, Waiting
    <3>2. /\ Among(Append(chain, m), Updates) = Among(chain, Updates) \cup ({m} \cap Updates)
          /\ Ordered(Append(chain, m), Updates)
      BY <1>a, <1>b, <2>3, <3>1, QueueAppend
    <3>. QED BY <2>1, <3>1, <3>2 DEF Waiting, Updates
  <2>7. Published' = Published /\ Ordered(spooled, Updates)' /\ lost' = lost
    BY <1>b, <2>1 DEF Published, Updates
  <2>8. OrderInv'
    BY <1>b, <2>5, <2>6, <2>7 DEF OrderInv, Precedes
  <2>9. TraceInv'
    BY <1>b, <2>1, <2>5, <2>6, <2>7 DEF TraceInv, Updates
  <2>10. LookupInv'
    <3>1. Append(chain, m) # <<>>
      BY <1>a, <2>3, Nonempty
    <3>. QED BY <2>1, <3>1 DEF LookupInv
  <2>. QED BY <2>8, <2>9, <2>10 DEF UpdateInv
<1>9. CASE PublishUpdate \/ UpdateFails
  <2> DEFINE m == Head(chain)
             M == {m} \cap Updates
  <2>1. /\ chain # <<>> /\ chain' = Tail(chain) /\ lookup' = "none" /\ UNCHANGED <<lines, told>>
    BY <1>9, <1>b DEF PublishUpdate, UpdateFails, LookupInv, tdVars
  <2>2. m \in Nat /\ (m \in Updates <=> m # 0)
    <3>1. chain \in Seq(0..NUpdates)
      BY DEF TypeOK
    <3>2. m \in 0..NUpdates
      BY <2>1, <3>1, TailOfQueue
    <3>. QED BY <3>2, UpdatesNat DEF Updates
  <2>3. /\ Waiting = M \cup Among(Tail(chain), Updates) /\ Ordered(Tail(chain), Updates)
        /\ Precedes(M, Among(Tail(chain), Updates))
    BY <1>a, <1>b, <2>1, QueueTail DEF Waiting
  <2>4. Waiting' = Among(Tail(chain), Updates) /\ Ordered(chain, Updates)'
    BY <2>1, <2>3 DEF Waiting, Updates
  <2>5. Unread' = Unread /\ LinesOrdered(lines)'
    BY <1>e, <2>1
  <2>6. LookupInv'
    BY <2>1 DEF LookupInv
  <2>7. CASE PublishUpdate
    <3>1. spooled' = (IF m = 0 THEN spooled ELSE Append(spooled, m)) /\ lost' = lost
      BY <2>7 DEF PublishUpdate
    <3> HIDE DEF m
    <3>2. Precedes(Published, M) /\ M \cap lost = {}
      <4>1. \A x \in lost : x \in Nat /\ ~(x < x)
        BY <1>a, UpdatesNat
      <4>. QED BY <1>b, <2>3, <4>1 DEF Precedes
    <3>3. Published' = Published \cup M /\ Ordered(spooled, Updates)'
      <4>1. CASE m = 0
        <5>1. M = {}
          BY <2>2, <4>1
        <5>. QED BY <1>b, <3>1, <4>1, <5>1 DEF Published, Updates
      <4>2. CASE m # 0
        <5>1. /\ Among(Append(spooled, m), Updates) = Published \cup M
              /\ Ordered(Append(spooled, m), Updates)
          BY <1>a, <1>b, <2>2, <3>2, QueueAppend DEF Published
        <5>. QED BY <3>1, <4>2, <5>1 DEF Published, Updates
      <4>. QED BY <4>1, <4>2
    <3> HIDE DEF M
    <3>4. OrderInv'
      BY <1>b, <2>3, <2>4, <2>5, <3>1, <3>2, <3>3 DEF OrderInv, Precedes
    <3>5. TraceInv'
      BY <1>b, <2>1, <2>3, <2>4, <2>5, <3>1, <3>3 DEF TraceInv, Updates
    <3>. QED BY <2>6, <3>4, <3>5 DEF UpdateInv
  <2>8. CASE UpdateFails
    <3>1. lost' = lost \cup ({m} \ {0}) /\ spooled' = spooled
      BY <2>8 DEF UpdateFails
    <3> HIDE DEF m
    <3>2. lost' = lost \cup M
      BY <2>2, <3>1
    <3>3. Published' = Published /\ Ordered(spooled, Updates)'
      BY <1>b, <3>1 DEF Published, Updates
    <3>4. M \cap Published = {}
      <4>1. \A x \in Published : x \in Nat /\ ~(x < x)
        BY <1>c, UpdatesNat
      <4>. QED BY <1>b, <2>3, <4>1 DEF Precedes
    <3>5. OrderInv'
      <4> HIDE DEF M
      <4>. QED BY <1>b, <2>3, <2>4, <2>5, <3>2, <3>3, <3>4 DEF OrderInv, Precedes
    <3>6. TraceInv'
      <4> HIDE DEF M
      <4>. QED BY <1>b, <2>1, <2>3, <2>4, <2>5, <3>2, <3>3 DEF TraceInv, Updates
    <3>. QED BY <2>6, <3>5, <3>6 DEF UpdateInv
  <2>. QED BY <1>9, <2>7, <2>8
<1>. QED BY <1>1, <1>2, <1>3, <1>4, <1>5, <1>6, <1>7, <1>8, <1>9, NextGroups

\* Published and waiting messages together are in order.
LEMMA UpdatesAreInOrder ==
    ASSUME TypeOK, UpdateInv
    PROVE  UpdatesInOrder
<1> DEFINE all == spooled \o chain
<1>1. spooled \in Seq(Nat) /\ chain \in Seq(Nat)
  <2>1. spooled \in Seq(Updates) /\ chain \in Seq(0..NUpdates)
    BY DEF TypeOK
  <2>2. spooled \in Seq(Nat)
    BY <2>1, UpdatesNat, Widen
  <2>3. chain \in Seq(Nat)
    BY <2>1, UpdatesNat, Widen
  <2>. QED BY <2>2, <2>3
<1>2. Precedes(Among(spooled, Updates), Among(chain, Updates))
    BY DEF UpdateInv, OrderInv, Precedes, Published, Waiting
<1>3. /\ Among(all, Updates) = Published \cup Waiting
      /\ Ordered(all, Updates)
    BY <1>1, <1>2, QueueJoin DEF Published, Waiting, UpdateInv, OrderInv
<1>4. \A i \in 1..Len(all) : all[i] # 0 => all[i] \in Updates
  <2>1. \A i \in 1..Len(spooled) : spooled[i] \in Updates
    BY Widen DEF TypeOK
  <2>2. \A i \in 1..Len(chain) : chain[i] # 0 => chain[i] \in Updates
    <3>1. chain \in Seq(0..NUpdates)
      BY DEF TypeOK
    <3>2. \A i \in 1..Len(chain) : chain[i] \in 0..NUpdates
      BY <3>1, Widen
    <3>. QED BY <3>2, UpdatesNat DEF Updates
  <2>3. /\ Len(all) = Len(spooled) + Len(chain) /\ Len(spooled) \in Nat /\ Len(chain) \in Nat
        /\ \A k \in 1..Len(spooled) : all[k] = spooled[k]
        /\ \A i \in 1..Len(chain) : all[Len(spooled) + i] = chain[i]
    BY <1>1, Joined
  <2> HIDE DEF all
  <2>4. ASSUME NEW i \in 1..Len(all), i \notin 1..Len(spooled)
        PROVE  i - Len(spooled) \in 1..Len(chain) /\ Len(spooled) + (i - Len(spooled)) = i
    BY <2>3, <2>4
  <2>5. ASSUME NEW i \in 1..Len(all) PROVE all[i] # 0 => all[i] \in Updates
    <3>1. CASE i \in 1..Len(spooled)
      BY <2>1, <2>3, <3>1
    <3>2. CASE i \notin 1..Len(spooled)
      <4>1. all[i] = chain[i - Len(spooled)]
        BY <2>3, <2>4, <3>2
      <4>. QED BY <2>2, <2>4, <3>2, <4>1
    <3>. QED BY <3>1, <3>2
  <2>. QED BY <2>5
<1> HIDE DEF all
<1>5. \A m \in Updates : (\E i \in 1..Len(all) : all[i] = m) <=> m \in Published \cup Waiting
    BY <1>3 DEF Among
<1>6. \A m \in Updates : Written(m) <=> m \in Unread
    BY DEF Written, Unread, WrittenIn
<1>7. \A i, j \in 1..Len(all) : i < j /\ all[i] # 0 /\ all[j] # 0 => all[i] < all[j]
    BY <1>3, <1>4 DEF Ordered
<1>8. \A m \in Updates : /\ ~(m \in Published \cup Waiting /\ m \in Unread)
                         /\ ~(m \in lost /\ m \in Published \cup Waiting \cup Unread)
  <2>1. \A m \in Updates : ~(m < m)
    BY UpdatesNat
  <2>. QED BY <2>1 DEF UpdateInv, OrderInv, Precedes
<1>9. \A m \in Updates : m <= told <=> m \in Published \cup Waiting \/ m \in Unread \/ m \in lost
    BY DEF UpdateInv, TraceInv
<1>. QED BY <1>5, <1>6, <1>7, <1>8, <1>9 DEF UpdatesInOrder, all

-----------------------------------------------------------------------------
(* Types                                                                   *)

\* The part of the type invariant about TDLib and the chain.
StreamTypes ==
    /\ load \in Loads
    /\ td \in {"off", "up", "exited"}
    /\ tdAuth \in AuthStates /\ auth \in AuthStates \cup {""}
    /\ lines \in Seq(Lines)
    /\ told \in 0..NUpdates
    /\ completed \in Seq(Commands) /\ Len(completed) <= MaxCompleted
    /\ chain \in Seq(0..NUpdates)
    /\ lookup \in {"none", "open", "found", "failed"}
    /\ spooled \in Seq(Updates) /\ lost \in SUBSET Updates

\* The part about the session and the commands.
CommandTypes ==
    /\ sock \in {"down", "open", "closed"}
    /\ inbox \in Seq(Commands)
    /\ kind \in [Commands -> EffectKinds \cup {"read", "none"}]
    /\ pc \in [Commands -> Running \cup {"idle", "inbox", "answered", "gone"}]
    /\ out \in [Commands -> Responses \cup Results \cup {"none"}]
    /\ remote \in [Commands -> {"none", "asked", "sending", "accepted", "refused"}]
    /\ blind \in SUBSET Commands

\* The two parts of the type invariant and the limit of the loop are all of it.
LEMMA TypeParts ==
    TypeOK <=> /\ StreamTypes /\ CommandTypes
               /\ Cardinality({c \in Commands : pc[c] \in Running}) <= 1
    BY DEF TypeOK, StreamTypes, CommandTypes

\* The outcomes that are kept never exceed their number.
LEMMA CompletedType ==
    ASSUME NEW q \in Seq(Commands), Len(q) <= MaxCompleted, NEW c \in Commands
    PROVE  LET kept == Append(q, c)
               next == IF Len(kept) > MaxCompleted THEN Tail(kept) ELSE kept
           IN  /\ next \in Seq(Commands) /\ Len(next) <= MaxCompleted
               /\ \A i \in 1..Len(next) : next[i] = c \/ \E j \in 1..Len(q) : next[i] = q[j]
<1> DEFINE kept == Append(q, c)
           next == IF Len(kept) > MaxCompleted THEN Tail(kept) ELSE kept
<1>1. /\ kept \in Seq(Commands) /\ Len(kept) = Len(q) + 1 /\ Len(q) \in Nat /\ MaxCompleted \in Nat
      /\ kept # <<>>
      /\ \A i \in 1..Len(q) + 1 : kept[i] = c \/ \E j \in 1..Len(q) : kept[i] = q[j]
  <2>1. MaxCompleted \in Nat
    BY TelegramAssumption
  <2>2. Len(q) \in Nat /\ kept \in Seq(Commands) /\ Len(kept) = Len(q) + 1 /\ kept # <<>>
    OBVIOUS
  <2>3. kept[Len(q) + 1] = c /\ \A i \in 1..Len(q) : kept[i] = q[i]
    OBVIOUS
  <2>. QED BY <2>1, <2>2, <2>3
<1> HIDE DEF kept
<1>2. /\ Tail(kept) \in Seq(Commands) /\ Len(Tail(kept)) = Len(q)
      /\ \A i \in 1..Len(q) : Tail(kept)[i] = kept[i + 1] /\ i + 1 \in 1..Len(q) + 1
    BY <1>1
<1>3. CASE Len(kept) > MaxCompleted
    BY <1>1, <1>2, <1>3 DEF kept
<1>4. CASE ~(Len(kept) > MaxCompleted)
    BY <1>1, <1>4 DEF kept
<1>. QED BY <1>3, <1>4

\* A step keeps the types of the output of TDLib and of the chain.
LEMMA StreamTypesStep ==
    ASSUME TypeOK, LookupInv, [Next]_vars
    PROVE  StreamTypes'
<1>a. StreamTypes
    BY TypeParts
<1>s. /\ lines \in Seq(Lines) /\ spooled \in Seq(Updates) /\ lost \subseteq Updates
      /\ completed \in Seq(Commands) /\ Len(completed) <= MaxCompleted /\ MaxCompleted \in Nat
    BY <1>a, TelegramAssumption DEF StreamTypes
<1>t. told \in Nat
  <2>1. told \in 0..NUpdates
    BY <1>a DEF StreamTypes
  <2>. QED BY <2>1, UpdatesNat
<1>b. ASSUME NEW t, NextLine(t)
      PROVE  lines' \in Seq(Lines) /\ Head(lines) \in Lines /\ Head(lines).type = t
  <2>1. /\ lines # <<>> /\ lines' = Tail(lines)
        /\ Head(lines) \in Lines /\ Head(lines).type = t
    BY <1>b, NextLineOf
  <2>2. Tail(lines) \in Seq(Lines)
    BY <1>s, <2>1, TailOfQueue
  <2>. QED BY <2>1, <2>2
<1>1. CASE StartTdlib
    BY <1>1, <1>a DEF StartTdlib, StreamTypes, chainVars
<1>2. CASE TdReports
  <2> DEFINE m == told + 1
             l == [type |-> "update", value |-> m]
  <2>1. /\ UNCHANGED <<load, td, tdAuth, auth, completed, chainVars>> /\ told' = m
        /\ told < load.updates /\ lines' = Append(lines, l)
    BY <1>2 DEF TdReports
  <2>2. m \in Updates /\ m \in 0..NUpdates
    <3>1. load.updates \in 0..NUpdates
      BY <1>a, TelegramAssumption DEF StreamTypes
    <3>. QED BY <1>t, <2>1, <3>1, UpdatesNat DEF Updates
  <2>3. l \in Lines
    BY <2>2, LineTypes
  <2> HIDE DEF l, m
  <2>4. lines' \in Seq(Lines)
    BY <1>s, <2>1, <2>3
  <2>. QED BY <1>a, <2>1, <2>2, <2>4 DEF StreamTypes, chainVars
<1>3. CASE TdFindsSender
  <2>1. PICK v \in {"found", "failed"} :
           /\ lines' = Append(lines, [type |-> "sender", value |-> v])
           /\ UNCHANGED <<tdVars, auth, completed, chainVars>>
    BY <1>3 DEF TdFindsSender
  <2>2. PICK l \in Lines : lines' = Append(lines, l)
    BY <2>1, LineTypes
  <2>3. lines' \in Seq(Lines)
    BY <1>s, <2>2
  <2>. QED BY <1>a, <2>1, <2>3 DEF StreamTypes, chainVars, tdVars
<1>4. ASSUME NEW c \in Commands, Decides(c) PROVE StreamTypes'
  <2>1. UNCHANGED <<load, td, told, auth, completed, chainVars>> /\ tdAuth' \in AuthStates
    BY <1>4, DecidesOf
  <2>2. PICK ls \in Seq(Lines) : lines' = lines \o ls
    BY <1>4, DecidesOf
  <2>3. lines' \in Seq(Lines)
    BY <1>s, <2>2
  <2>. QED BY <1>a, <2>1, <2>3 DEF StreamTypes, chainVars
<1>5. CASE TdExits
    BY <1>5, <1>a DEF TdExits, StreamTypes
<1>6. CASE LookupTimesOut \/ StartUpdate
    BY <1>6, <1>a DEF LookupTimesOut, StartUpdate, StreamTypes, tdVars
<1>7. CASE ReadResponse \/ ReadNotSent
  <2>1. /\ UNCHANGED <<tdVars, auth, completed, chainVars>>
        /\ NextLine("response") \/ NextLine("notSent")
    BY <1>7 DEF ReadResponse, ReadNotSent
  <2>. QED BY <1>a, <1>b, <2>1 DEF StreamTypes, tdVars, chainVars
<1>8. CASE ReadSent
  <2>1. PICK c : /\ c = Head(lines).of /\ NextLine("sent")
                 /\ \/ UNCHANGED completed
                    \/ completed' = LET kept == Append(completed, c)
                                    IN  IF Len(kept) > MaxCompleted THEN Tail(kept) ELSE kept
                 /\ UNCHANGED <<tdVars, auth, chainVars>>
    BY <1>8 DEF ReadSent
  <2>2. c \in Commands
    BY <1>b, <2>1, LineFields
  <2>3. completed' \in Seq(Commands) /\ Len(completed') <= MaxCompleted
    BY <1>a, <2>1, <2>2, CompletedType DEF StreamTypes
  <2>. QED BY <1>a, <1>b, <2>1, <2>3 DEF StreamTypes, tdVars, chainVars
<1>c. ASSUME NEW n \in 0..NUpdates, chain' = Append(chain, n) PROVE chain' \in Seq(0..NUpdates)
  <2> DEFINE T == 0..NUpdates
  <2>1. n \in T /\ chain \in Seq(T)
    BY <1>a DEF StreamTypes
  <2> HIDE DEF T
  <2>2. Append(chain, n) \in Seq(T)
    BY <2>1
  <2>. QED BY <1>c, <2>2 DEF T
<1>9. CASE ReadAuth
  <2>1. /\ NextLine("auth") /\ auth' = Head(lines).value /\ chain' = Append(chain, 0)
        /\ UNCHANGED <<tdVars, completed, lookup, spooled, lost>>
    BY <1>9 DEF ReadAuth
  <2>2. auth' \in AuthStates /\ chain' \in Seq(0..NUpdates) /\ lines' \in Seq(Lines)
    BY <1>b, <1>c, <2>1, LineFields, UpdatesNat
  <2>. QED BY <1>a, <2>1, <2>2 DEF StreamTypes, tdVars
<1>10. CASE ReadUpdate
  <2>1. /\ NextLine("update") /\ chain' = Append(chain, Head(lines).value)
        /\ UNCHANGED <<tdVars, auth, completed, lookup, spooled, lost>>
    BY <1>10 DEF ReadUpdate
  <2>2. Head(lines).value \in 0..NUpdates
    <3>1. Head(lines).value \in Updates
      BY <1>b, <2>1, LineFields
    <3>. QED BY <3>1, UpdatesNat DEF Updates
  <2>3. chain' \in Seq(0..NUpdates) /\ lines' \in Seq(Lines)
    BY <1>b, <1>c, <2>1, <2>2
  <2>. QED BY <1>a, <2>1, <2>3 DEF StreamTypes, tdVars
<1>11. CASE ReadSender
  <2>1. /\ NextLine("sender") /\ lookup' \in {lookup, Head(lines).value}
        /\ UNCHANGED <<tdVars, auth, completed, chain, spooled, lost>>
    BY <1>11 DEF ReadSender
  <2>2. Head(lines).value \in {"found", "failed"} /\ lines' \in Seq(Lines)
    BY <1>b, <2>1, LineFields
  <2>. QED BY <1>a, <2>1, <2>2 DEF StreamTypes, tdVars
<1>12. CASE PublishUpdate \/ UpdateFails
  <2>1. /\ chain # <<>> /\ chain' = Tail(chain) /\ lookup' = "none"
        /\ UNCHANGED <<tdVars, lines, auth, completed>>
    BY <1>12 DEF PublishUpdate, UpdateFails, LookupInv
  <2>2. Head(chain) \in 0..NUpdates /\ chain' \in Seq(0..NUpdates)
    BY <1>a, <2>1, TailOfQueue DEF StreamTypes
  <2>3. Head(chain) # 0 => Head(chain) \in Updates
    BY <2>2, UpdatesNat DEF Updates
  <2>4. \/ spooled' = spooled \/ (spooled' = Append(spooled, Head(chain)) /\ Head(chain) # 0)
    BY <1>12 DEF PublishUpdate, UpdateFails
  <2>5. spooled' \in Seq(Updates)
    <3>1. CASE spooled' = spooled
      BY <1>s, <3>1
    <3>2. ASSUME NEW m \in Updates, spooled' = Append(spooled, m) PROVE spooled' \in Seq(Updates)
      BY <1>s, <3>2
    <3>. QED BY <2>3, <2>4, <3>1, <3>2
  <2>6. lost' \in SUBSET Updates
    BY <1>12, <1>s, <2>3 DEF PublishUpdate, UpdateFails
  <2>. QED BY <1>a, <2>1, <2>2, <2>5, <2>6 DEF StreamTypes, tdVars
<1>13. CASE SessionStep \/ UNCHANGED vars
  <2>1. UNCHANGED <<tdVars, lines, auth, chainVars>>
    BY <1>13 DEF SessionStep, Connect, SocketFails, SessionEnds, Take, TakeCommand,
                TakeFinishLink, Takes, Timers, RequestFails, SendTimesOut, AuthTimesOut,
                Continuation, RequestDone, LinkStepDone, SendQueued, Continues, Incoming, Reply,
                vars
  <2>2. \/ completed' = completed
        \/ \E c \in Commands : Contains(completed, c) /\ completed' = RemoveFirst(completed, c)
    BY <1>13 DEF SessionStep, Connect, SocketFails, SessionEnds, Take, TakeCommand,
                TakeFinishLink, Takes, Timers, RequestFails, SendTimesOut, AuthTimesOut,
                Continuation, RequestDone, LinkStepDone, SendQueued, Continues, Incoming, Reply,
                vars
  <2>3. completed' \in Seq(Commands) /\ Len(completed') <= MaxCompleted
    <3>1. CASE completed' = completed
      BY <1>a, <3>1 DEF StreamTypes
    <3>2. ASSUME NEW c \in Commands, Contains(completed, c), completed' = RemoveFirst(completed, c)
          PROVE  completed' \in Seq(Commands) /\ Len(completed') <= MaxCompleted
      <4>1. completed' \in Seq(Commands) /\ Len(completed') <= Len(completed)
        BY <1>a, <3>2, RemoveOne DEF StreamTypes
      <4>. QED BY <1>s, <4>1
    <3>. QED BY <2>2, <3>1, <3>2
  <2>. QED BY <1>a, <2>1, <2>3 DEF StreamTypes, tdVars, chainVars
<1>. QED BY <1>1, <1>2, <1>3, <1>4, <1>5, <1>6, <1>7, <1>8, <1>9, <1>10, <1>11, <1>12, <1>13,
            NextGroups

\* What Settle does to a command, and that it does nothing to others.
LEMMA SettleOf ==
    ASSUME CommandTypes, NEW c \in Commands, NEW r \in Results, Settle(c, r)
    PROVE  /\ pc'[c] = "reply" /\ out'[c] = r
           /\ \A d \in Commands \ {c} : pc'[d] = pc[d] /\ out'[d] = out[d]
           /\ pc' \in [Commands -> Running \cup {"idle", "inbox", "answered", "gone"}]
           /\ out' \in [Commands -> Responses \cup Results \cup {"none"}]
    BY DEF Settle, CommandTypes, Running

\* What the loop asks TDLib for.
Asked == EffectKinds \cup {"read"}

\* The loop takes the command at the head of the inbox.
LEMMA TakeOf ==
    ASSUME CommandTypes, InboxInv, Take
    PROVE  \E c \in Commands :
              /\ Free /\ inbox # <<>> /\ Head(inbox) = c /\ pc[c] = "inbox"
              /\ inbox' = Tail(inbox)
              /\ UNCHANGED <<tdVars, lines, auth, completed, chainVars, sock, blind>>
              /\ \/ \E k \in Asked : Request(c, k)
                 \/ \E r \in {"ok", "failed"} : AnswerNow(c, r)
<1>1. PICK c \in Commands : TakeFinishLink(c) \/ \E t \in Types : TakeCommand(c, t)
    BY DEF Take
<1>2. Takes(c)
    BY <1>1 DEF TakeFinishLink, TakeCommand
<1>3. /\ Free /\ inbox # <<>> /\ Head(inbox) = c /\ inbox' = Tail(inbox)
      /\ UNCHANGED <<tdVars, lines, auth, completed, chainVars, sock, blind>>
    BY <1>2 DEF Takes
<1>4. pc[c] = "inbox"
  <2>1. Head(inbox) = inbox[1] /\ 1 \in 1..Len(inbox)
    BY <1>3, TailOfQueue DEF CommandTypes
  <2>. QED BY <1>3, <2>1 DEF InboxInv
<1>5. \/ \E k \in Asked : Request(c, k)
      \/ \E r \in {"ok", "failed"} : AnswerNow(c, r)
  <2>1. CASE TakeFinishLink(c)
    BY <2>1 DEF TakeFinishLink, Asked, EffectKinds, LinkKinds
  <2>2. ASSUME NEW t \in Types, TakeCommand(c, t)
        PROVE  \/ \E k \in Asked : Request(c, k)
               \/ \E r \in {"ok", "failed"} : AnswerNow(c, r)
    <3>1. (IF t = "link.start" THEN "phone" ELSE t) \in Asked
      BY <2>2 DEF TakeCommand, Types, Asked, EffectKinds, LinkKinds
    <3>. QED BY <2>2, <3>1 DEF TakeCommand
  <2>. QED BY <1>1, <2>1, <2>2
<1>. QED BY <1>3, <1>4, <1>5

\* What Request does to the command, and that it does nothing to others.
LEMMA RequestOf ==
    ASSUME CommandTypes, NEW c \in Commands, NEW k \in Asked, Request(c, k)
    PROVE  /\ kind'[c] = k
           /\ \/ pc'[c] = "request" /\ remote'[c] = "asked" /\ out'[c] = out[c]
              \/ pc'[c] = "reply" /\ remote'[c] = remote[c] /\ out'[c] = "failed"
           /\ \A d \in Commands \ {c} : /\ kind'[d] = kind[d] /\ pc'[d] = pc[d]
                                        /\ remote'[d] = remote[d] /\ out'[d] = out[d]
           /\ kind' \in [Commands -> EffectKinds \cup {"read", "none"}]
           /\ pc' \in [Commands -> Running \cup {"idle", "inbox", "answered", "gone"}]
           /\ out' \in [Commands -> Responses \cup Results \cup {"none"}]
           /\ remote' \in [Commands -> {"none", "asked", "sending", "accepted", "refused"}]
<1>1. /\ kind'[c] = k /\ kind' \in [Commands -> EffectKinds \cup {"read", "none"}]
      /\ \A d \in Commands \ {c} : kind'[d] = kind[d]
    BY DEF Request, CommandTypes, Asked
<1>2. CASE td = "up"
    BY <1>1, <1>2 DEF Request, CommandTypes, Running
<1>3. CASE td # "up"
  <2>1. Settle(c, "failed") /\ UNCHANGED remote /\ "failed" \in Results
    BY <1>3 DEF Request, Results
  <2>. QED BY <1>1, <2>1, SettleOf DEF CommandTypes
<1>. QED BY <1>2, <1>3

\* A step that only moves running commands on.
Steady ==
    /\ UNCHANGED inbox
    /\ \A d \in Commands : pc'[d] # pc[d] => pc[d] \in Running /\ pc'[d] \in Running

\* A wait that a timer ends.
LEMMA TimersOf ==
    ASSUME NEW c \in Commands, Timers(c)
    PROVE  /\ pc[c] \in {"request", "sendWaiter", "authWaiter"}
           /\ \E r \in {"failed", "unknown"} : Settle(c, r)
           /\ LoseSight({c})
           /\ UNCHANGED <<tdVars, lines, auth, completed, chainVars, sessionVars, kind, remote>>
    BY DEF Timers, RequestFails, SendTimesOut, AuthTimesOut

\* What a continuation does.
LEMMA ContinuationOf ==
    ASSUME CommandTypes, NEW c \in Commands, Continuation(c)
    PROVE  /\ pc[c] = "resolved"
           /\ UNCHANGED <<tdVars, lines, auth, chainVars, sessionVars, kind, remote>>
           /\ pc'[c] \in {"reply", "sendWaiter", "authWaiter"}
           /\ \A d \in Commands \ {c} : pc'[d] = pc[d] /\ out'[d] = out[d]
           /\ pc' \in [Commands -> Running \cup {"idle", "inbox", "answered", "gone"}]
           /\ out' \in [Commands -> Responses \cup Results \cup {"none"}]
           /\ blind' = blind \/ LoseSight({c})
<1>1. /\ pc[c] = "resolved"
      /\ UNCHANGED <<tdVars, lines, auth, chainVars, sessionVars, kind, remote>>
      /\ blind' = blind \/ LoseSight({c})
    BY DEF Continuation, RequestDone, LinkStepDone, SendQueued, Continues
<1>2. \/ \E r \in Results : Settle(c, r)
      \/ \E w \in {"sendWaiter", "authWaiter"} : pc' = [pc EXCEPT ![c] = w] /\ UNCHANGED out
    BY DEF Continuation, RequestDone, LinkStepDone, SendQueued, Results
<1>3. CASE \E r \in Results : Settle(c, r)
    BY <1>1, <1>3, SettleOf
<1>4. CASE \E w \in {"sendWaiter", "authWaiter"} : pc' = [pc EXCEPT ![c] = w] /\ UNCHANGED out
    BY <1>1, <1>4 DEF CommandTypes, Running
<1>. QED BY <1>2, <1>3, <1>4

\* What the reading of a line does to the command it is about.
LEMMA ReadOf ==
    ASSUME TypeOK, ReadResponse \/ ReadSent \/ ReadNotSent
    PROVE  /\ UNCHANGED <<tdVars, auth, chainVars, sessionVars, kind, remote, blind>>
           /\ lines # <<>> /\ lines' = Tail(lines)
           /\ \E c \in Commands :
                 /\ c = Head(lines).of
                 /\ \/ UNCHANGED <<pc, out>>
                    \/ /\ Head(lines).type = "response" /\ pc[c] = "request"
                       /\ pc' = [pc EXCEPT ![c] = "resolved"]
                       /\ out' = [out EXCEPT ![c] = Head(lines).value]
                       /\ Head(lines).value \in Responses
                    \/ /\ Head(lines).type = "sent" /\ pc[c] = "sendWaiter" /\ Settle(c, "ok")
                    \/ /\ Head(lines).type = "notSent" /\ pc[c] = "sendWaiter"
                       /\ Settle(c, "failed")
<1>1. PICK t \in {"response", "sent", "notSent"} : NextLine(t)
    BY DEF ReadResponse, ReadSent, ReadNotSent
<1>2. lines # <<>> /\ lines' = Tail(lines) /\ Head(lines) \in Lines /\ Head(lines).type = t
    BY <1>1, NextLineOf
<1>3. /\ Head(lines).of \in Commands
      /\ Head(lines).type = "response" => Head(lines).value \in Responses
    BY <1>2, LineFields
<1>4. CASE ReadResponse
    BY <1>2, <1>3, <1>4 DEF ReadResponse, NextLine
<1>5. CASE ReadSent
    BY <1>2, <1>3, <1>5 DEF ReadSent, NextLine
<1>6. CASE ReadNotSent
    BY <1>2, <1>3, <1>6 DEF ReadNotSent, NextLine
<1>. QED BY <1>4, <1>5, <1>6

\* Steps that leave the session and the commands alone.
Aside ==
    \/ StartTdlib \/ TdReports \/ TdFindsSender \/ LookupTimesOut \/ ReadUpdate \/ ReadSender
    \/ StartUpdate \/ PublishUpdate \/ UpdateFails \/ UNCHANGED vars

\* They change nothing that a command depends on.
LEMMA AsideOf ==
    ASSUME Aside
    PROVE  UNCHANGED <<inbox, commandVars, completed>> /\ sock' = sock
    BY DEF Aside, StartTdlib, TdReports, TdFindsSender, LookupTimesOut, ReadUpdate, ReadSender,
           StartUpdate, PublishUpdate, UpdateFails, vars, sessionVars

\* What is left are the steps about commands.
LEMMA CommandSteps ==
    ASSUME [Next]_vars
    PROVE  \/ Aside \/ TdExits \/ ReadAuth \/ ReadResponse \/ ReadSent \/ ReadNotSent
           \/ Connect \/ SocketFails \/ SessionEnds \/ Take
           \/ \E c \in Commands :
                 Decides(c) \/ Timers(c) \/ Continuation(c) \/ Incoming(c) \/ Reply(c)
    BY NextGroups DEF Aside, SessionStep

\* The authorization waiters that a state wakes, and the exit of TDLib.
LEMMA WakeOf ==
    ASSUME CommandTypes, TdExits \/ ReadAuth
    PROVE  /\ UNCHANGED <<sessionVars, kind, remote, completed>>
           /\ \A d \in Commands :
                 \/ pc'[d] = pc[d] /\ out'[d] = out[d]
                 \/ /\ pc[d] \in {"request", "sendWaiter"} /\ pc'[d] = "reply"
                    /\ out'[d] = "failed" /\ (kind[d] \in EffectKinds => d \in blind')
                 \/ pc[d] = "authWaiter" /\ pc'[d] = "reply" /\ out'[d] = "ok"
           /\ blind \subseteq blind'
           /\ \A d \in blind' : d \in blind \/ /\ d \in Commands /\ kind[d] \in EffectKinds
                                               /\ pc[d] \in {"request", "sendWaiter"}
           /\ pc' \in [Commands -> Running \cup {"idle", "inbox", "answered", "gone"}]
           /\ out' \in [Commands -> Responses \cup Results \cup {"none"}]
<1>1. CASE TdExits
  <2> DEFINE C == {c \in Commands : pc[c] \in {"request", "sendWaiter"}}
  <2>1. /\ UNCHANGED <<sessionVars, kind, remote, completed>>
        /\ pc' = [c \in Commands |-> IF c \in C THEN "reply" ELSE pc[c]]
        /\ out' = [c \in Commands |-> IF c \in C THEN "failed" ELSE out[c]]
        /\ blind' = blind \cup {c \in C : kind[c] \in EffectKinds}
    BY <1>1 DEF TdExits, LoseSight
  <2>2. /\ pc' \in [Commands -> Running \cup {"idle", "inbox", "answered", "gone"}]
        /\ out' \in [Commands -> Responses \cup Results \cup {"none"}]
    BY <2>1 DEF CommandTypes, Running, Results
  <2>. QED BY <2>1, <2>2
<1>2. CASE ReadAuth
  <2>1. PICK C \in SUBSET Commands :
          /\ \A c \in C : pc[c] = "authWaiter"
          /\ UNCHANGED <<sessionVars, kind, remote, completed, blind>>
          /\ pc' = [c \in Commands |-> IF c \in C THEN "reply" ELSE pc[c]]
          /\ out' = [c \in Commands |-> IF c \in C THEN "ok" ELSE out[c]]
    BY <1>2 DEF ReadAuth
  <2>2. /\ pc' \in [Commands -> Running \cup {"idle", "inbox", "answered", "gone"}]
        /\ out' \in [Commands -> Responses \cup Results \cup {"none"}]
    BY <2>1 DEF CommandTypes, Running, Results
  <2>. QED BY <2>1, <2>2
<1>. QED BY <1>1, <1>2

\* The result is written, or the session ends and its inbox with it.
LEMMA ReplyOf ==
    ASSUME CommandTypes, NEW c \in Commands, Reply(c)
    PROVE  /\ pc[c] = "reply" /\ UNCHANGED <<tdVars, lines, completed, kind, out, remote, blind>>
           /\ \/ /\ pc' = [pc EXCEPT ![c] = "answered"] /\ UNCHANGED <<sock, inbox>>
              \/ /\ pc' = [d \in Commands |-> IF d = c \/ pc[d] = "inbox" THEN "gone" ELSE pc[d]]
                 /\ sock' = "down" /\ inbox' = <<>>
           /\ pc' \in [Commands -> Running \cup {"idle", "inbox", "answered", "gone"}]
<1>1. /\ pc[c] = "reply" /\ UNCHANGED <<tdVars, lines, completed, kind, out, remote, blind>>
      /\ \/ /\ pc' = [pc EXCEPT ![c] = "answered"] /\ UNCHANGED <<sock, inbox>>
         \/ /\ pc' = [d \in Commands |-> IF d = c \/ pc[d] = "inbox" THEN "gone" ELSE pc[d]]
            /\ sock' = "down" /\ inbox' = <<>>
    BY DEF Reply
<1>2. pc' \in [Commands -> Running \cup {"idle", "inbox", "answered", "gone"}]
    BY <1>1 DEF CommandTypes
<1>. QED BY <1>1, <1>2

\* A step keeps the types of the session and of the commands.
LEMMA CommandTypesStep ==
    ASSUME TypeOK, InboxInv, [Next]_vars
    PROVE  CommandTypes'
<1>a. CommandTypes
    BY TypeParts
<1>1. CASE Aside
    BY <1>1, <1>a, AsideOf DEF CommandTypes, commandVars
<1>2. CASE TdExits \/ ReadAuth
    BY <1>2, <1>a, WakeOf DEF CommandTypes, sessionVars
<1>3. CASE ReadResponse \/ ReadSent \/ ReadNotSent
  <2>1. /\ UNCHANGED <<sessionVars, kind, remote, blind>>
        /\ \E c \in Commands :
              \/ UNCHANGED <<pc, out>>
              \/ \E v \in Responses : /\ pc' = [pc EXCEPT ![c] = "resolved"]
                                      /\ out' = [out EXCEPT ![c] = v]
              \/ \E r \in Results : Settle(c, r)
    <3>1. "ok" \in Results /\ "failed" \in Results
      BY DEF Results
    <3>. QED BY <1>3, <3>1, ReadOf
  <2>2. /\ pc' \in [Commands -> Running \cup {"idle", "inbox", "answered", "gone"}]
        /\ out' \in [Commands -> Responses \cup Results \cup {"none"}]
    BY <1>a, <2>1, SettleOf DEF CommandTypes, Running
  <2>. QED BY <1>a, <2>1, <2>2 DEF CommandTypes, sessionVars
<1>4. CASE Connect \/ SocketFails \/ SessionEnds
  <2>1. sock' \in {"open", "closed", "down"} /\ UNCHANGED <<inbox, commandVars>>
    BY <1>4 DEF Connect, SocketFails, SessionEnds
  <2>. QED BY <1>a, <2>1 DEF CommandTypes, commandVars
<1>5. CASE Take
  <2>1. PICK c \in Commands :
              /\ inbox # <<>> /\ inbox' = Tail(inbox) /\ UNCHANGED <<sock, blind>>
              /\ \/ \E k \in Asked : Request(c, k)
                 \/ \E r \in {"ok", "failed"} : AnswerNow(c, r)
    BY <1>5, <1>a, TakeOf
  <2>2. inbox' \in Seq(Commands)
    BY <1>a, <2>1, TailOfQueue DEF CommandTypes
  <2>3. CASE \E k \in Asked : Request(c, k)
    BY <1>a, <2>1, <2>2, <2>3, RequestOf DEF CommandTypes
  <2>4. CASE \E r \in {"ok", "failed"} : AnswerNow(c, r)
    <3>1. PICK r \in Results : Settle(c, r) /\ UNCHANGED <<kind, remote>>
      BY <2>4 DEF AnswerNow, Results
    <3>. QED BY <1>a, <2>1, <2>2, <3>1, SettleOf DEF CommandTypes
  <2>. QED BY <2>1, <2>3, <2>4
<1>6. ASSUME NEW c \in Commands, Decides(c) PROVE CommandTypes'
  <2>1. /\ UNCHANGED <<sessionVars, kind, pc, out, blind>>
        /\ \E d \in {"sending", "accepted", "refused"} : remote' = [remote EXCEPT ![c] = d]
    BY <1>6, DecidesOf
  <2>. QED BY <1>a, <2>1 DEF CommandTypes, sessionVars
<1>7. ASSUME NEW c \in Commands, Timers(c) PROVE CommandTypes'
  <2>1. PICK r \in Results : Settle(c, r)
    BY <1>7, TimersOf DEF Results
  <2>2. UNCHANGED <<sessionVars, kind, remote>> /\ blind' \in SUBSET Commands
    BY <1>7, <1>a, TimersOf DEF LoseSight, CommandTypes
  <2>. QED BY <1>a, <2>1, <2>2, SettleOf DEF CommandTypes, sessionVars
<1>8. ASSUME NEW c \in Commands, Continuation(c) PROVE CommandTypes'
  <2>1. blind' \in SUBSET Commands
    BY <1>8, <1>a, ContinuationOf DEF LoseSight, CommandTypes
  <2>. QED BY <1>8, <1>a, <2>1, ContinuationOf DEF CommandTypes, sessionVars
<1>9. ASSUME NEW c \in Commands, Incoming(c) PROVE CommandTypes'
  <2>1. /\ inbox' = Append(inbox, c) /\ pc' = [pc EXCEPT ![c] = "inbox"]
        /\ UNCHANGED <<sock, kind, out, remote, blind>>
    BY <1>9 DEF Incoming
  <2>2. inbox' \in Seq(Commands)
    BY <1>a, <2>1 DEF CommandTypes
  <2>. QED BY <1>a, <2>1, <2>2 DEF CommandTypes
<1>10. ASSUME NEW c \in Commands, Reply(c) PROVE CommandTypes'
  <2>1. <<>> \in Seq(Commands)
    OBVIOUS
  <2>. QED BY <1>10, <1>a, <2>1, ReplyOf DEF CommandTypes
<1>. QED BY <1>1, <1>2, <1>3, <1>4, <1>5, <1>6, <1>7, <1>8, <1>9, <1>10, CommandSteps

-----------------------------------------------------------------------------
(* The session loop                                                        *)

\* Such a step leaves the inbox as it is and starts no command.
LEMMA SteadyKeeps ==
    ASSUME InboxInv, LoopInv, Steady, CommandTypes
    PROVE  InboxInv' /\ LoopInv'
<1>1. \A i \in 1..Len(inbox) : inbox[i] \in Commands
    BY Widen DEF CommandTypes
<1>2. "inbox" \notin Running
    BY DEF Running
<1>3. InboxInv'
    BY <1>1, <1>2 DEF InboxInv, Steady
<1>4. \A d \in Commands : pc'[d] \in Running => pc[d] \in Running
    BY DEF Steady
<1>5. LoopInv'
    BY <1>4 DEF LoopInv, Running
<1>. QED BY <1>3, <1>5

\* Commands are taken one by one.
LEMMA LoopStep ==
    ASSUME TypeOK, InboxInv, LoopInv, [Next]_vars
    PROVE  InboxInv' /\ LoopInv'
<1>a. CommandTypes
    BY TypeParts
<1>b. \A i \in 1..Len(inbox) : inbox[i] \in Commands
    BY <1>a, Widen DEF CommandTypes
<1>r. Running' = Running
    BY DEF Running
<1>1. CASE Aside \/ Connect \/ SocketFails \/ SessionEnds
  <2>1. UNCHANGED <<inbox, pc>>
    BY <1>1, AsideOf DEF Connect, SocketFails, SessionEnds, commandVars
  <2>. QED BY <1>a, <2>1, SteadyKeeps DEF Steady
<1>2. CASE TdExits \/ ReadAuth
  <2>1. Steady
    BY <1>2, <1>a, WakeOf DEF Steady, Running, sessionVars
  <2>. QED BY <1>a, <2>1, SteadyKeeps
<1>3. CASE ReadResponse \/ ReadSent \/ ReadNotSent
  <2>1. /\ UNCHANGED inbox
        /\ \E c \in Commands :
              \/ UNCHANGED pc
              \/ pc[c] = "request" /\ pc' = [pc EXCEPT ![c] = "resolved"]
              \/ pc[c] = "sendWaiter" /\ pc' = [pc EXCEPT ![c] = "reply"]
    BY <1>3, ReadOf DEF sessionVars, Settle
  <2>2. Steady
    BY <1>a, <2>1 DEF Steady, Running, CommandTypes
  <2>. QED BY <1>a, <2>2, SteadyKeeps
<1>4. ASSUME NEW c \in Commands, Decides(c) PROVE InboxInv' /\ LoopInv'
  <2>1. UNCHANGED <<inbox, pc>>
    BY <1>4, DecidesOf DEF sessionVars
  <2>. QED BY <1>a, <2>1, SteadyKeeps DEF Steady
<1>5. ASSUME NEW c \in Commands, Timers(c) PROVE InboxInv' /\ LoopInv'
  <2>1. Steady
    BY <1>5, <1>a, TimersOf DEF Steady, Running, CommandTypes, Settle, sessionVars
  <2>. QED BY <1>a, <2>1, SteadyKeeps
<1>6. ASSUME NEW c \in Commands, Continuation(c) PROVE InboxInv' /\ LoopInv'
  <2>1. Steady
    BY <1>6, <1>a, ContinuationOf DEF Steady, Running, sessionVars
  <2>. QED BY <1>a, <2>1, SteadyKeeps
<1>7. ASSUME NEW c \in Commands, Incoming(c) PROVE InboxInv' /\ LoopInv'
  <2>1. inbox' = Append(inbox, c) /\ pc[c] = "idle" /\ pc' = [pc EXCEPT ![c] = "inbox"]
    BY <1>7 DEF Incoming
  <2>2. pc'[c] = "inbox" /\ \A d \in Commands \ {c} : pc'[d] = pc[d]
    BY <1>a, <2>1 DEF CommandTypes
  <2>3. /\ Len(inbox) \in Nat /\ Len(inbox') = Len(inbox) + 1 /\ inbox'[Len(inbox) + 1] = c
        /\ \A i \in 1..Len(inbox) : inbox'[i] = inbox[i]
        /\ \A i \in 1..Len(inbox) + 1 : i \in 1..Len(inbox) \/ i = Len(inbox) + 1
    BY <1>a, <2>1 DEF CommandTypes
  <2>4. \A i \in 1..Len(inbox) : inbox[i] # c
    BY <2>1 DEF InboxInv
  <2>5. InboxInv'
    BY <1>b, <2>2, <2>3, <2>4 DEF InboxInv
  <2>6. LoopInv'
    BY <2>2 DEF LoopInv, Running
  <2>. QED BY <2>5, <2>6
<1>8. CASE Take
  <2>1. PICK c \in Commands :
              /\ Free /\ inbox # <<>> /\ Head(inbox) = c /\ inbox' = Tail(inbox)
              /\ \/ \E k \in Asked : Request(c, k)
                 \/ \E r \in {"ok", "failed"} : AnswerNow(c, r)
    BY <1>8, <1>a, TakeOf
  <2>2. \A d \in Commands \ {c} : pc'[d] = pc[d]
    <3>1. CASE \E k \in Asked : Request(c, k)
      BY <1>a, <3>1, RequestOf
    <3>2. CASE \E r \in {"ok", "failed"} : AnswerNow(c, r)
      BY <1>a, <3>2, SettleOf DEF AnswerNow, Results
    <3>. QED BY <2>1, <3>1, <3>2
  <2>3. /\ Len(inbox) \in Nat /\ inbox[1] = c /\ 1 \in 1..Len(inbox)
        /\ Len(inbox') = Len(inbox) - 1
        /\ \A i \in 1..Len(inbox) - 1 : inbox'[i] = inbox[i + 1]
    BY <1>a, <2>1, TailOfQueue DEF CommandTypes
  <2>4. \A i \in 1..Len(inbox) - 1 : i + 1 \in 1..Len(inbox) /\ i + 1 # 1
    BY <2>3
  <2>5. \A i \in 1..Len(inbox) - 1 : inbox[i + 1] # c
    BY <2>3, <2>4 DEF InboxInv
  <2>6. \A i, j \in 1..Len(inbox) - 1 : i # j => i + 1 # j + 1
    OBVIOUS
  <2>7. InboxInv'
    <3>1. \A i \in 1..Len(inbox') : pc'[inbox'[i]] = "inbox"
      BY <1>b, <2>2, <2>3, <2>4, <2>5 DEF InboxInv
    <3>2. ASSUME NEW i \in 1..Len(inbox'), NEW j \in 1..Len(inbox'), i # j
          PROVE  inbox'[i] # inbox'[j]
      <4>1. inbox'[i] = inbox[i + 1] /\ inbox'[j] = inbox[j + 1] /\ i + 1 # j + 1
        BY <2>3, <2>6, <3>2
      <4>2. i + 1 \in 1..Len(inbox) /\ j + 1 \in 1..Len(inbox)
        BY <2>3, <2>4
      <4>. QED BY <4>1, <4>2 DEF InboxInv
    <3>. QED BY <3>1, <3>2 DEF InboxInv
  <2>8. LoopInv'
    BY <1>r, <2>1, <2>2 DEF LoopInv, Free
  <2>. QED BY <2>7, <2>8
<1>9. ASSUME NEW c \in Commands, Reply(c) PROVE InboxInv' /\ LoopInv'
  <2>1. CASE pc' = [pc EXCEPT ![c] = "answered"] /\ UNCHANGED inbox
    <3>1. pc[c] = "reply" /\ pc'[c] = "answered" /\ \A d \in Commands \ {c} : pc'[d] = pc[d]
      BY <1>9, <1>a, <2>1, ReplyOf DEF CommandTypes
    <3>2. InboxInv'
      BY <1>b, <2>1, <3>1 DEF InboxInv
    <3>3. LoopInv'
      BY <3>1 DEF LoopInv, Running
    <3>. QED BY <3>2, <3>3
  <2>2. CASE /\ pc' = [d \in Commands |-> IF d = c \/ pc[d] = "inbox" THEN "gone" ELSE pc[d]]
             /\ inbox' = <<>>
    <3>1. \A d \in Commands : pc'[d] \in {pc[d], "gone"}
      BY <2>2
    <3>2. LoopInv'
      BY <3>1 DEF LoopInv, Running
    <3>3. InboxInv'
      BY <2>2 DEF InboxInv
    <3>. QED BY <3>2, <3>3
  <2>. QED BY <1>9, <1>a, <2>1, <2>2, ReplyOf
<1>. QED BY <1>1, <1>2, <1>3, <1>4, <1>5, <1>6, <1>7, <1>8, <1>9, CommandSteps

-----------------------------------------------------------------------------
(* Commands and their outcome                                              *)

\* TDLib never takes back what it has decided, and does not forget a request.
Progress ==
    \A c \in Commands :
        /\ remote[c] \in {"accepted", "refused"} => remote'[c] = remote[c]
        /\ remote[c] # "none" => remote'[c] # "none"
        /\ kind[c] = "send" => kind'[c] = "send"

\* Steps that neither submit nor decide.
LEMMA Undecided ==
    ASSUME CommandTypes,
           \/ Aside \/ TdExits \/ ReadAuth \/ ReadResponse \/ ReadSent \/ ReadNotSent
           \/ Connect \/ SocketFails \/ SessionEnds
           \/ \E c \in Commands : Timers(c) \/ Continuation(c) \/ Incoming(c) \/ Reply(c)
    PROVE  UNCHANGED <<kind, remote>>
<1>1. CASE Aside
    BY <1>1, AsideOf DEF commandVars
<1>2. CASE TdExits \/ ReadAuth
    BY <1>2, WakeOf
<1>3. CASE ReadResponse \/ ReadSent \/ ReadNotSent
    BY <1>3 DEF ReadResponse, ReadSent, ReadNotSent
<1>4. CASE Connect \/ SocketFails \/ SessionEnds
    BY <1>4 DEF Connect, SocketFails, SessionEnds, commandVars
<1>5. ASSUME NEW c \in Commands, Timers(c) \/ Continuation(c) \/ Incoming(c) \/ Reply(c)
      PROVE  UNCHANGED <<kind, remote>>
    BY <1>5, TimersOf, ContinuationOf, ReplyOf DEF Incoming
<1>. QED BY <1>1, <1>2, <1>3, <1>4, <1>5

\* Every step is progress in this sense.
LEMMA ProgressStep ==
    ASSUME TypeOK, InboxInv, CommandInv, [Next]_vars
    PROVE  Progress
<1>a. CommandTypes
    BY TypeParts
<1>1. ASSUME NEW c \in Commands, Decides(c) PROVE Progress
  <2>1. PICK d \in {"sending", "accepted", "refused"} :
           /\ remote' = [remote EXCEPT ![c] = d] /\ remote[c] \in {"asked", "sending"}
           /\ kind' = kind
    BY <1>1, DecidesOf
  <2>2. remote'[c] = d /\ \A e \in Commands \ {c} : remote'[e] = remote[e]
    BY <1>a, <2>1 DEF CommandTypes
  <2>. QED BY <2>1, <2>2 DEF Progress
<1>2. CASE Take
  <2>1. PICK c \in Commands :
           /\ pc[c] = "inbox"
           /\ \/ \E k \in Asked : Request(c, k)
              \/ \E r \in {"ok", "failed"} : AnswerNow(c, r)
    BY <1>2, <1>a, TakeOf
  <2>2. kind[c] = "none" /\ remote[c] = "none"
    BY <2>1 DEF CommandInv, CommandOK, IdleOK
  <2>3. \A d \in Commands \ {c} : kind'[d] = kind[d] /\ remote'[d] = remote[d]
    BY <1>a, <2>1, RequestOf DEF AnswerNow
  <2>. QED BY <2>2, <2>3 DEF Progress
<1>3. CASE UNCHANGED <<kind, remote>>
    BY <1>3 DEF Progress
<1>. QED BY <1>a, <1>1, <1>2, <1>3, CommandSteps, Undecided

\* A line that was true stays true.
LEMMA LineKept ==
    ASSUME NEW l \in Lines, LineOK(l), Progress
    PROVE  LineOK(l)'
<1>1. ASSUME NEW c \in Commands, NEW v, Agrees(c, v) PROVE Agrees(c, v)'
    BY <1>1 DEF Agrees, Progress
<1>2. l.type = "response" => Agrees(l.of, l.value)'
    BY <1>1, LineFields DEF LineOK
<1>3. /\ l.type = "sent" => remote'[l.of] = "accepted"
      /\ l.type = "notSent" => remote'[l.of] = "refused"
    BY LineFields DEF LineOK, Progress
<1>. QED BY <1>2, <1>3 DEF LineOK

\* What TDLib writes agrees with what it has decided.
LEMMA LinesStep ==
    ASSUME TypeOK, InboxInv, CommandInv, [Next]_vars
    PROVE  LinesInv'
<1>a. Progress /\ lines \in Seq(Lines) /\ LinesInv
    BY ProgressStep DEF TypeOK, CommandInv
<1>b. \A i \in 1..Len(lines) : lines[i] \in Lines /\ LineOK(lines[i])
    BY <1>a, Widen DEF LinesInv
<1>c. ASSUME NEW l \in Lines, \E i \in 1..Len(lines) : l = lines[i] PROVE LineOK(l)'
    BY <1>a, <1>b, <1>c, LineKept
<1>1. SUFFICES ASSUME NEW i \in 1..Len(lines'), NEW l, l = lines'[i]
               PROVE  LineOK(l)'
    BY DEF LinesInv
<1>2. CASE lines' = lines
    BY <1>b, <1>c, <1>1, <1>2
<1>3. CASE lines # <<>> /\ lines' = Tail(lines)
  <2>1. /\ Len(lines') = Len(lines) - 1 /\ Len(lines) \in Nat
        /\ \A j \in 1..Len(lines) - 1 : lines'[j] = lines[j + 1]
    BY <1>a, <1>3, TailOfQueue
  <2>2. l = lines[i + 1] /\ i + 1 \in 1..Len(lines)
    BY <1>1, <2>1
  <2>. QED BY <1>b, <1>c, <2>2
<1>4. ASSUME NEW ls \in Seq(Lines), lines' = lines \o ls,
             \A j \in 1..Len(ls) : LineOK(ls[j])'
      PROVE  LineOK(l)'
  <2>1. /\ Len(lines') = Len(lines) + Len(ls) /\ Len(lines) \in Nat /\ Len(ls) \in Nat
        /\ \A j \in 1..Len(lines) : lines'[j] = lines[j]
        /\ \A j \in 1..Len(ls) : lines'[Len(lines) + j] = ls[j]
    BY <1>a, <1>4, Joined
  <2>2. CASE i \in 1..Len(lines)
    BY <1>b, <1>c, <1>1, <2>1, <2>2
  <2>3. CASE i - Len(lines) \in 1..Len(ls)
    <3>1. l = ls[i - Len(lines)]
      BY <1>1, <2>1, <2>3
    <3>. QED BY <1>4, <2>3, <3>1
  <2>. QED BY <1>1, <2>1, <2>2, <2>3
<1>5. ASSUME NEW k \in Lines, k.type \in {"update", "sender"}, lines' = Append(lines, k)
      PROVE  LineOK(l)'
  <2>1. /\ Len(lines') = Len(lines) + 1 /\ Len(lines) \in Nat
        /\ \A j \in 1..Len(lines) : lines'[j] = lines[j]
        /\ lines'[Len(lines) + 1] = k
    BY <1>a, <1>5
  <2>2. LineOK(k)'
    BY <1>5 DEF LineOK
  <2>3. CASE i \in 1..Len(lines)
    BY <1>b, <1>c, <1>1, <2>1, <2>3
  <2>. QED BY <1>1, <2>1, <2>2, <2>3
<1>6. CASE TdReports
  <2> DEFINE k == [type |-> "update", value |-> told + 1]
  <2>1. told < load.updates /\ lines' = Append(lines, k)
    BY <1>6 DEF TdReports
  <2>2. told + 1 \in Updates
    <3>1. load.updates \in 0..NUpdates /\ told \in 0..NUpdates
      BY TelegramAssumption DEF TypeOK
    <3>. QED BY <2>1, <3>1, UpdatesNat DEF Updates
  <2>3. k \in Lines /\ k.type = "update"
    BY <2>2, LineTypes
  <2> HIDE DEF k
  <2>. QED BY <1>5, <2>1, <2>3
<1>7. CASE TdFindsSender
  <2>1. PICK v \in {"found", "failed"} : lines' = Append(lines, [type |-> "sender", value |-> v])
    BY <1>7 DEF TdFindsSender
  <2> DEFINE k == [type |-> "sender", value |-> v]
  <2>2. k \in Lines /\ k.type = "sender" /\ lines' = Append(lines, k)
    BY <2>1, LineTypes
  <2> HIDE DEF k
  <2>. QED BY <1>5, <2>2
<1>8. ASSUME NEW c \in Commands, Decides(c) PROVE LineOK(l)'
    BY <1>4, <1>8, DecidesOf
<1>9. CASE ReadResponse \/ ReadSent \/ ReadNotSent \/ ReadAuth \/ ReadUpdate \/ ReadSender
    BY <1>3, <1>9 DEF ReadResponse, ReadSent, ReadNotSent, ReadAuth, ReadUpdate, ReadSender, NextLine
<1>10. CASE StartTdlib \/ TdExits \/ LookupTimesOut \/ UpdateStep \/ SessionStep \/ UNCHANGED vars
  <2>1. lines' = lines
    BY <1>10 DEF StartTdlib, TdExits, LookupTimesOut, UpdateStep, StartUpdate, PublishUpdate,
                UpdateFails, SessionStep, Connect, SocketFails, SessionEnds, Take, TakeCommand,
                TakeFinishLink, Takes, Timers, RequestFails, SendTimesOut, AuthTimesOut,
                Continuation, RequestDone, LinkStepDone, SendQueued, Continues, Incoming, Reply,
                vars
  <2>. QED BY <1>2, <2>1
<1>. QED BY <1>6, <1>7, <1>8, <1>9, <1>10, NextGroups DEF UpdateStep

\* Only the outcome of a message that was sent is kept.
LEMMA CompletedStep ==
    ASSUME TypeOK, InboxInv, CommandInv, [Next]_vars
    PROVE  CompletedInv'
<1>a. Progress /\ CompletedInv /\ LinesInv /\ CommandTypes
    BY ProgressStep, TypeParts DEF CommandInv
<1>b. completed \in Seq(Commands) /\ Len(completed) <= MaxCompleted
    BY DEF TypeOK
<1>c. \A i \in 1..Len(completed) : remote'[completed[i]] = "accepted"
  <2>1. \A i \in 1..Len(completed) : completed[i] \in Commands
    BY <1>b, Widen
  <2>. QED BY <1>a, <2>1 DEF CompletedInv, Progress
<1>1. CASE completed' = completed
    BY <1>c, <1>1 DEF CompletedInv
<1>2. ASSUME NEW c \in Commands, Contains(completed, c), completed' = RemoveFirst(completed, c)
      PROVE  CompletedInv'
  <2>1. \A i \in 1..Len(completed') : \E j \in 1..Len(completed) : completed'[i] = completed[j]
    BY <1>b, <1>2, RemoveOne
  <2>. QED BY <1>c, <2>1 DEF CompletedInv
<1>3. CASE ReadSent
  <2>1. PICK c : /\ c = Head(lines).of /\ NextLine("sent") /\ UNCHANGED remote
                 /\ \/ UNCHANGED completed
                    \/ completed' = LET kept == Append(completed, c)
                                    IN  IF Len(kept) > MaxCompleted THEN Tail(kept) ELSE kept
    BY <1>3 DEF ReadSent
  <2>2. /\ c \in Commands /\ Head(lines).type = "sent"
        /\ Head(lines) = lines[1] /\ 1 \in 1..Len(lines)
    BY <2>1, NextLineOf, LineFields
  <2>3. remote'[c] = "accepted"
    BY <1>a, <2>1, <2>2 DEF LinesInv, LineOK
  <2>4. CASE completed' = LET kept == Append(completed, c)
                          IN  IF Len(kept) > MaxCompleted THEN Tail(kept) ELSE kept
    <3>1. \A i \in 1..Len(completed') :
             completed'[i] = c \/ \E j \in 1..Len(completed) : completed'[i] = completed[j]
      BY <1>b, <2>2, <2>4, CompletedType
    <3>. QED BY <1>c, <2>3, <3>1 DEF CompletedInv
  <2>. QED BY <1>1, <2>1, <2>4
<1>4. CASE \/ Aside \/ TdExits \/ ReadAuth \/ ReadResponse \/ ReadNotSent
           \/ Connect \/ SocketFails \/ SessionEnds \/ Take
           \/ \E c \in Commands : Decides(c) \/ Timers(c) \/ Incoming(c) \/ Reply(c)
  <2>1. completed' = completed
    <3>1. CASE Aside \/ TdExits \/ ReadAuth
      BY <1>a, <3>1, AsideOf, WakeOf
    <3>2. CASE ReadResponse \/ ReadNotSent \/ Connect \/ SocketFails \/ SessionEnds
      BY <3>2 DEF ReadResponse, ReadNotSent, Connect, SocketFails, SessionEnds
    <3>3. CASE Take
      BY <1>a, <3>3, TakeOf
    <3>4. ASSUME NEW c \in Commands, Decides(c) \/ Timers(c) \/ Incoming(c) \/ Reply(c)
          PROVE  completed' = completed
      BY <1>a, <3>4, DecidesOf, TimersOf, ReplyOf DEF Incoming
    <3>. QED BY <1>4, <3>1, <3>2, <3>3, <3>4
  <2>. QED BY <1>1, <2>1
<1>5. ASSUME NEW c \in Commands, Continuation(c) PROVE CompletedInv'
  <2>1. \/ completed' = completed
        \/ Contains(completed, c) /\ completed' = RemoveFirst(completed, c)
    BY <1>5 DEF Continuation, RequestDone, LinkStepDone, SendQueued
  <2>. QED BY <1>1, <1>2, <2>1
<1>. QED BY <1>3, <1>4, <1>5, CommandSteps

Untouched(d) ==
    /\ pc'[d] = pc[d] /\ kind'[d] = kind[d] /\ out'[d] = out[d] /\ remote'[d] = remote[d]
    /\ d \in blind' <=> d \in blind

\* A command that a step does not touch stays right.
LEMMA UntouchedOK ==
    ASSUME NEW d, CommandOK(d), Untouched(d)
    PROVE  CommandOK(d)'
    BY DEF Untouched, CommandOK, IdleOK, WaitOK, ResultOK, Agrees

\* It is enough to look at the one command that a step touches.
LEMMA OnlyOne ==
    ASSUME CommandInv, NEW c \in Commands, CommandOK(c)',
           \A d \in Commands \ {c} : Untouched(d)
    PROVE  \A d \in Commands : CommandOK(d)'
<1> SUFFICES ASSUME NEW d \in Commands PROVE CommandOK(d)'
    OBVIOUS
<1>1. CASE d = c
    BY <1>1
<1>2. CASE d # c
    BY <1>2, UntouchedOK DEF CommandInv
<1>. QED BY <1>1, <1>2

\* A command that is settled with a result that is right.
LEMMA SettledOK ==
    ASSUME CommandTypes, CommandInv, NEW c \in Commands, NEW r \in Results, Settle(c, r),
           UNCHANGED <<kind, remote>>, blind' = blind \/ LoseSight({c}),
           kind[c] \in EffectKinds =>
              /\ r = "ok" => remote[c] = "accepted"
              /\ r = "unknown" => c \in blind'
              /\ r = "failed" => remote[c] \in {"none", "refused"} \/ c \in blind'
    PROVE  \A d \in Commands : CommandOK(d)'
<1>1. /\ pc'[c] = "reply" /\ out'[c] = r
      /\ \A d \in Commands \ {c} : pc'[d] = pc[d] /\ out'[d] = out[d]
    BY SettleOf
<1>2. \A d \in Commands \ {c} : d \in blind' <=> d \in blind
    BY DEF LoseSight
<1>3. \A d \in Commands \ {c} : Untouched(d)
    BY <1>1, <1>2 DEF Untouched
<1>4. CommandOK(c)'
    BY <1>1 DEF CommandOK, IdleOK, WaitOK, ResultOK, EffectKinds, LinkKinds, Results
<1>. QED BY <1>3, <1>4, OnlyOne

\* What a command knows of its outcome is right, at every step.
LEMMA CommandStep ==
    ASSUME TypeOK, InboxInv, CommandInv, [Next]_vars
    PROVE  CommandInv'
<1>a. CommandTypes /\ LinesInv /\ CompletedInv
    BY TypeParts DEF CommandInv
<1>b. \A d \in Commands : CommandOK(d)
    BY DEF CommandInv
<1> SUFFICES \A d \in Commands : CommandOK(d)'
    BY LinesStep, CompletedStep DEF CommandInv
<1>c. EffectKinds' = EffectKinds /\ "none" \notin EffectKinds
    BY DEF EffectKinds, LinkKinds
<1>1. CASE Aside \/ Connect \/ SocketFails \/ SessionEnds
  <2>1. UNCHANGED commandVars
    BY <1>1, AsideOf DEF Connect, SocketFails, SessionEnds
  <2>2. \A d \in Commands : Untouched(d)
    BY <2>1 DEF commandVars, Untouched
  <2>. QED BY <1>b, <2>2, UntouchedOK
<1>2. CASE TdExits \/ ReadAuth
  <2> SUFFICES ASSUME NEW d \in Commands PROVE CommandOK(d)'
    OBVIOUS
  <2>1. UNCHANGED <<kind, remote>> /\ blind \subseteq blind'
    BY <1>2, <1>a, WakeOf
  <2>2. CASE pc'[d] = pc[d] /\ out'[d] = out[d]
    BY <1>b, <1>c, <2>1, <2>2 DEF CommandOK, IdleOK, WaitOK, ResultOK, Agrees
  <2>3. CASE /\ pc[d] \in {"request", "sendWaiter"} /\ pc'[d] = "reply"
             /\ out'[d] = "failed" /\ (kind[d] \in EffectKinds => d \in blind')
    BY <1>c, <2>1, <2>3 DEF CommandOK, IdleOK, WaitOK, ResultOK, Results
  <2>4. CASE pc[d] = "authWaiter" /\ pc'[d] = "reply" /\ out'[d] = "ok"
    <3>1. remote[d] = "accepted"
      BY <1>b, <2>4 DEF CommandOK, WaitOK
    <3>. QED BY <1>c, <2>1, <2>4, <3>1 DEF CommandOK, IdleOK, WaitOK, ResultOK, Results
  <2>. QED BY <1>2, <1>a, <2>2, <2>3, <2>4, WakeOf
<1>3. CASE ReadResponse \/ ReadSent \/ ReadNotSent
  <2>1. UNCHANGED <<kind, remote, blind>> /\ lines # <<>>
    BY <1>3, ReadOf
  <2>2. PICK c \in Commands :
              /\ c = Head(lines).of
              /\ \/ UNCHANGED <<pc, out>>
                 \/ /\ Head(lines).type = "response" /\ pc[c] = "request"
                    /\ pc' = [pc EXCEPT ![c] = "resolved"]
                    /\ out' = [out EXCEPT ![c] = Head(lines).value]
                    /\ Head(lines).value \in Responses
                 \/ /\ Head(lines).type = "sent" /\ pc[c] = "sendWaiter" /\ Settle(c, "ok")
                 \/ /\ Head(lines).type = "notSent" /\ pc[c] = "sendWaiter"
                    /\ Settle(c, "failed")
    BY <1>3, ReadOf
  <2>3. LineOK(Head(lines))
    <3>1. lines \in Seq(Lines)
      BY DEF TypeOK
    <3>2. Head(lines) = lines[1] /\ 1 \in 1..Len(lines)
      BY <2>1, <3>1, TailOfQueue
    <3>. QED BY <1>a, <3>2 DEF LinesInv
  <2>4. CASE UNCHANGED <<pc, out>>
    BY <1>b, <2>1, <2>4, UntouchedOK DEF Untouched
  <2>5. CASE /\ Head(lines).type = "response" /\ pc[c] = "request"
             /\ pc' = [pc EXCEPT ![c] = "resolved"]
             /\ out' = [out EXCEPT ![c] = Head(lines).value]
             /\ Head(lines).value \in Responses
    <3>1. PICK v \in Responses : v = Head(lines).value
      BY <2>5
    <3>2. Agrees(c, v)
      BY <2>2, <2>3, <2>5, <3>1 DEF LineOK
    <3>3. /\ pc'[c] = "resolved" /\ out'[c] = v
          /\ \A d \in Commands \ {c} : pc'[d] = pc[d] /\ out'[d] = out[d]
      BY <1>a, <2>5, <3>1 DEF CommandTypes
    <3>4. remote[c] # "none"
      BY <1>b, <2>5 DEF CommandOK, WaitOK
    <3>5. CommandOK(c)'
      BY <2>1, <3>2, <3>3, <3>4 DEF CommandOK, IdleOK, WaitOK, ResultOK, Agrees, Responses
    <3>6. \A d \in Commands \ {c} : Untouched(d)
      BY <2>1, <3>3 DEF Untouched
    <3>. QED BY <3>5, <3>6, OnlyOne
  <2>6. CASE Head(lines).type = "sent" /\ Settle(c, "ok")
    <3>1. remote[c] = "accepted"
      BY <2>2, <2>3, <2>6 DEF LineOK
    <3>2. "ok" \in Results
      BY DEF Results
    <3>. QED BY <1>a, <2>1, <2>6, <3>1, <3>2, SettledOK
  <2>7. CASE Head(lines).type = "notSent" /\ Settle(c, "failed")
    <3>1. remote[c] = "refused"
      BY <2>2, <2>3, <2>7 DEF LineOK
    <3>2. "failed" \in Results
      BY DEF Results
    <3>. QED BY <1>a, <2>1, <2>7, <3>1, <3>2, SettledOK
  <2>. QED BY <2>2, <2>4, <2>5, <2>6, <2>7
<1>4. CASE Take
  <2>1. PICK c \in Commands :
              /\ pc[c] = "inbox" /\ UNCHANGED blind
              /\ \/ \E k \in Asked : Request(c, k)
                 \/ \E r \in {"ok", "failed"} : AnswerNow(c, r)
    BY <1>4, <1>a, TakeOf
  <2>2. kind[c] = "none" /\ remote[c] = "none"
    BY <1>b, <2>1 DEF CommandOK, IdleOK
  <2>3. ASSUME NEW k \in Asked, Request(c, k) PROVE \A d \in Commands : CommandOK(d)'
    <3>1. /\ \/ pc'[c] = "request" /\ remote'[c] = "asked"
             \/ pc'[c] = "reply" /\ remote'[c] = "none" /\ out'[c] = "failed"
          /\ \A d \in Commands \ {c} : /\ kind'[d] = kind[d] /\ pc'[d] = pc[d]
                                       /\ remote'[d] = remote[d] /\ out'[d] = out[d]
      BY <1>a, <2>2, <2>3, RequestOf
    <3>2. CommandOK(c)'
      BY <3>1 DEF CommandOK, IdleOK, WaitOK, ResultOK, Results
    <3>3. \A d \in Commands \ {c} : Untouched(d)
      BY <2>1, <3>1 DEF Untouched
    <3>. QED BY <3>2, <3>3, OnlyOne
  <2>4. ASSUME NEW r \in {"ok", "failed"}, AnswerNow(c, r)
        PROVE  \A d \in Commands : CommandOK(d)'
    <3>1. Settle(c, r) /\ UNCHANGED <<kind, remote>> /\ r \in Results
      BY <2>4 DEF AnswerNow, Results
    <3>. QED BY <1>a, <1>c, <2>1, <2>2, <3>1, SettledOK
  <2>. QED BY <2>1, <2>3, <2>4
<1>5. ASSUME NEW c \in Commands, Decides(c) PROVE \A d \in Commands : CommandOK(d)'
  <2>1. PICK e \in {"sending", "accepted", "refused"} :
           /\ remote' = [remote EXCEPT ![c] = e] /\ remote[c] \in {"asked", "sending"}
           /\ UNCHANGED <<kind, pc, out, blind>>
    BY <1>5, DecidesOf
  <2>2. remote'[c] = e /\ \A d \in Commands \ {c} : remote'[d] = remote[d]
    BY <1>a, <2>1 DEF CommandTypes
  <2>3. CommandOK(c) /\ pc[c] \notin {"idle", "inbox"}
    BY <1>b, <2>1 DEF CommandOK, IdleOK
  <2>4. CommandOK(c)'
    BY <1>c, <2>1, <2>2, <2>3 DEF CommandOK, IdleOK, WaitOK, ResultOK, Agrees
  <2>5. \A d \in Commands \ {c} : Untouched(d)
    BY <2>1, <2>2 DEF Untouched
  <2>. QED BY <2>4, <2>5, OnlyOne
<1>6. ASSUME NEW c \in Commands, Timers(c) PROVE \A d \in Commands : CommandOK(d)'
  <2>1. PICK r \in {"failed", "unknown"} : Settle(c, r)
    BY <1>6, TimersOf
  <2>2. LoseSight({c}) /\ UNCHANGED <<kind, remote>>
    BY <1>6, TimersOf
  <2>3. kind[c] \in EffectKinds => c \in blind'
    BY <2>2 DEF LoseSight
  <2>4. r \in Results /\ r # "ok"
    BY DEF Results
  <2>. QED BY <1>a, <2>1, <2>2, <2>3, <2>4, SettledOK
<1>7. ASSUME NEW c \in Commands, Continuation(c) PROVE \A d \in Commands : CommandOK(d)'
  <2>1. pc[c] = "resolved" /\ UNCHANGED <<kind, remote>> /\ (blind' = blind \/ LoseSight({c}))
    BY <1>7, <1>a, ContinuationOf
  <2>2. Agrees(c, out[c]) /\ remote[c] # "none"
    BY <1>b, <2>1 DEF CommandOK, WaitOK
  <2>3. "ok" \in Results /\ "failed" \in Results
    BY DEF Results
  <2>4. ASSUME NEW w \in {"sendWaiter", "authWaiter"},
               pc' = [pc EXCEPT ![c] = w], UNCHANGED <<out, blind>>,
               w = "sendWaiter" => kind[c] = "send",
               w = "authWaiter" => kind[c] \in LinkKinds /\ remote[c] = "accepted"
        PROVE  \A d \in Commands : CommandOK(d)'
    <3>1. pc'[c] = w /\ \A d \in Commands \ {c} : pc'[d] = pc[d]
      BY <1>a, <2>4 DEF CommandTypes
    <3>2. CommandOK(c)'
      BY <2>1, <2>2, <2>4, <3>1 DEF CommandOK, IdleOK, WaitOK, ResultOK, LinkKinds
    <3>3. \A d \in Commands \ {c} : Untouched(d)
      BY <2>1, <2>4, <3>1 DEF Untouched
    <3>. QED BY <3>2, <3>3, OnlyOne
  <2>5. CASE RequestDone(c)
    <3>1. CASE out[c] = "error" /\ Settle(c, "failed")
      <4>1. remote[c] = "refused"
        BY <2>2, <3>1 DEF Agrees
      <4>. QED BY <1>a, <2>1, <2>3, <3>1, <4>1, SettledOK
    <3>2. CASE out[c] = "unreadable" /\ Settle(c, "failed") /\ LoseSight({c})
      <4>1. kind[c] \in EffectKinds => c \in blind'
        BY <3>2 DEF LoseSight
      <4>. QED BY <1>a, <2>1, <2>3, <3>2, <4>1, SettledOK
    <3>3. CASE out[c] = "done" /\ Settle(c, "ok")
      <4>1. remote[c] = "accepted"
        BY <2>2, <3>3 DEF Agrees
      <4>. QED BY <1>a, <2>1, <2>3, <3>3, <4>1, SettledOK
    <3>. QED BY <2>5, <3>1, <3>2, <3>3 DEF RequestDone
  <2>6. CASE LinkStepDone(c)
    <3>1. remote[c] = "accepted" /\ kind[c] \in LinkKinds /\ UNCHANGED blind
      BY <2>2, <2>6 DEF LinkStepDone, Agrees
    <3>2. Settle(c, "ok") \/ (pc' = [pc EXCEPT ![c] = "authWaiter"] /\ UNCHANGED out)
      BY <2>6 DEF LinkStepDone
    <3>3. CASE Settle(c, "ok")
      BY <1>a, <2>1, <2>3, <3>1, <3>3, SettledOK
    <3>. QED BY <2>4, <3>1, <3>2, <3>3
  <2>7. CASE SendQueued(c)
    <3>1. kind[c] = "send" /\ UNCHANGED blind
      BY <2>2, <2>7 DEF SendQueued, Agrees
    <3>2. CASE Contains(completed, c) /\ Settle(c, "ok")
      <4>1. remote[c] = "accepted"
        BY <1>a, <3>2 DEF CompletedInv, Contains
      <4>. QED BY <1>a, <2>1, <2>3, <3>2, <4>1, SettledOK
    <3>3. CASE pc' = [pc EXCEPT ![c] = "sendWaiter"] /\ UNCHANGED out
      BY <2>4, <3>1, <3>3
    <3>. QED BY <2>7, <3>2, <3>3 DEF SendQueued
  <2>. QED BY <1>7, <2>5, <2>6, <2>7 DEF Continuation
<1>8. ASSUME NEW c \in Commands, Incoming(c) PROVE \A d \in Commands : CommandOK(d)'
  <2>1. pc[c] = "idle" /\ pc' = [pc EXCEPT ![c] = "inbox"] /\ UNCHANGED <<kind, out, remote, blind>>
    BY <1>8 DEF Incoming
  <2>2. pc'[c] = "inbox" /\ \A d \in Commands \ {c} : pc'[d] = pc[d]
    BY <1>a, <2>1 DEF CommandTypes
  <2>3. CommandOK(c)'
    BY <1>b, <2>1, <2>2 DEF CommandOK, IdleOK, WaitOK, ResultOK
  <2>. QED BY <2>1, <2>2, <2>3, OnlyOne DEF Untouched
<1>9. ASSUME NEW c \in Commands, Reply(c) PROVE \A d \in Commands : CommandOK(d)'
  <2> SUFFICES ASSUME NEW d \in Commands PROVE CommandOK(d)'
    OBVIOUS
  <2>1. pc'[d] \in {pc[d], "answered", "gone"} /\ UNCHANGED <<kind, out, remote, blind>>
    BY <1>9, <1>a, ReplyOf DEF CommandTypes
  <2>. QED BY <1>b, <1>c, <2>1 DEF CommandOK, IdleOK, WaitOK, ResultOK, Agrees
<1>. QED BY <1>1, <1>2, <1>3, <1>4, <1>5, <1>6, <1>7, <1>8, <1>9, CommandSteps

-----------------------------------------------------------------------------
(* Theorems                                                                *)

\* Every step keeps the inductive invariant.
LEMMA IndStep == IndInv /\ [Next]_vars => IndInv'
<1> SUFFICES ASSUME IndInv, [Next]_vars PROVE IndInv'
    OBVIOUS
<1>1. TypeOK /\ UpdateInv /\ LookupInv /\ InboxInv /\ LoopInv /\ CommandInv
    BY DEF IndInv, UpdateInv
<1>2. StreamTypes' /\ CommandTypes'
    BY <1>1, StreamTypesStep, CommandTypesStep
<1>3. UpdateInv' /\ InboxInv' /\ LoopInv' /\ CommandInv'
    BY <1>1, UpdateStepKept, LoopStep, CommandStep
<1>4. (Cardinality({c \in Commands : pc[c] \in Running}) <= 1)'
  <2> DEFINE S == {c \in Commands : pc'[c] \in Running}
  <2>1. \A c, d \in S : c = d
    BY <1>3 DEF LoopInv, Running
  <2>2. S = {} \/ \E c \in S : S = {c}
    BY <2>1
  <2> HIDE DEF S
  <2>3. Cardinality(S) <= 1
    <3>1. CASE S = {}
      BY <3>1, FS_EmptySet
    <3>2. ASSUME NEW c \in S, S = {c} PROVE Cardinality(S) <= 1
      BY <3>2, FS_Singleton
    <3>. QED BY <2>2, <3>1, <3>2
  <2>. QED BY <2>3 DEF S, Running
<1>5. TypeOK'
    BY <1>2, <1>4, TypeParts DEF TypeOK, StreamTypes, CommandTypes
<1>. QED BY <1>3, <1>5 DEF IndInv

\* The inductive invariant holds in every reachable state.
THEOREM IndInvHolds == Spec => []IndInv
<1>1. Init => IndInv
  <2> SUFFICES ASSUME Init PROVE IndInv
    OBVIOUS
  <2>1. <<>> \in Seq(Lines) /\ <<>> \in Seq(Commands) /\ <<>> \in Seq(0..NUpdates)
        /\ <<>> \in Seq(Updates) /\ Len(<<>>) = 0
    OBVIOUS
  <2>2. 0 \in 0..NUpdates /\ 0 <= MaxCompleted
    BY TelegramAssumption
  <2>a. /\ lines = <<>> /\ told = 0 /\ completed = <<>> /\ inbox = <<>>
        /\ \A i \in 1..Len(<<>>) : FALSE
    <3>1. lines = <<>> /\ told = 0 /\ completed = <<>> /\ inbox = <<>>
      BY DEF Init
    <3>2. \A i \in 1..Len(<<>>) : FALSE
      BY <2>1
    <3>. QED BY <3>1, <3>2
  <2>b. \A c \in Commands : pc[c] = "idle" /\ kind[c] = "none" /\ remote[c] = "none"
    BY DEF Init
  <2>3. {c \in Commands : pc[c] \in Running} = {}
    BY DEF Init, Running
  <2>4. Cardinality({c \in Commands : pc[c] \in Running}) <= 1
    BY <2>3, FS_EmptySet
  <2>5. StreamTypes
    BY <2>1, <2>2 DEF Init, StreamTypes, AuthStates
  <2>6. CommandTypes
    BY <2>1 DEF Init, CommandTypes
  <2>7. TypeOK
    BY <2>4, <2>5, <2>6, TypeParts
  <2>8. UpdateInv
    <3>1. /\ Published = {} /\ Waiting = {} /\ Ordered(spooled, Updates) /\ Ordered(chain, Updates)
      BY EmptyQueue DEF Init, Published, Waiting
    <3>2. Unread = {} /\ LinesOrdered(lines)
      BY <2>a DEF Unread, WrittenIn, LinesOrdered
    <3>3. \A m \in Updates : ~(m <= told)
      BY <2>a, UpdatesNat DEF Updates
    <3>. QED BY <3>1, <3>2, <3>3
             DEF Init, UpdateInv, OrderInv, TraceInv, LookupInv, Precedes
  <2>9. InboxInv /\ LoopInv
    BY <2>a, <2>b DEF InboxInv, LoopInv, Running
  <2>10. CommandInv
    <3>1. LinesInv /\ CompletedInv
      BY <2>a DEF LinesInv, CompletedInv
    <3>2. \A c \in Commands : CommandOK(c)
      BY <2>b DEF CommandOK, IdleOK, WaitOK, ResultOK
    <3>. QED BY <3>1, <3>2 DEF CommandInv
  <2>. QED BY <2>7, <2>8, <2>9, <2>10 DEF IndInv
<1>. QED BY <1>1, IndStep, PTL DEF Spec

\* No more outcomes are kept than MaxCompleted, and the session loop runs one
\* command at a time.
THEOREM TypeCorrect == Spec => []TypeOK
<1>1. IndInv => TypeOK
    BY DEF IndInv
<1>. QED BY <1>1, IndInvHolds, PTL

\* Messages are published in the order TDLib reported them, and each one that
\* was reported is published, under way, or was given up with an error.
THEOREM OrderedUpdates == Spec => []UpdatesInOrder
<1>1. IndInv => UpdatesInOrder
    BY UpdatesAreInOrder DEF IndInv
<1>. QED BY <1>1, IndInvHolds, PTL

-----------------------------------------------------------------------------
(* Refinement                                                              *)

Answered == [c \in Commands |-> AnswerOf(c)]
Effects == [c \in Commands |-> EffectOf(c)]

\* A step that keeps the results and the kinds of what is answered keeps the
\* answers.
LEMMA SameAnswers ==
    ASSUME \A d \in Commands : /\ pc'[d] = "answered" <=> pc[d] = "answered"
                               /\ pc[d] = "answered" => kind'[d] = kind[d] /\ out'[d] = out[d]
    PROVE  Answered' = Answered
<1>1. EffectKinds' = EffectKinds
    BY DEF EffectKinds, LinkKinds
<1>. QED BY <1>1 DEF Answered, AnswerOf

\* A step that keeps the requests and what TDLib made of them keeps the effects.
LEMMA SameEffects ==
    ASSUME UNCHANGED <<kind, remote>>
    PROVE  Effects' = Effects
    BY DEF Effects, EffectOf, EffectKinds, LinkKinds

\* The worker gives up on commands that it has submitted and not answered.
LEMMA LosesSight ==
    ASSUME NEW C \in SUBSET Commands, LoseSight(C), Answered' = Answered, UNCHANGED <<kind, remote>>,
           \A c \in C : pc[c] # "answered" /\ remote[c] # "none"
    PROVE  Contract!ContractNext
<1> DEFINE D == {c \in C : kind[c] \in EffectKinds}
<1>1. \A c \in D : Effects[c] # "none" /\ Answered[c] = "none"
    BY DEF Effects, EffectOf, Answered, AnswerOf
<1>2. blind' = blind \cup D
    BY DEF LoseSight
<1>3. Effects' = Effects
    BY SameEffects
<1> HIDE DEF D
<1>4. Contract!LoseSight(D)
    BY <1>1, <1>2, <1>3 DEF Contract!LoseSight, Answered, Effects
<1>5. D \in SUBSET Commands
    BY DEF D
<1>. QED BY <1>4, <1>5 DEF Contract!ContractNext

\* Every step is a step of the contract or leaves its variables alone.
LEMMA ContractStep ==
    IndInv /\ [Next]_vars => [Contract!ContractNext]_(Contract!contractVars)
<1> SUFFICES ASSUME IndInv, [Next]_vars
             PROVE  Contract!ContractNext \/ UNCHANGED <<Answered, Effects, blind>>
    BY DEF Contract!contractVars, Answered, Effects
<1>a. TypeOK /\ InboxInv /\ CommandInv /\ CommandTypes
    BY TypeParts DEF IndInv
<1>b. /\ \A c \in Commands : Answered[c] = AnswerOf(c) /\ Effects[c] = EffectOf(c)
      /\ \A c \in Commands : CommandOK(c)
    BY <1>a DEF Answered, Effects, CommandInv
<1>c. EffectKinds' = EffectKinds /\ "none" \notin EffectKinds
    BY DEF EffectKinds, LinkKinds
<1>1. CASE Aside \/ Connect \/ SocketFails \/ SessionEnds
  <2>1. UNCHANGED <<kind, pc, out, remote, blind>>
    BY <1>1, AsideOf DEF Connect, SocketFails, SessionEnds, commandVars
  <2>. QED BY <2>1, SameAnswers, SameEffects
<1>2. CASE TdExits
  <2> DEFINE C == {c \in Commands : pc[c] \in {"request", "sendWaiter"}}
  <2>1. LoseSight(C) /\ UNCHANGED <<kind, remote>>
    BY <1>2 DEF TdExits
  <2>2. Answered' = Answered
    BY <1>2, <1>a, <2>1, WakeOf, SameAnswers
  <2>3. \A c \in C : pc[c] # "answered" /\ remote[c] # "none"
    BY <1>b DEF CommandOK, WaitOK
  <2>4. C \in SUBSET Commands
    OBVIOUS
  <2>. QED BY <2>1, <2>2, <2>3, <2>4, LosesSight
<1>3. CASE ReadAuth
  <2>1. UNCHANGED <<kind, remote, blind>>
    BY <1>3 DEF ReadAuth
  <2>2. Answered' = Answered
    BY <1>3, <1>a, <2>1, WakeOf, SameAnswers
  <2>. QED BY <2>1, <2>2, SameEffects
<1>4. CASE ReadResponse \/ ReadSent \/ ReadNotSent
  <2>1. UNCHANGED <<kind, remote, blind>>
    BY <1>4, <1>a, ReadOf
  <2>2. \E c \in Commands :
              \/ UNCHANGED <<pc, out>>
              \/ pc[c] = "request" /\ \E v : /\ pc' = [pc EXCEPT ![c] = "resolved"]
                                             /\ out' = [out EXCEPT ![c] = v]
              \/ pc[c] = "sendWaiter" /\ \E v : /\ pc' = [pc EXCEPT ![c] = "reply"]
                                                /\ out' = [out EXCEPT ![c] = v]
    BY <1>4, <1>a, ReadOf DEF Settle
  <2>3. \A d \in Commands : /\ pc'[d] = "answered" <=> pc[d] = "answered"
                            /\ pc[d] = "answered" => out'[d] = out[d]
    BY <1>a, <2>2 DEF CommandTypes
  <2>. QED BY <2>1, <2>3, SameAnswers, SameEffects
<1>5. CASE Take
  <2>1. PICK c \in Commands :
              /\ pc[c] = "inbox" /\ UNCHANGED blind
              /\ \/ \E k \in Asked : Request(c, k)
                 \/ \E r \in {"ok", "failed"} : AnswerNow(c, r)
    BY <1>5, <1>a, TakeOf
  <2>2. kind[c] = "none" /\ remote[c] = "none"
    BY <1>b, <2>1 DEF CommandOK, IdleOK
  <2>3. Effects[c] = "none" /\ Answered[c] = "none"
    BY <1>b, <1>c, <2>1, <2>2 DEF EffectOf, AnswerOf
  <2>4. ASSUME NEW k \in Asked, Request(c, k)
        PROVE  Contract!ContractNext \/ UNCHANGED <<Answered, Effects, blind>>
    <3>1. /\ kind'[c] = k
          /\ \/ pc'[c] = "request" /\ remote'[c] = "asked"
             \/ pc'[c] = "reply" /\ remote'[c] = "none"
          /\ \A d \in Commands \ {c} : /\ kind'[d] = kind[d] /\ pc'[d] = pc[d]
                                       /\ remote'[d] = remote[d] /\ out'[d] = out[d]
      BY <1>a, <2>2, <2>4, RequestOf
    <3>2. Answered' = Answered
      BY <2>1, <3>1, SameAnswers
    <3>3. \A d \in Commands \ {c} : EffectOf(d)' = EffectOf(d)
      BY <1>c, <3>1 DEF EffectOf
    <3>4. EffectOf(c)' = IF k \in EffectKinds /\ remote'[c] = "asked" THEN "open" ELSE "none"
      <4>1. CASE k \notin EffectKinds
        BY <1>c, <3>1, <4>1 DEF EffectOf
      <4>2. CASE k \in EffectKinds /\ remote'[c] = "asked"
        BY <1>c, <3>1, <4>2 DEF EffectOf
      <4>3. CASE k \in EffectKinds /\ remote'[c] = "none"
        BY <1>c, <3>1, <4>3 DEF EffectOf
      <4>. QED BY <3>1, <4>1, <4>2, <4>3
    <3>5. CASE k \in EffectKinds /\ remote'[c] = "asked"
      <4>1. Effects' = [Effects EXCEPT ![c] = "open"]
        BY <3>3, <3>4, <3>5 DEF Effects
      <4>2. Contract!Submit(c)
        BY <2>1, <2>3, <3>2, <4>1 DEF Contract!Submit, Answered, Effects
      <4>. QED BY <4>2 DEF Contract!ContractNext
    <3>6. CASE ~(k \in EffectKinds /\ remote'[c] = "asked")
      <4>1. Effects' = Effects
        <5>1. \A d \in Commands : EffectOf(d)' = EffectOf(d)
          BY <1>b, <2>3, <3>3, <3>4, <3>6
        <5>. QED BY <5>1 DEF Effects
      <4>. QED BY <2>1, <3>2, <4>1
    <3>. QED BY <3>5, <3>6
  <2>5. ASSUME NEW r \in {"ok", "failed"}, AnswerNow(c, r)
        PROVE  UNCHANGED <<Answered, Effects, blind>>
    <3>1. Settle(c, r) /\ UNCHANGED <<kind, remote>> /\ r \in Results
      BY <2>5 DEF AnswerNow, Results
    <3>2. pc'[c] = "reply" /\ \A d \in Commands \ {c} : pc'[d] = pc[d] /\ out'[d] = out[d]
      BY <1>a, <3>1, SettleOf
    <3>. QED BY <2>1, <3>1, <3>2, SameAnswers, SameEffects
  <2>. QED BY <2>1, <2>4, <2>5
<1>6. ASSUME NEW c \in Commands, Decides(c)
      PROVE  Contract!ContractNext \/ UNCHANGED <<Answered, Effects, blind>>
  <2>1. PICK e \in {"sending", "accepted", "refused"} :
           /\ remote' = [remote EXCEPT ![c] = e] /\ remote[c] \in {"asked", "sending"}
           /\ UNCHANGED <<kind, pc, out, blind>>
    BY <1>6, <1>a, DecidesOf
  <2>2. remote'[c] = e /\ \A d \in Commands \ {c} : remote'[d] = remote[d]
    BY <1>a, <2>1 DEF CommandTypes
  <2>3. Answered' = Answered
    BY <2>1, SameAnswers
  <2>4. \A d \in Commands \ {c} : EffectOf(d)' = EffectOf(d)
    BY <1>c, <2>1, <2>2 DEF EffectOf
  <2>5. CASE kind[c] \in EffectKinds /\ e \in {"accepted", "refused"}
    <3>1. Effects[c] = "open" /\ EffectOf(c)' = e
      BY <1>b, <1>c, <2>1, <2>2, <2>5 DEF EffectOf
    <3>2. Effects' = [Effects EXCEPT ![c] = e]
      BY <2>4, <3>1 DEF Effects
    <3>3. Contract!Decide(c)
      BY <2>1, <2>3, <2>5, <3>1, <3>2 DEF Contract!Decide, Answered, Effects
    <3>. QED BY <3>3 DEF Contract!ContractNext
  <2>6. CASE ~(kind[c] \in EffectKinds /\ e \in {"accepted", "refused"})
    <3>1. EffectOf(c)' = EffectOf(c)
      <4>1. CASE kind[c] \notin EffectKinds
        BY <1>c, <2>1, <4>1 DEF EffectOf
      <4>2. CASE kind[c] \in EffectKinds /\ e = "sending"
        <5>1. EffectOf(c) = "open"
          BY <2>1, <4>2 DEF EffectOf
        <5>2. EffectOf(c)' = "open"
          BY <1>c, <2>1, <2>2, <4>2 DEF EffectOf
        <5>. QED BY <5>1, <5>2
      <4>. QED BY <2>6, <4>1, <4>2
    <3>2. \A d \in Commands : EffectOf(d)' = EffectOf(d)
      BY <2>4, <3>1
    <3>3. Effects' = Effects
      BY <3>2 DEF Effects
    <3>. QED BY <2>1, <2>3, <3>3
  <2>. QED BY <2>5, <2>6
<1>7. ASSUME NEW c \in Commands, Timers(c) \/ Continuation(c)
      PROVE  Contract!ContractNext \/ UNCHANGED <<Answered, Effects, blind>>
  <2>1. /\ pc[c] \in {"request", "resolved", "sendWaiter", "authWaiter"}
        /\ UNCHANGED <<kind, remote>> /\ (blind' = blind \/ LoseSight({c}))
    BY <1>7, <1>a, TimersOf, ContinuationOf
  <2>2. pc'[c] # "answered" /\ \A d \in Commands \ {c} : pc'[d] = pc[d] /\ out'[d] = out[d]
    <3>1. CASE Timers(c)
      <4>1. PICK r \in Results : Settle(c, r)
        BY <3>1, TimersOf DEF Results
      <4>. QED BY <1>a, <4>1, SettleOf
    <3>2. CASE Continuation(c)
      BY <1>a, <3>2, ContinuationOf
    <3>. QED BY <1>7, <3>1, <3>2
  <2>3. Answered' = Answered
    BY <2>1, <2>2, SameAnswers
  <2>4. CASE blind' = blind
    BY <2>1, <2>3, <2>4, SameEffects
  <2>5. CASE LoseSight({c})
    <3>1. remote[c] # "none"
      BY <1>b, <2>1 DEF CommandOK, WaitOK
    <3>. QED BY <2>1, <2>3, <2>5, <3>1, LosesSight
  <2>. QED BY <2>1, <2>4, <2>5
<1>8. ASSUME NEW c \in Commands, Incoming(c) PROVE UNCHANGED <<Answered, Effects, blind>>
  <2>1. pc[c] = "idle" /\ pc' = [pc EXCEPT ![c] = "inbox"] /\ UNCHANGED <<kind, out, remote, blind>>
    BY <1>8 DEF Incoming
  <2>2. pc'[c] = "inbox" /\ \A d \in Commands \ {c} : pc'[d] = pc[d]
    BY <1>a, <2>1 DEF CommandTypes
  <2>. QED BY <2>1, <2>2, SameAnswers, SameEffects
<1>9. ASSUME NEW c \in Commands, Reply(c)
      PROVE  Contract!ContractNext \/ UNCHANGED <<Answered, Effects, blind>>
  <2>1. pc[c] = "reply" /\ UNCHANGED <<kind, out, remote, blind>>
    BY <1>9, <1>a, ReplyOf
  <2>2. Effects' = Effects
    BY <2>1, SameEffects
  <2>3. CASE pc' = [d \in Commands |-> IF d = c \/ pc[d] = "inbox" THEN "gone" ELSE pc[d]]
    <3>1. \A d \in Commands : pc'[d] = "answered" <=> pc[d] = "answered"
      BY <2>1, <2>3
    <3>. QED BY <2>1, <2>2, <3>1, SameAnswers
  <2>4. CASE pc' = [pc EXCEPT ![c] = "answered"]
    <3>1. pc'[c] = "answered" /\ \A d \in Commands \ {c} : pc'[d] = pc[d]
      BY <1>a, <2>4 DEF CommandTypes
    <3>2. \A d \in Commands \ {c} : AnswerOf(d)' = AnswerOf(d)
      BY <1>c, <2>1, <3>1 DEF AnswerOf
    <3>3. Answered[c] = "none"
      BY <1>b, <2>1 DEF AnswerOf
    <3>4. CASE kind[c] \notin EffectKinds
      <4>1. \A d \in Commands : AnswerOf(d)' = AnswerOf(d)
        BY <1>b, <1>c, <2>1, <3>2, <3>3, <3>4 DEF AnswerOf
      <4>2. Answered' = Answered
        BY <4>1 DEF Answered
      <4>. QED BY <2>1, <2>2, <4>2
    <3>5. CASE kind[c] \in EffectKinds
      <4>1. AnswerOf(c)' = out[c]
        BY <1>c, <2>1, <3>1, <3>5 DEF AnswerOf
      <4>2. Answered' = [Answered EXCEPT ![c] = out[c]]
        BY <3>2, <4>1 DEF Answered
      <4>3. /\ out[c] \in Results
            /\ out[c] = "ok" => remote[c] = "accepted"
            /\ out[c] = "unknown" => c \in blind
            /\ out[c] = "failed" => remote[c] \in {"none", "refused"} \/ c \in blind
        BY <1>b, <2>1, <3>5 DEF CommandOK, ResultOK
      <4>4. /\ out[c] = "ok" => Effects[c] = "accepted"
            /\ out[c] = "failed" => Effects[c] \in {"none", "refused"} \/ c \in blind
        BY <1>b, <3>5, <4>3 DEF EffectOf
      <4>5. Contract!Answer(c, out[c])
        BY <2>1, <2>2, <3>3, <4>2, <4>3, <4>4 DEF Contract!Answer, Answered, Effects
      <4>6. out[c] \in Contract!Answers
        BY <4>3 DEF Results, Contract!Answers
      <4>. QED BY <4>5, <4>6 DEF Contract!ContractNext
    <3>. QED BY <3>4, <3>5
  <2>. QED BY <1>9, <1>a, <2>3, <2>4, ReplyOf
<1>. QED BY <1>1, <1>2, <1>3, <1>4, <1>5, <1>6, <1>7, <1>8, <1>9, CommandSteps

\* The Telegram worker keeps the contract of WorkerContract, with any number of
\* commands and of outcomes that are kept.
THEOREM TelegramKeepsContract == Spec => TelegramImplementsWorker
<1>1. Init => Contract!ContractInit
    BY DEF Init, Contract!ContractInit, AnswerOf, EffectOf, EffectKinds, LinkKinds
<1>2. IndInv /\ [Next]_vars => [Contract!ContractNext]_(Contract!contractVars)
    BY ContractStep
<1>. QED
    BY <1>1, <1>2, IndInvHolds, PTL DEF Spec, TelegramImplementsWorker, Contract!ContractSpec
=============================================================================
