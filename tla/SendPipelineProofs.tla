------------------------- MODULE SendPipelineProofs -------------------------
(***************************************************************************)
(* Proofs about SendPipeline for every set of calls, keys and every        *)
(* assignment of keys to calls.                                            *)
(***************************************************************************)
EXTENDS SendPipeline, TLAPS

\* Call r has won the compare-and-set of MarkCommandDispatched and still runs,
\* or has written to the worker.
Won(r) == pc[r] \in InHub \/ wire[r] # "none"

\* At most one call per key has won, and a call that has not finished has a
\* command that nobody has settled.
OneWinner ==
    /\ \A r, s \in Requests : KeyOf[r] = KeyOf[s] /\ Won(r) /\ Won(s) => r = s
    /\ \A r \in Requests : Won(r) => cmd[KeyOf[r]] \notin {"none", "pending"}
    /\ \A r \in Requests : pc[r] \in InHub => cmd[KeyOf[r]] = "dispatched"

\* How the wire, the provider and the handler of one call fit together.
CallInv ==
    \A r \in Requests :
        /\ pc[r] \in {"idle", "existing", "prepared", "marked"} => wire[r] = "none"
        /\ attempt[r] # "none" => wire[r] \notin {"none", "toWorker", "adrift"}
        /\ answer[r] = "ok" => attempt[r] = "accepted"
        /\ pc[r] \in {"completing", "saving"} => wire[r] = "delivered" /\ answer[r] = "ok"
        /\ wire[r] \in {"toApi", "delivered"} => answer[r] # "none"
        /\ pc[r] = "failing" => code[r] # "none"

\* A command that is not settled has its message row.
LinkInv ==
    \A k \in Keys :
        /\ cmd[k] \in {"pending", "dispatched"} => link[k]
        /\ cmd[k] = "none" => ~link[k]

\* The optimistic row carries the provider id of a call of its own key, and
\* no ingested row has the same id.
RowInv ==
    \A k \in Keys, r \in Requests : ownPid[k] = r => KeyOf[r] = k /\ ~echo[r]

IndInv ==
    /\ TypeOK
    /\ OneWinner
    /\ CallInv
    /\ LinkInv
    /\ RowInv
    /\ CommandMatchesMessage
    /\ OutboxMatchesRow
    /\ DispatchedHasOwner

-----------------------------------------------------------------------------
\* Every step keeps the type invariant.
LEMMA TypeStep == TypeOK /\ [Next]_vars => TypeOK'
<1> SUFFICES ASSUME TypeOK, [Next]_vars PROVE TypeOK'
    OBVIOUS
<1> USE KeyOfAssumption, PlatformAssumption, NoMessageAssumption
<1> USE DEF TypeOK, vars, handlerVars, hubVars, commandVars, messageVars,
            Goto, Return, LoseWire, Terminal, CommandStatus, MessageStatus, Codes, PCs,
            Outcomes, Wires, Attempts, Answers
<1>1. ASSUME NEW r \in Requests, PrepareSendNew(r) PROVE TypeOK'
    BY <1>1 DEF PrepareSendNew
<1>2. ASSUME NEW r \in Requests, PrepareSendConflict(r) PROVE TypeOK'
    BY <1>2 DEF PrepareSendConflict
<1>3. ASSUME NEW r \in Requests, ExistingSendPending(r) PROVE TypeOK'
    BY <1>3 DEF ExistingSendPending
<1>4. ASSUME NEW r \in Requests, ExistingSendKnown(r) PROVE TypeOK'
    BY <1>4 DEF ExistingSendKnown
<1>5. ASSUME NEW r \in Requests, ExistingSendMissing(r) PROVE TypeOK'
    BY <1>5 DEF ExistingSendMissing
<1>6. ASSUME NEW r \in Requests, MarkCommandDispatched(r) PROVE TypeOK'
    BY <1>6 DEF MarkCommandDispatched
<1>7. ASSUME NEW r \in Requests, MarkCommandRefused(r) PROVE TypeOK'
    BY <1>7 DEF MarkCommandRefused
<1>8. ASSUME NEW r \in Requests, QueryFails(r) PROVE TypeOK'
    BY <1>8 DEF QueryFails
<1>9. ASSUME NEW r \in Requests, RequestOffline(r) PROVE TypeOK'
    BY <1>9 DEF RequestOffline
<1>10. ASSUME NEW r \in Requests, RequestWritten(r) PROVE TypeOK'
    BY <1>10 DEF RequestWritten
<1>11. ASSUME NEW r \in Requests, RequestWriteFails(r) PROVE TypeOK'
    BY <1>11 DEF RequestWriteFails
<1>12. ASSUME NEW r \in Requests, ResponseOk(r) PROVE TypeOK'
    BY <1>12 DEF ResponseOk
<1>13. ASSUME NEW r \in Requests, ResponseError(r) PROVE TypeOK'
    BY <1>13 DEF ResponseError
<1>14. ASSUME NEW r \in Requests, RequestClosed(r) PROVE TypeOK'
    BY <1>14 DEF RequestClosed
<1>15. ASSUME NEW r \in Requests, RequestTimeout(r) PROVE TypeOK'
    BY <1>15 DEF RequestTimeout
<1>16. ASSUME NEW r \in Requests, FailSend(r) PROVE TypeOK'
    BY <1>16 DEF FailSend, FailStatus
<1>17. ASSUME NEW r \in Requests, FailSendFails(r) PROVE TypeOK'
    BY <1>17 DEF FailSendFails
<1>18. ASSUME NEW r \in Requests, CompleteSendDelete(r) PROVE TypeOK'
    BY <1>18 DEF CompleteSendDelete
<1>19. ASSUME NEW r \in Requests, CompleteSendUpdate(r) PROVE TypeOK'
    BY <1>19 DEF CompleteSendUpdate
<1>20. ASSUME NEW r \in Requests, CompleteSendFails(r) PROVE TypeOK'
    BY <1>20 DEF CompleteSendFails
<1>21. ASSUME NEW r \in Requests, WorkerExecute(r) PROVE TypeOK'
    BY <1>21 DEF WorkerExecute
<1>22. ASSUME NEW r \in Requests, WorkerReject(r) PROVE TypeOK'
    BY <1>22 DEF WorkerReject
<1>23. ASSUME NEW r \in Requests, ProviderDecide(r) PROVE TypeOK'
    BY <1>23 DEF ProviderDecide
<1>24. ASSUME NEW r \in Requests, WorkerRespond(r) PROVE TypeOK'
    BY <1>24 DEF WorkerRespond, WorkerAnswers, UnknownCode, FailedCode
<1>25. ASSUME NEW r \in Requests, Deliver(r) PROVE TypeOK'
    BY <1>25 DEF Deliver
<1>26. ASSUME NEW r \in Requests, IngestEcho(r) PROVE TypeOK'
    BY <1>26 DEF IngestEcho, HasRow
<1>27. ASSUME NEW k \in Keys, Expire(k) PROVE TypeOK'
    BY <1>27 DEF Expire
<1>28. ASSUME NEW K \in SUBSET Keys, NEW R \in SUBSET Requests, Prune(K, R) PROVE TypeOK'
    BY <1>28 DEF Prune
<1>29. CASE WorkerConnect
    BY <1>29 DEF WorkerConnect
<1>30. CASE WorkerDisconnect
    BY <1>30 DEF WorkerDisconnect
<1>31. CASE ApiCrash
    BY <1>31 DEF ApiCrash
<1>32. CASE UNCHANGED vars
    BY <1>32
<1>. QED
    BY <1>1, <1>2, <1>3, <1>4, <1>5, <1>6, <1>7, <1>8, <1>9,
       <1>10, <1>11, <1>12, <1>13, <1>14, <1>15, <1>16, <1>17, <1>18,
       <1>19, <1>20, <1>21, <1>22, <1>23, <1>24, <1>25, <1>26, <1>27,
       <1>28, <1>29, <1>30, <1>31, <1>32 DEF Next, HandlerStep, WorkerStep

\* A call that has not dispatched anything owns no dispatched command: when it
\* moves, every dispatched command keeps the owner it had.
LEMMA OwnerKept ==
    ASSUME TypeOK, DispatchedHasOwner,
           NEW r \in Requests,
           pc[r] \notin InHub, pc[r] # "done",
           \A s \in Requests \ {r} : pc'[s] = pc[s] /\ outcome'[s] = outcome[s],
           \A k \in Keys : cmd'[k] = "dispatched" => cmd[k] = "dispatched"
    PROVE  DispatchedHasOwner'
<1>1. SUFFICES ASSUME NEW k \in Keys, cmd'[k] = "dispatched"
               PROVE  \E s \in Requests :
                        /\ KeyOf[s] = k
                        /\ \/ pc'[s] \in InHub
                           \/ /\ pc'[s] = "done"
                              /\ outcome'[s] \in {"crashed", "internal_error", "unsaved"}
    BY DEF DispatchedHasOwner, InHub
<1>2. PICK s \in Requests :
        /\ KeyOf[s] = k
        /\ \/ pc[s] \in InHub
           \/ pc[s] = "done" /\ outcome[s] \in {"crashed", "internal_error", "unsaved"}
    BY <1>1 DEF DispatchedHasOwner
<1>3. s # r
    BY <1>2
<1>. QED
    BY <1>2, <1>3

\* Every step keeps the inductive invariant.
LEMMA IndStep == IndInv /\ TypeOK' /\ [Next]_vars => IndInv'
<1>a. SUFFICES ASSUME IndInv, TypeOK', [Next]_vars PROVE IndInv'
    OBVIOUS
<1>b. IndInv /\ TypeOK'
    BY <1>a
<1> USE <1>b, KeyOfAssumption, PlatformAssumption, NoMessageAssumption
<1> USE DEF IndInv, TypeOK, vars, handlerVars, hubVars, commandVars, messageVars,
            Goto, Return, LoseWire, Terminal, InHub, Won
<1>1. ASSUME NEW r \in Requests, PrepareSendNew(r) PROVE IndInv'
  <2>1. OneWinner' /\ CallInv' /\ LinkInv' /\ RowInv'
    BY <1>1 DEF PrepareSendNew, OneWinner, CallInv, LinkInv, RowInv, CommandMatchesMessage
  <2>2. CommandMatchesMessage' /\ OutboxMatchesRow'
    BY <1>1 DEF PrepareSendNew, CommandMatchesMessage, OutboxMatchesRow, LinkInv, StatusFor
  <2>3. DispatchedHasOwner'
    <3>1. DispatchedHasOwner
      OBVIOUS
    <3>2. /\ pc[r] \notin InHub /\ pc[r] # "done"
          /\ \A s \in Requests \ {r} : pc'[s] = pc[s] /\ outcome'[s] = outcome[s]
          /\ \A k \in Keys : cmd'[k] = "dispatched" => cmd[k] = "dispatched"
      BY <1>1 DEF PrepareSendNew
    <3>. QED BY <3>1, <3>2, OwnerKept
  <2>. QED BY <2>1, <2>2, <2>3
<1>2. ASSUME NEW r \in Requests, PrepareSendConflict(r) PROVE IndInv'
  <2>1. OneWinner' /\ CallInv' /\ LinkInv' /\ RowInv'
    BY <1>2 DEF PrepareSendConflict, OneWinner, CallInv, LinkInv, RowInv, CommandMatchesMessage
  <2>2. CommandMatchesMessage' /\ OutboxMatchesRow'
    BY <1>2 DEF PrepareSendConflict, CommandMatchesMessage, OutboxMatchesRow, LinkInv, StatusFor
  <2>3. DispatchedHasOwner'
    <3>1. DispatchedHasOwner
      OBVIOUS
    <3>2. /\ pc[r] \notin InHub /\ pc[r] # "done"
          /\ \A s \in Requests \ {r} : pc'[s] = pc[s] /\ outcome'[s] = outcome[s]
          /\ \A k \in Keys : cmd'[k] = "dispatched" => cmd[k] = "dispatched"
      BY <1>2 DEF PrepareSendConflict
    <3>. QED BY <3>1, <3>2, OwnerKept
  <2>. QED BY <2>1, <2>2, <2>3
<1>3. ASSUME NEW r \in Requests, ExistingSendPending(r) PROVE IndInv'
  <2>1. OneWinner' /\ CallInv' /\ LinkInv' /\ RowInv'
    BY <1>3 DEF ExistingSendPending, OneWinner, CallInv, LinkInv, RowInv, CommandMatchesMessage
  <2>2. CommandMatchesMessage' /\ OutboxMatchesRow'
    BY <1>3 DEF ExistingSendPending, CommandMatchesMessage, OutboxMatchesRow, LinkInv, StatusFor
  <2>3. DispatchedHasOwner'
    <3>1. DispatchedHasOwner
      OBVIOUS
    <3>2. /\ pc[r] \notin InHub /\ pc[r] # "done"
          /\ \A s \in Requests \ {r} : pc'[s] = pc[s] /\ outcome'[s] = outcome[s]
          /\ \A k \in Keys : cmd'[k] = "dispatched" => cmd[k] = "dispatched"
      BY <1>3 DEF ExistingSendPending
    <3>. QED BY <3>1, <3>2, OwnerKept
  <2>. QED BY <2>1, <2>2, <2>3
<1>4. ASSUME NEW r \in Requests, ExistingSendKnown(r) PROVE IndInv'
  <2>1. OneWinner' /\ CallInv' /\ LinkInv' /\ RowInv'
    BY <1>4 DEF ExistingSendKnown, OneWinner, CallInv, LinkInv, RowInv, CommandMatchesMessage
  <2>2. CommandMatchesMessage' /\ OutboxMatchesRow'
    BY <1>4 DEF ExistingSendKnown, CommandMatchesMessage, OutboxMatchesRow, LinkInv, StatusFor
  <2>3. DispatchedHasOwner'
    <3>1. DispatchedHasOwner
      OBVIOUS
    <3>2. /\ pc[r] \notin InHub /\ pc[r] # "done"
          /\ \A s \in Requests \ {r} : pc'[s] = pc[s] /\ outcome'[s] = outcome[s]
          /\ \A k \in Keys : cmd'[k] = "dispatched" => cmd[k] = "dispatched"
      BY <1>4 DEF ExistingSendKnown
    <3>. QED BY <3>1, <3>2, OwnerKept
  <2>. QED BY <2>1, <2>2, <2>3
<1>5. ASSUME NEW r \in Requests, ExistingSendMissing(r) PROVE IndInv'
    BY <1>5 DEF ExistingSendMissing, OneWinner, CallInv, LinkInv, RowInv, CommandMatchesMessage,
           OutboxMatchesRow, StatusFor, DispatchedHasOwner
<1>6. ASSUME NEW r \in Requests, MarkCommandDispatched(r) PROVE IndInv'
    BY <1>6 DEF MarkCommandDispatched, OneWinner, CallInv, LinkInv, RowInv, CommandMatchesMessage,
           OutboxMatchesRow, StatusFor, DispatchedHasOwner
<1>7. ASSUME NEW r \in Requests, MarkCommandRefused(r) PROVE IndInv'
  <2>1. OneWinner' /\ CallInv' /\ LinkInv' /\ RowInv'
    BY <1>7 DEF MarkCommandRefused, OneWinner, CallInv, LinkInv, RowInv, CommandMatchesMessage
  <2>2. CommandMatchesMessage' /\ OutboxMatchesRow'
    BY <1>7 DEF MarkCommandRefused, CommandMatchesMessage, OutboxMatchesRow, LinkInv, StatusFor
  <2>3. DispatchedHasOwner'
    <3>1. DispatchedHasOwner
      OBVIOUS
    <3>2. /\ pc[r] \notin InHub /\ pc[r] # "done"
          /\ \A s \in Requests \ {r} : pc'[s] = pc[s] /\ outcome'[s] = outcome[s]
          /\ \A k \in Keys : cmd'[k] = "dispatched" => cmd[k] = "dispatched"
      BY <1>7 DEF MarkCommandRefused
    <3>. QED BY <3>1, <3>2, OwnerKept
  <2>. QED BY <2>1, <2>2, <2>3
<1>8. ASSUME NEW r \in Requests, QueryFails(r) PROVE IndInv'
    BY <1>8 DEF QueryFails, OneWinner, CallInv, LinkInv, RowInv, CommandMatchesMessage,
           OutboxMatchesRow, StatusFor, DispatchedHasOwner
<1>9. ASSUME NEW r \in Requests, RequestOffline(r) PROVE IndInv'
    BY <1>9 DEF RequestOffline, OneWinner, CallInv, LinkInv, RowInv, CommandMatchesMessage,
           OutboxMatchesRow, StatusFor, DispatchedHasOwner
<1>10. ASSUME NEW r \in Requests, RequestWritten(r) PROVE IndInv'
    BY <1>10 DEF RequestWritten, OneWinner, CallInv, LinkInv, RowInv, CommandMatchesMessage,
           OutboxMatchesRow, StatusFor, DispatchedHasOwner
<1>11. ASSUME NEW r \in Requests, RequestWriteFails(r) PROVE IndInv'
    BY <1>11 DEF RequestWriteFails, OneWinner, CallInv, LinkInv, RowInv, CommandMatchesMessage,
           OutboxMatchesRow, StatusFor, DispatchedHasOwner
<1>12. ASSUME NEW r \in Requests, ResponseOk(r) PROVE IndInv'
    BY <1>12 DEF ResponseOk, OneWinner, CallInv, LinkInv, RowInv, CommandMatchesMessage,
           OutboxMatchesRow, StatusFor, DispatchedHasOwner
<1>13. ASSUME NEW r \in Requests, ResponseError(r) PROVE IndInv'
    BY <1>13 DEF ResponseError, OneWinner, CallInv, LinkInv, RowInv, CommandMatchesMessage,
           OutboxMatchesRow, StatusFor, DispatchedHasOwner
<1>14. ASSUME NEW r \in Requests, RequestClosed(r) PROVE IndInv'
    BY <1>14 DEF RequestClosed, OneWinner, CallInv, LinkInv, RowInv, CommandMatchesMessage,
           OutboxMatchesRow, StatusFor, DispatchedHasOwner
<1>15. ASSUME NEW r \in Requests, RequestTimeout(r) PROVE IndInv'
    BY <1>15 DEF RequestTimeout, OneWinner, CallInv, LinkInv, RowInv, CommandMatchesMessage,
           OutboxMatchesRow, StatusFor, DispatchedHasOwner
<1>16. ASSUME NEW r \in Requests, FailSend(r) PROVE IndInv'
  <2>1. cmd[KeyOf[r]] = "dispatched" /\ FailStatus(code[r]) \in {"failed", "unknown"}
    BY <1>16 DEF FailSend, OneWinner, FailStatus
  <2>2. OneWinner' /\ CallInv' /\ LinkInv' /\ RowInv'
    BY <1>16, <2>1 DEF FailSend, OneWinner, CallInv, LinkInv, RowInv
  <2>3. CommandMatchesMessage'
    BY <1>16, <2>1 DEF FailSend, CommandMatchesMessage, StatusFor
  <2>4. OutboxMatchesRow'
    <3>1. updates[KeyOf[r]] = << >>
      BY <2>1 DEF OutboxMatchesRow
    <3>2. updates'[KeyOf[r]] = <<FailStatus(code[r])>>
      BY <1>16, <3>1 DEF FailSend
    <3>3. \A k \in Keys \ {KeyOf[r]} : updates'[k] = updates[k] /\ cmd'[k] = cmd[k]
      BY <1>16 DEF FailSend
    <3>4. cmd'[KeyOf[r]] = FailStatus(code[r])
      BY <1>16 DEF FailSend
    <3>. QED BY <2>1, <3>2, <3>3, <3>4 DEF OutboxMatchesRow, StatusFor
  <2>5. DispatchedHasOwner'
    BY <1>16, <2>1 DEF FailSend, DispatchedHasOwner
  <2>. QED BY <2>2, <2>3, <2>4, <2>5
<1>17. ASSUME NEW r \in Requests, FailSendFails(r) PROVE IndInv'
    BY <1>17 DEF FailSendFails, OneWinner, CallInv, LinkInv, RowInv, CommandMatchesMessage,
           OutboxMatchesRow, StatusFor, DispatchedHasOwner
<1>18. ASSUME NEW r \in Requests, CompleteSendDelete(r) PROVE IndInv'
    BY <1>18 DEF CompleteSendDelete, OneWinner, CallInv, LinkInv, RowInv, CommandMatchesMessage,
           OutboxMatchesRow, StatusFor, DispatchedHasOwner
<1>19. ASSUME NEW r \in Requests, CompleteSendUpdate(r) PROVE IndInv'
  <2>1. cmd[KeyOf[r]] = "dispatched" /\ link[KeyOf[r]]
    BY <1>19 DEF CompleteSendUpdate, OneWinner, LinkInv
  <2>2. OneWinner' /\ CallInv' /\ LinkInv' /\ RowInv'
    BY <1>19, <2>1 DEF CompleteSendUpdate, OneWinner, CallInv, LinkInv, RowInv
  <2>3. CommandMatchesMessage'
    BY <1>19, <2>1 DEF CompleteSendUpdate, CommandMatchesMessage, StatusFor
  <2>4. OutboxMatchesRow'
    <3>1. updates[KeyOf[r]] = << >>
      BY <2>1 DEF OutboxMatchesRow
    <3>2. updates'[KeyOf[r]] = <<"sent">>
      BY <1>19, <3>1 DEF CompleteSendUpdate
    <3>3. \A k \in Keys \ {KeyOf[r]} : updates'[k] = updates[k] /\ cmd'[k] = cmd[k]
      BY <1>19 DEF CompleteSendUpdate
    <3>4. cmd'[KeyOf[r]] = "completed"
      BY <1>19 DEF CompleteSendUpdate
    <3>. QED BY <3>2, <3>3, <3>4 DEF OutboxMatchesRow, StatusFor
  <2>5. DispatchedHasOwner'
    BY <1>19, <2>1 DEF CompleteSendUpdate, DispatchedHasOwner
  <2>. QED BY <2>2, <2>3, <2>4, <2>5
<1>20. ASSUME NEW r \in Requests, CompleteSendFails(r) PROVE IndInv'
    BY <1>20 DEF CompleteSendFails, OneWinner, CallInv, LinkInv, RowInv, CommandMatchesMessage,
           OutboxMatchesRow, StatusFor, DispatchedHasOwner
<1>21. ASSUME NEW r \in Requests, WorkerExecute(r) PROVE IndInv'
    BY <1>21 DEF WorkerExecute, OneWinner, CallInv, LinkInv, RowInv, CommandMatchesMessage,
           OutboxMatchesRow, StatusFor, DispatchedHasOwner
<1>22. ASSUME NEW r \in Requests, WorkerReject(r) PROVE IndInv'
    BY <1>22 DEF WorkerReject, OneWinner, CallInv, LinkInv, RowInv, CommandMatchesMessage,
           OutboxMatchesRow, StatusFor, DispatchedHasOwner
<1>23. ASSUME NEW r \in Requests, ProviderDecide(r) PROVE IndInv'
    BY <1>23 DEF ProviderDecide, OneWinner, CallInv, LinkInv, RowInv, CommandMatchesMessage,
           OutboxMatchesRow, StatusFor, DispatchedHasOwner
<1>24. ASSUME NEW r \in Requests, WorkerRespond(r) PROVE IndInv'
  <2>1. PICK a \in WorkerAnswers(r) : answer' = [answer EXCEPT ![r] = a]
    BY <1>24 DEF WorkerRespond
  <2>2. a # "none" /\ (a = "ok" => attempt[r] = "accepted")
    BY <2>1 DEF WorkerAnswers, UnknownCode, FailedCode
  <2>3. CallInv'
    BY <1>24, <2>1, <2>2 DEF WorkerRespond, CallInv
  <2>4. OneWinner' /\ LinkInv' /\ RowInv' /\ CommandMatchesMessage'
    BY <1>24 DEF WorkerRespond, OneWinner, LinkInv, RowInv, CommandMatchesMessage, StatusFor
  <2>5. OutboxMatchesRow' /\ DispatchedHasOwner'
    BY <1>24 DEF WorkerRespond, OutboxMatchesRow, StatusFor, DispatchedHasOwner
  <2>. QED BY <2>3, <2>4, <2>5
<1>25. ASSUME NEW r \in Requests, Deliver(r) PROVE IndInv'
    BY <1>25 DEF Deliver, OneWinner, CallInv, LinkInv, RowInv, CommandMatchesMessage,
           OutboxMatchesRow, StatusFor, DispatchedHasOwner
<1>26. ASSUME NEW r \in Requests, IngestEcho(r) PROVE IndInv'
    BY <1>26 DEF IngestEcho, HasRow, OneWinner, CallInv, LinkInv, RowInv, CommandMatchesMessage,
           OutboxMatchesRow, StatusFor, DispatchedHasOwner
<1>27. ASSUME NEW k \in Keys, Expire(k) PROVE IndInv'
    BY <1>27 DEF Expire, OneWinner, CallInv, LinkInv, RowInv, CommandMatchesMessage,
           OutboxMatchesRow, StatusFor, DispatchedHasOwner
<1>28. ASSUME NEW K \in SUBSET Keys, NEW R \in SUBSET Requests, Prune(K, R)
       PROVE  IndInv'
  <2>1. LinkInv' /\ CommandMatchesMessage'
    BY <1>28 DEF Prune, LinkInv, CommandMatchesMessage, StatusFor, CommandStatus
  <2>2. OneWinner' /\ CallInv' /\ RowInv'
    BY <1>28 DEF Prune, OneWinner, CallInv, RowInv
  <2>3. OutboxMatchesRow' /\ DispatchedHasOwner'
    BY <1>28 DEF Prune, OutboxMatchesRow, StatusFor, DispatchedHasOwner
  <2>. QED BY <2>1, <2>2, <2>3
<1>29. CASE WorkerConnect
    BY <1>29 DEF WorkerConnect, OneWinner, CallInv, LinkInv, RowInv, CommandMatchesMessage,
           OutboxMatchesRow, StatusFor, DispatchedHasOwner
<1>30. CASE WorkerDisconnect
    BY <1>30 DEF WorkerDisconnect, OneWinner, CallInv, LinkInv, RowInv, CommandMatchesMessage,
           OutboxMatchesRow, StatusFor, DispatchedHasOwner
<1>31. CASE ApiCrash
  <2>1. OneWinner' /\ CallInv' /\ LinkInv' /\ RowInv'
    BY <1>31 DEF ApiCrash, OneWinner, CallInv, LinkInv, RowInv
  <2>2. CommandMatchesMessage' /\ OutboxMatchesRow'
    BY <1>31 DEF ApiCrash, CommandMatchesMessage, OutboxMatchesRow, StatusFor
  <2>3. DispatchedHasOwner'
    <3>1. SUFFICES ASSUME NEW k \in Keys, cmd[k] = "dispatched"
                   PROVE  \E s \in Requests :
                            /\ KeyOf[s] = k
                            /\ pc'[s] = "done"
                            /\ outcome'[s] \in {"crashed", "internal_error", "unsaved"}
      BY <1>31 DEF ApiCrash, DispatchedHasOwner
    <3>2. PICK s \in Requests :
            /\ KeyOf[s] = k
            /\ \/ pc[s] \in InHub
               \/ pc[s] = "done" /\ outcome[s] \in {"crashed", "internal_error", "unsaved"}
      BY <3>1 DEF DispatchedHasOwner
    <3>. QED BY <1>31, <3>2 DEF ApiCrash
  <2>. QED BY <2>1, <2>2, <2>3
<1>32. CASE UNCHANGED vars
    BY <1>32 DEF OneWinner, CallInv, LinkInv, RowInv, CommandMatchesMessage,
           OutboxMatchesRow, StatusFor, DispatchedHasOwner
<1>. QED
    BY <1>a, <1>1, <1>2, <1>3, <1>4, <1>5, <1>6, <1>7, <1>8, <1>9,
       <1>10, <1>11, <1>12, <1>13, <1>14, <1>15, <1>16, <1>17, <1>18,
       <1>19, <1>20, <1>21, <1>22, <1>23, <1>24, <1>25, <1>26, <1>27,
       <1>28, <1>29, <1>30, <1>31, <1>32 DEF Next, HandlerStep, WorkerStep

\* The inductive invariant holds in every reachable state.
THEOREM IndInvHolds == Spec => []IndInv
<1>1. Init => IndInv
  <2>. SUFFICES ASSUME Init PROVE IndInv
    OBVIOUS
  <2>1. TypeOK
    <3>1. /\ "idle" \in PCs /\ "none" \in Codes /\ "none" \in Outcomes
          /\ "none" \in Wires /\ "none" \in Attempts
          /\ "none" \in CommandStatus /\ "none" \in MessageStatus
      BY DEF PCs, Codes, Outcomes, Wires, Attempts, CommandStatus, MessageStatus
    <3>2. updates \in [Keys -> Seq(MessageStatus)]
      BY DEF Init
    <3>. QED BY <3>1, <3>2 DEF Init, TypeOK
  <2>2. OneWinner /\ CallInv /\ LinkInv /\ DispatchedHasOwner
    BY KeyOfAssumption DEF Init, OneWinner, Won, InHub, CallInv, LinkInv, DispatchedHasOwner
  <2>3. RowInv /\ CommandMatchesMessage /\ OutboxMatchesRow
    BY NoMessageAssumption
    DEF Init, RowInv, CommandMatchesMessage, OutboxMatchesRow, StatusFor, Terminal
  <2>. QED BY <2>1, <2>2, <2>3 DEF IndInv
<1>2. IndInv /\ [Next]_vars => IndInv'
    BY TypeStep, IndStep DEF IndInv
<1>. QED
    BY <1>1, <1>2, PTL DEF Spec

\* The type invariant of the send pipeline.
THEOREM TypeCorrect == Spec => []TypeOK
    BY IndInvHolds, PTL DEF IndInv

\* For every number of calls, retries, crashes and reconnects: at most one call
\* per idempotency key hands the message to the worker.
THEOREM AtMostOnce == Spec => []AtMostOneSend
<1>1. IndInv => AtMostOneSend
    BY DEF IndInv, OneWinner, Won, AtMostOneSend
<1>. QED
    BY <1>1, IndInvHolds, PTL

\* Command row and message row tell the same story.
THEOREM RowsAgree == Spec => []CommandMatchesMessage
<1>1. IndInv => CommandMatchesMessage
    BY DEF IndInv
<1>. QED
    BY <1>1, IndInvHolds, PTL

\* A message the provider took is one row, whichever of CompleteSend and
\* ingestMessage comes first.
THEOREM OneRow == Spec => []OneRowPerMessage
<1>1. IndInv => OneRowPerMessage
    BY NoMessageAssumption, KeyOfAssumption
    DEF IndInv, TypeOK, RowInv, OneRowPerMessage
<1>. QED
    BY <1>1, IndInvHolds, PTL

\* A settled send has exactly one message.updated in the outbox, with the
\* status it settled as, however often it is retried.
THEOREM OutboxAgrees == Spec => []OutboxMatchesRow
<1>1. IndInv => OutboxMatchesRow
    BY DEF IndInv
<1>. QED
    BY <1>1, IndInvHolds, PTL

\* ingestMessage announces no message whose optimistic row CompleteSend has
\* completed; no other step announces a message at all.
THEOREM NoLateEcho == Spec => NoEchoAfterCompletion
<1> DEFINE Quiet == \A r \in announced' \ announced : \A k \in Keys : ownPid[k] # r
<1>1. ASSUME [Next]_vars PROVE Quiet \/ UNCHANGED vars
  <2>1. ASSUME NEW r \in Requests, IngestEcho(r) PROVE Quiet
    BY <2>1 DEF IngestEcho, HasRow
  <2>2. ASSUME NEW r \in Requests,
               PrepareSendNew(r) \/ PrepareSendConflict(r) \/ HandlerStep(r) \/ WorkerStep(r)
        PROVE  UNCHANGED announced
    BY <2>2 DEF HandlerStep, WorkerStep, handlerVars, hubVars, commandVars, messageVars,
           PrepareSendNew, PrepareSendConflict, ExistingSendPending, ExistingSendKnown,
           ExistingSendMissing, MarkCommandDispatched, MarkCommandRefused,
           RequestOffline, RequestWritten, RequestWriteFails, ResponseOk, ResponseError,
           RequestClosed, RequestTimeout, FailSend, CompleteSendDelete,
           CompleteSendUpdate, CompleteSendFails, FailSendFails, QueryFails,
           WorkerExecute, WorkerReject, ProviderDecide, WorkerRespond, Deliver
  <2>3. ASSUME \/ \E k \in Keys : Expire(k)
               \/ \E K \in SUBSET Keys, R \in SUBSET Requests : Prune(K, R)
               \/ WorkerConnect \/ WorkerDisconnect \/ ApiCrash
        PROVE  UNCHANGED announced
    BY <2>3 DEF Expire, Prune, WorkerConnect, WorkerDisconnect, ApiCrash, messageVars
  <2>. QED BY <1>1, <2>1, <2>2, <2>3 DEF Next
<1>2. [Next]_vars => [Quiet]_vars
    BY <1>1
<1>. QED
    BY <1>2, PTL DEF Spec, NoEchoAfterCompletion

\* No dispatched command is left without a handler, except by a crash or a
\* failed transaction.
THEOREM OwnerExists == Spec => []DispatchedHasOwner
    BY IndInvHolds, PTL DEF IndInv

-----------------------------------------------------------------------------
\* A step that leaves commands.status and the provider alone is a stuttering
\* step of the contract.
LEMMA StillStep ==
    ASSUME UNCHANGED <<cmd, attempt>>
    PROVE  UNCHANGED <<cmd, DeliveredKeys>>
    BY DEF DeliveredKeys

\* Every step of the pipeline is a step of the contract or leaves its state
\* alone.
LEMMA ContractStep ==
    IndInv /\ [Next]_vars => [Contract!ContractNext]_(Contract!contractVars)
<1>a. SUFFICES ASSUME IndInv, [Next]_vars
               PROVE  Contract!ContractNext \/ UNCHANGED <<cmd, DeliveredKeys>>
    BY DEF Contract!contractVars
<1>b. IndInv
    BY <1>a
<1> USE <1>b, KeyOfAssumption
<1>1. ASSUME NEW r \in Requests, PrepareSendNew(r) PROVE Contract!Submit(KeyOf[r])
    BY <1>1 DEF PrepareSendNew, hubVars, Contract!Submit, DeliveredKeys
<1>2. ASSUME NEW r \in Requests, MarkCommandDispatched(r)
      PROVE  Contract!Dispatch(KeyOf[r])
    BY <1>2 DEF MarkCommandDispatched, hubVars, Contract!Dispatch, DeliveredKeys
<1>3. ASSUME NEW r \in Requests, FailSend(r)
      PROVE  \E s \in Contract!Settled : Contract!Settle(KeyOf[r], s)
  <2>1. FailStatus(code[r]) \in Contract!Settled /\ FailStatus(code[r]) # "completed"
    BY DEF FailStatus, Contract!Settled
  <2>2. cmd[KeyOf[r]] = "dispatched"
    BY <1>3 DEF FailSend, IndInv, OneWinner, InHub
  <2>3. Contract!Settle(KeyOf[r], FailStatus(code[r]))
    BY <1>3, <2>1, <2>2 DEF FailSend, hubVars, Contract!Settle, DeliveredKeys
  <2>. QED BY <2>1, <2>3
<1>4. ASSUME NEW r \in Requests, CompleteSendUpdate(r)
      PROVE  \E s \in Contract!Settled : Contract!Settle(KeyOf[r], s)
  <2>1. cmd[KeyOf[r]] = "dispatched" /\ attempt[r] = "accepted"
    BY <1>4 DEF CompleteSendUpdate, IndInv, OneWinner, InHub, CallInv
  <2>2. KeyOf[r] \in DeliveredKeys
    BY <2>1 DEF DeliveredKeys
  <2>3. Contract!Settle(KeyOf[r], "completed")
    BY <1>4, <2>1, <2>2 DEF CompleteSendUpdate, hubVars, Contract!Settle, DeliveredKeys
  <2>. QED BY <2>3 DEF Contract!Settled
<1>5. ASSUME NEW r \in Requests, WorkerExecute(r) PROVE UNCHANGED <<cmd, DeliveredKeys>>
  <2>1. attempt[r] = "none" /\ attempt' = [attempt EXCEPT ![r] = "open"]
    BY <1>5 DEF WorkerExecute, IndInv, CallInv
  <2>2. \A s \in Requests : attempt'[s] = "accepted" <=> attempt[s] = "accepted"
    BY <2>1 DEF IndInv, TypeOK
  <2>. QED BY <1>5, <2>2 DEF WorkerExecute, commandVars, DeliveredKeys
<1>6. ASSUME NEW r \in Requests, ProviderDecide(r)
      PROVE  Contract!Accept(KeyOf[r]) \/ UNCHANGED <<cmd, DeliveredKeys>>
  <2>1. UNCHANGED cmd /\ attempt[r] = "open"
    BY <1>6 DEF ProviderDecide, commandVars
  <2>2. CASE attempt' = [attempt EXCEPT ![r] = "refused"]
    <3>1. \A s \in Requests : attempt'[s] = "accepted" <=> attempt[s] = "accepted"
      BY <2>1, <2>2 DEF IndInv, TypeOK
    <3>. QED BY <2>1, <3>1 DEF DeliveredKeys
  <2>3. CASE attempt' = [attempt EXCEPT ![r] = "accepted"]
    <3>1. cmd[KeyOf[r]] \notin {"none", "pending"}
      BY <2>1 DEF IndInv, OneWinner, CallInv, Won
    <3>2. KeyOf[r] \notin DeliveredKeys
      <4>1. SUFFICES ASSUME NEW s \in Requests, attempt[s] = "accepted",
                            KeyOf[s] = KeyOf[r]
                     PROVE  FALSE
        BY DEF DeliveredKeys
      <4>2. Won(s) /\ Won(r)
        BY <2>1, <4>1 DEF IndInv, CallInv, Won
      <4>3. s = r
        BY <4>1, <4>2 DEF IndInv, OneWinner
      <4>. QED BY <2>1, <4>1, <4>3
    <3>3. \A s \in Requests :
            attempt'[s] = "accepted" <=> attempt[s] = "accepted" \/ s = r
      BY <2>3 DEF IndInv, TypeOK
    <3>4. DeliveredKeys' = DeliveredKeys \cup {KeyOf[r]}
      BY <3>3 DEF DeliveredKeys
    <3>. QED BY <2>1, <3>1, <3>2, <3>4 DEF Contract!Accept
  <2>. QED BY <1>6, <2>2, <2>3 DEF ProviderDecide
<1>7. ASSUME NEW r \in Requests,
             \/ PrepareSendConflict(r) \/ ExistingSendPending(r) \/ ExistingSendKnown(r)
             \/ ExistingSendMissing(r) \/ MarkCommandRefused(r) \/ QueryFails(r)
             \/ RequestOffline(r) \/ RequestWritten(r) \/ RequestWriteFails(r)
             \/ ResponseOk(r) \/ ResponseError(r) \/ RequestClosed(r)
             \/ RequestTimeout(r) \/ FailSendFails(r) \/ CompleteSendDelete(r)
             \/ CompleteSendFails(r) \/ WorkerReject(r) \/ WorkerRespond(r)
             \/ Deliver(r) \/ IngestEcho(r)
      PROVE  UNCHANGED <<cmd, DeliveredKeys>>
  <2>1. UNCHANGED <<cmd, attempt>>
    BY <1>7 DEF handlerVars, hubVars, commandVars,
           PrepareSendConflict, ExistingSendPending, ExistingSendKnown,
           ExistingSendMissing, MarkCommandRefused, QueryFails,
           RequestOffline, RequestWritten, RequestWriteFails,
           ResponseOk, ResponseError, RequestClosed,
           RequestTimeout, FailSendFails, CompleteSendDelete,
           CompleteSendFails, WorkerReject, WorkerRespond,
           Deliver, IngestEcho
  <2>. QED BY <2>1, StillStep
<1>8. ASSUME \/ \E k \in Keys : Expire(k)
             \/ \E K \in SUBSET Keys, R \in SUBSET Requests : Prune(K, R)
             \/ WorkerConnect \/ WorkerDisconnect \/ ApiCrash \/ UNCHANGED vars
      PROVE  UNCHANGED <<cmd, DeliveredKeys>>
  <2>1. UNCHANGED <<cmd, attempt>>
    BY <1>8 DEF vars, handlerVars, hubVars, commandVars,
           Expire, Prune, WorkerConnect, WorkerDisconnect, ApiCrash
  <2>. QED BY <2>1, StillStep
<1>9. ASSUME NEW k \in Keys,
             \/ Contract!Submit(k) \/ Contract!Dispatch(k) \/ Contract!Accept(k)
             \/ \E s \in Contract!Settled : Contract!Settle(k, s)
      PROVE  Contract!ContractNext
    BY <1>9 DEF Contract!ContractNext
<1>10. CASE Next
  <2>1. ASSUME NEW r \in Requests,
               \/ PrepareSendNew(r) \/ PrepareSendConflict(r) \/ HandlerStep(r)
               \/ WorkerStep(r) \/ IngestEcho(r)
        PROVE  Contract!ContractNext \/ UNCHANGED <<cmd, DeliveredKeys>>
    <3>1. KeyOf[r] \in Keys
      OBVIOUS
    <3>. QED BY <2>1, <3>1, <1>1, <1>2, <1>3, <1>4, <1>5, <1>6, <1>7, <1>9
             DEF HandlerStep, WorkerStep
  <2>. QED BY <1>10, <2>1, <1>8 DEF Next
<1>. QED BY <1>a, <1>8, <1>10

\* The pipeline implements the contract of SendContract, for every set of calls
\* and keys: one submission, one dispatch, at most one acceptance by the
\* provider and one settlement per idempotency key.
THEOREM PipelineImplementsContract == Spec => SendImplementsContract
<1>1. Init => Contract!ContractInit
    BY DEF Init, Contract!ContractInit, DeliveredKeys
<1>2. IndInv /\ [Next]_vars => [Contract!ContractNext]_(Contract!contractVars)
    BY ContractStep
<1>. QED
    BY <1>1, <1>2, IndInvHolds, PTL DEF Spec, SendImplementsContract, Contract!ContractSpec
=============================================================================
