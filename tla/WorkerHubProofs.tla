--------------------------- MODULE WorkerHubProofs ---------------------------
(***************************************************************************)
(* Proofs about WorkerHub for every set of workers and connections and     *)
(* every number of failures and restarts.                                  *)
(***************************************************************************)
EXTENDS WorkerHub, TLAPS

\* Past AuthenticateWorker, and not yet returned from ServeWorker.
Admitted(c) == conn[c].phase \in {"authenticated", "ready", "serving", "leaving"}

\* A call of ServeWorker that has read its hello belongs to a worker.
OwnerInv == \A c \in Conns : conn[c].phase # "free" => conn[c].owner \in Workers

\* The register names a connection that is being served.
RegisterInv == registered # NoConn => Active(registered)

\* As long as the enrolment token has not been redeemed nobody is admitted and
\* nobody has a credential.
EnrolmentInv ==
    ~account.redeemed =>
        /\ \A c \in Conns : ~Admitted(c) /\ ~conn[c].issued /\ conn[c].token = "enrollment"
        /\ \A w \in Workers : token[w] = "enrollment"

\* The generation changes with the redemption only, so that every admitted
\* connection has the account's.
GenerationInv == \A c \in Conns : Admitted(c) => conn[c].gen = account.generation

IndInv ==
    /\ TypeOK
    /\ OwnerInv
    /\ RegisterInv
    /\ EnrolmentInv
    /\ GenerationInv
    /\ OneActiveWorker
    /\ OneKeyholder
    /\ LiveMeansConnected

-----------------------------------------------------------------------------
\* A free slot is a slot.
LEMMA FreeType ==
    /\ Free \in Slot /\ Free.phase = "free" /\ ~Free.issued /\ Free.token = "enrollment"
    BY DEF Free, Slot, Phases, Tokens

\* One call of ServeWorker moves on: conn' differs from conn in its slot.
LEMMA SlotStep ==
    ASSUME TypeOK, NEW c \in Conns, NEW slot \in Slot, conn' = [conn EXCEPT ![c] = slot]
    PROVE  /\ conn' \in [Conns -> Slot]
           /\ conn'[c] = slot
           /\ \A d \in Conns \ {c} : conn'[d] = conn[d]
    BY DEF TypeOK

\* What the invariant says depends on five fields of a slot only.
LEMMA SameSlots ==
    ASSUME IndInv, conn' \in [Conns -> Slot],
           \A c \in Conns : /\ conn'[c].phase = conn[c].phase
                            /\ conn'[c].owner = conn[c].owner
                            /\ conn'[c].token = conn[c].token
                            /\ conn'[c].gen = conn[c].gen
                            /\ conn'[c].issued = conn[c].issued,
           UNCHANGED <<account, registered, up, unset>>,
           \A w \in Workers : token'[w] = "credential" =>
                \/ token[w] = "credential"
                \/ \E c \in Conns : conn[c].owner = w /\ conn[c].issued,
           TypeOK'
    PROVE  IndInv'
<1>1. registered # NoConn => registered \in Conns
    BY DEF IndInv, TypeOK
<1>2. OwnerInv' /\ RegisterInv' /\ GenerationInv' /\ OneActiveWorker'
    BY <1>1 DEF IndInv, OwnerInv, RegisterInv, GenerationInv, OneActiveWorker, Active, Admitted
<1>3. EnrolmentInv'
  <2>1. SUFFICES ASSUME ~account.redeemed
                 PROVE  /\ \A c \in Conns : /\ ~Admitted(c)' /\ ~conn'[c].issued
                                            /\ conn'[c].token = "enrollment"
                        /\ \A w \in Workers : token'[w] = "enrollment"
    BY DEF EnrolmentInv
  <2>2. /\ \A c \in Conns : ~Admitted(c) /\ ~conn[c].issued /\ conn[c].token = "enrollment"
        /\ \A w \in Workers : token[w] = "enrollment"
    BY <2>1 DEF IndInv, EnrolmentInv
  <2>3. \A w \in Workers : token'[w] = "enrollment"
    BY <2>2 DEF TypeOK, Tokens
  <2>. QED BY <2>2, <2>3 DEF Admitted
<1>4. OneKeyholder'
    BY DEF IndInv, OneKeyholder, Keyholders
<1>5. LiveMeansConnected'
    BY DEF IndInv, LiveMeansConnected
<1>. QED BY <1>2, <1>3, <1>4, <1>5 DEF IndInv

\* Every step keeps the inductive invariant.
LEMMA IndStep == IndInv /\ [Next]_vars => IndInv'
<1>a. SUFFICES ASSUME IndInv, [Next]_vars PROVE IndInv'
    OBVIOUS
<1>b. /\ TypeOK /\ OwnerInv /\ RegisterInv /\ EnrolmentInv /\ GenerationInv
      /\ OneActiveWorker /\ OneKeyholder /\ LiveMeansConnected
    BY <1>a DEF IndInv
<1> USE <1>b, NoWorkerAssumption, NoConnAssumption, BoundsAssumption
<1>c. /\ \A c \in Conns : conn[c] \in Slot
      /\ \A c \in Conns : conn[c].phase \in Phases /\ conn[c].token \in Tokens
                          /\ conn[c].issued \in BOOLEAN
                          /\ conn[c].owner \in Workers \cup {NoWorker} /\ conn[c].gen \in Nat
      /\ account.generation \in Nat /\ account.redeemed \in BOOLEAN
      /\ registered = NoConn \/ registered \in Conns
    BY DEF TypeOK, Slot
<1>1. ASSUME NEW w \in Workers, NEW c \in Conns, Dial(w, c) PROVE IndInv'
  <2> DEFINE slot == [Free EXCEPT !.phase = "hello", !.owner = w,
                                !.token = token[w], !.peer = TRUE]
  <2>1. /\ conn[c] = Free
        /\ conn' = [conn EXCEPT ![c] = slot]
        /\ UNCHANGED <<account, registered, up, deletion, token, linked, reports, unset, restarts, failures>>
    BY <1>1, <1>c DEF Dial, workerVars
  <2>2. slot \in Slot /\ slot.phase = "hello" /\ slot.owner = w
        /\ slot.token = token[w] /\ ~slot.issued
    BY <1>c, <2>1 DEF Free, Slot, Phases, Tokens, TypeOK
  <2> HIDE DEF slot
  <2>3. /\ conn' \in [Conns -> Slot] /\ conn'[c] = slot
        /\ \A d \in Conns \ {c} : conn'[d] = conn[d]
    BY <2>1, <2>2, SlotStep
  <2>4. TypeOK'
    BY <2>1, <2>3 DEF TypeOK
  <2>5. OwnerInv' /\ RegisterInv' /\ OneActiveWorker'
    BY <1>c, <2>1, <2>2, <2>3, FreeType DEF OwnerInv, RegisterInv, OneActiveWorker, Active, Phases
  <2>6. EnrolmentInv' /\ GenerationInv'
    BY <1>c, <2>1, <2>2, <2>3, FreeType DEF EnrolmentInv, GenerationInv, Admitted, Phases
  <2>7. OneKeyholder'
    BY <1>c, <2>1, <2>2, <2>3, FreeType DEF OneKeyholder, Keyholders, EnrolmentInv
  <2>8. LiveMeansConnected'
    BY <1>c, <2>1, <2>2, <2>3, FreeType DEF LiveMeansConnected, OneActiveWorker, Active, Phases
  <2>. QED BY <2>4, <2>5, <2>6, <2>7, <2>8 DEF IndInv
<1>2. ASSUME NEW c \in Conns, AuthenticateCredential(c) PROVE IndInv'
  <2> DEFINE slot == [conn[c] EXCEPT !.phase = "authenticated", !.gen = account.generation]
  <2>1. /\ conn[c].phase = "hello" /\ conn[c].token = "credential"
        /\ conn' = [conn EXCEPT ![c] = slot]
        /\ UNCHANGED <<account, registered, up, deletion, token, linked, reports, unset, restarts, failures>>
    BY <1>2, <1>c DEF AuthenticateCredential, workerVars
  <2>2. slot \in Slot /\ slot.phase = "authenticated"
        /\ slot.gen = account.generation /\ slot.owner = conn[c].owner
        /\ slot.token = conn[c].token /\ slot.issued = conn[c].issued
    BY <1>c, <2>1 DEF Slot, Phases, Tokens
  <2> HIDE DEF slot
  <2>3. /\ conn' \in [Conns -> Slot] /\ conn'[c] = slot
        /\ \A d \in Conns \ {c} : conn'[d] = conn[d]
    BY <2>1, <2>2, SlotStep
  <2>4. TypeOK'
    BY <2>1, <2>3 DEF TypeOK
  <2>5. OwnerInv' /\ RegisterInv' /\ OneActiveWorker'
    BY <1>c, <2>1, <2>2, <2>3 DEF OwnerInv, RegisterInv, OneActiveWorker, Active, Phases
  <2>6. EnrolmentInv' /\ GenerationInv'
    BY <1>c, <2>1, <2>2, <2>3 DEF EnrolmentInv, GenerationInv, Admitted, Phases
  <2>7. OneKeyholder'
    BY <1>c, <2>1, <2>2, <2>3 DEF OneKeyholder, Keyholders, EnrolmentInv
  <2>8. LiveMeansConnected'
    BY <1>c, <2>1, <2>2, <2>3 DEF LiveMeansConnected, OneActiveWorker, Active, Phases
  <2>. QED BY <2>4, <2>5, <2>6, <2>7, <2>8 DEF IndInv
<1>3. ASSUME NEW c \in Conns, Register(c) PROVE IndInv'
  <2> DEFINE slot == [conn[c] EXCEPT !.phase = "ready"]
  <2>1. /\ conn[c].phase = "authenticated" /\ registered = NoConn /\ registered' = c
        /\ conn' = [conn EXCEPT ![c] = slot]
        /\ UNCHANGED <<account, up, deletion, token, linked, reports, unset, restarts, failures>>
    BY <1>3, <1>c DEF Register, workerVars
  <2>2. slot \in Slot /\ slot.phase = "ready" /\ slot.gen = conn[c].gen
        /\ slot.owner = conn[c].owner
        /\ slot.token = conn[c].token /\ slot.issued = conn[c].issued
    BY <1>c, <2>1 DEF Slot, Phases, Tokens
  <2> HIDE DEF slot
  <2>3. /\ conn' \in [Conns -> Slot] /\ conn'[c] = slot
        /\ \A d \in Conns \ {c} : conn'[d] = conn[d]
    BY <2>1, <2>2, SlotStep
  <2>4. TypeOK'
    BY <2>1, <2>3 DEF TypeOK
  <2>5. OwnerInv' /\ RegisterInv' /\ OneActiveWorker'
    BY <1>c, <2>1, <2>2, <2>3 DEF OwnerInv, RegisterInv, OneActiveWorker, Active, Phases
  <2>6. EnrolmentInv' /\ GenerationInv'
    BY <1>c, <2>1, <2>2, <2>3 DEF EnrolmentInv, GenerationInv, Admitted, Phases
  <2>7. OneKeyholder'
    BY <1>c, <2>1, <2>2, <2>3 DEF OneKeyholder, Keyholders, EnrolmentInv
  <2>8. LiveMeansConnected'
    BY <1>c, <2>1, <2>2, <2>3 DEF LiveMeansConnected, OneActiveWorker, Active, Phases
  <2>. QED BY <2>4, <2>5, <2>6, <2>7, <2>8 DEF IndInv
<1>4. ASSUME NEW c \in Conns, SendReady(c) PROVE IndInv'
  <2> DEFINE slot == [conn[c] EXCEPT !.phase = "serving", !.ready = conn[c].peer]
  <2>1. /\ conn[c].phase = "ready"
        /\ conn' = [conn EXCEPT ![c] = slot]
        /\ UNCHANGED <<account, registered, up, deletion, token, linked, reports, unset, restarts, failures>>
    BY <1>4, <1>c DEF SendReady, workerVars
  <2>2. slot \in Slot /\ slot.phase = "serving" /\ slot.gen = conn[c].gen
        /\ slot.owner = conn[c].owner
        /\ slot.token = conn[c].token /\ slot.issued = conn[c].issued
    BY <1>c, <2>1 DEF Slot, Phases, Tokens
  <2> HIDE DEF slot
  <2>3. /\ conn' \in [Conns -> Slot] /\ conn'[c] = slot
        /\ \A d \in Conns \ {c} : conn'[d] = conn[d]
    BY <2>1, <2>2, SlotStep
  <2>4. TypeOK'
    BY <2>1, <2>3 DEF TypeOK
  <2>5. OwnerInv' /\ RegisterInv' /\ OneActiveWorker'
    BY <1>c, <2>1, <2>2, <2>3 DEF OwnerInv, RegisterInv, OneActiveWorker, Active, Phases
  <2>6. EnrolmentInv' /\ GenerationInv'
    BY <1>c, <2>1, <2>2, <2>3 DEF EnrolmentInv, GenerationInv, Admitted, Phases
  <2>7. OneKeyholder'
    BY <1>c, <2>1, <2>2, <2>3 DEF OneKeyholder, Keyholders, EnrolmentInv
  <2>8. LiveMeansConnected'
    BY <1>c, <2>1, <2>2, <2>3 DEF LiveMeansConnected, OneActiveWorker, Active, Phases
  <2>. QED BY <2>4, <2>5, <2>6, <2>7, <2>8 DEF IndInv
<1>5. ASSUME NEW c \in Conns, Leave(c) PROVE IndInv'
  <2> DEFINE slot == [conn[c] EXCEPT !.phase = "leaving", !.peer = FALSE, !.ready = FALSE]
  <2>1. /\ conn[c].phase \in {"ready", "serving"}
        /\ registered' = IF registered = c THEN NoConn ELSE registered
        /\ conn' = [conn EXCEPT ![c] = slot]
        /\ UNCHANGED <<account, up, deletion, token, linked, reports, unset, restarts, failures>>
    BY <1>5, <1>c DEF Leave, workerVars
  <2>2. slot \in Slot /\ slot.phase = "leaving" /\ slot.gen = conn[c].gen
        /\ slot.owner = conn[c].owner
        /\ slot.token = conn[c].token /\ slot.issued = conn[c].issued
    BY <1>c, <2>1 DEF Slot, Phases, Tokens
  <2> HIDE DEF slot
  <2>3. /\ conn' \in [Conns -> Slot] /\ conn'[c] = slot
        /\ \A d \in Conns \ {c} : conn'[d] = conn[d]
    BY <2>1, <2>2, SlotStep
  <2>4. TypeOK'
    BY <2>1, <2>3 DEF TypeOK
  <2>5. OwnerInv' /\ RegisterInv' /\ OneActiveWorker'
    BY <1>c, <2>1, <2>2, <2>3 DEF OwnerInv, RegisterInv, OneActiveWorker, Active, Phases
  <2>6. EnrolmentInv' /\ GenerationInv'
    BY <1>c, <2>1, <2>2, <2>3 DEF EnrolmentInv, GenerationInv, Admitted, Phases
  <2>7. OneKeyholder'
    BY <1>c, <2>1, <2>2, <2>3 DEF OneKeyholder, Keyholders, EnrolmentInv
  <2>8. LiveMeansConnected'
    BY <1>c, <2>1, <2>2, <2>3 DEF LiveMeansConnected, OneActiveWorker, Active, Phases
  <2>. QED BY <2>4, <2>5, <2>6, <2>7, <2>8 DEF IndInv
<1>6. ASSUME NEW c \in Conns, RedeemEnrollment(c) PROVE IndInv'
  <2> DEFINE g == account.generation + 1
             slot == [conn[c] EXCEPT !.phase = "authenticated", !.issued = TRUE, !.gen = g]
             row == [account EXCEPT !.redeemed = TRUE, !.status = "offline", !.generation = g]
  <2>0. g \in Nat /\ g = account.generation + 1
    BY DEF TypeOK
  <2>1. /\ conn[c].phase = "hello" /\ ~account.redeemed
        /\ account' = row
        /\ conn' = [conn EXCEPT ![c] = slot]
        /\ UNCHANGED <<registered, up, deletion, token, linked, reports, unset, restarts, failures>>
    BY <1>6, <1>c DEF RedeemEnrollment, Redeemable, workerVars
  <2> HIDE DEF g
  <2>2. slot \in Slot /\ slot.phase = "authenticated" /\ slot.issued
        /\ slot.gen = g /\ slot.owner = conn[c].owner
    BY <1>c, <2>0 DEF Slot, Phases, Tokens
  <2>10. /\ row \in [exists : BOOLEAN, redeemed : BOOLEAN, expired : BOOLEAN,
                     generation : Nat, status : Statuses]
         /\ row.redeemed /\ row.generation = g /\ row.status = "offline"
    BY <2>0 DEF TypeOK, Statuses
  <2> HIDE DEF row
  <2> HIDE DEF slot
  <2>3. /\ conn' \in [Conns -> Slot] /\ conn'[c] = slot
        /\ \A d \in Conns \ {c} : conn'[d] = conn[d]
    BY <2>1, <2>2, SlotStep
  <2>9. /\ account'.redeemed /\ account'.generation = account.generation + 1
        /\ account'.status # "live"
        /\ \A d \in Conns : ~Admitted(d) /\ ~conn[d].issued
        /\ \A w \in Workers : token[w] # "credential"
    BY <2>0, <2>1, <2>10 DEF EnrolmentInv
  <2>4. TypeOK'
    BY <2>1, <2>3, <2>10 DEF TypeOK
  <2>5. OwnerInv' /\ RegisterInv' /\ OneActiveWorker'
    BY <1>c, <2>1, <2>0, <2>2, <2>3, <2>9 DEF OwnerInv, RegisterInv, OneActiveWorker, Active, Phases
  <2>6. EnrolmentInv' /\ GenerationInv'
    BY <1>c, <2>1, <2>0, <2>2, <2>3, <2>9 DEF EnrolmentInv, GenerationInv, Admitted, Phases
  <2>7. OneKeyholder'
    BY <1>c, <2>1, <2>0, <2>2, <2>3, <2>9 DEF OneKeyholder, Keyholders, EnrolmentInv
  <2>8. LiveMeansConnected'
    BY <1>c, <2>1, <2>0, <2>2, <2>3, <2>9 DEF LiveMeansConnected, OneActiveWorker, Active, Phases
  <2>. QED BY <2>4, <2>5, <2>6, <2>7, <2>8 DEF IndInv
<1>7. ASSUME NEW c \in Conns, AuthenticationFails(c) \/ RegisterRefused(c) PROVE IndInv'
  <2>1. /\ conn[c].phase \in {"hello", "authenticated"}
        /\ conn' = [conn EXCEPT ![c] = Free]
        /\ UNCHANGED <<account, registered, up, deletion, token, linked, reports, unset, restarts, failures>>
    BY <1>7 DEF AuthenticationFails, RegisterRefused, workerVars
  <2>2. Free \in Slot /\ Free.phase = "free" /\ ~Free.issued /\ Free.token = "enrollment"
    BY FreeType
  <2>3. /\ conn' \in [Conns -> Slot] /\ conn'[c] = Free
        /\ \A d \in Conns \ {c} : conn'[d] = conn[d]
    BY <2>1, <2>2, SlotStep
  <2>4. TypeOK'
    BY <2>1, <2>3 DEF TypeOK
  <2>5. OwnerInv' /\ RegisterInv' /\ OneActiveWorker'
    BY <1>c, <2>1, <2>2, <2>3 DEF OwnerInv, RegisterInv, OneActiveWorker, Active, Phases
  <2>6. EnrolmentInv' /\ GenerationInv'
    BY <1>c, <2>1, <2>2, <2>3 DEF EnrolmentInv, GenerationInv, Admitted, Phases
  <2>7. OneKeyholder'
    BY <1>c, <2>1, <2>2, <2>3 DEF OneKeyholder, Keyholders, EnrolmentInv
  <2>8. LiveMeansConnected'
    BY <1>c, <2>1, <2>2, <2>3 DEF LiveMeansConnected, OneActiveWorker, Active, Phases
  <2>. QED BY <2>4, <2>5, <2>6, <2>7, <2>8 DEF IndInv
<1>8. ASSUME NEW c \in Conns, SetOffline(c) PROVE IndInv'
  <2>1. /\ conn[c].phase = "leaving" /\ account' = WithStatus(c, "offline")
        /\ conn' = [conn EXCEPT ![c] = Free]
        /\ UNCHANGED <<registered, up, deletion, token, linked, reports, unset, restarts, failures>>
    BY <1>8 DEF SetOffline, workerVars
  <2>2. Free \in Slot /\ Free.phase = "free" /\ ~Free.issued /\ Free.token = "enrollment"
    BY FreeType
  <2>3. /\ conn' \in [Conns -> Slot] /\ conn'[c] = Free
        /\ \A d \in Conns \ {c} : conn'[d] = conn[d]
    BY <2>1, <2>2, SlotStep
  <2>9. /\ account' \in [exists : BOOLEAN, redeemed : BOOLEAN, expired : BOOLEAN,
                         generation : Nat, status : Statuses]
        /\ account'.redeemed = account.redeemed /\ account'.generation = account.generation
        /\ account'.exists = account.exists /\ (account.exists => account'.status = "offline")
    BY <2>1 DEF TypeOK, WithStatus, Statuses, GenerationInv, Admitted
  <2>4. TypeOK'
    BY <2>1, <2>3, <2>9 DEF TypeOK
  <2>5. OwnerInv' /\ RegisterInv' /\ OneActiveWorker'
    BY <1>c, <2>1, <2>2, <2>3 DEF OwnerInv, RegisterInv, OneActiveWorker, Active, Phases
  <2>6. EnrolmentInv' /\ GenerationInv'
    BY <1>c, <2>1, <2>2, <2>3, <2>9 DEF EnrolmentInv, GenerationInv, Admitted, Phases
  <2>7. OneKeyholder'
    BY <1>c, <2>1, <2>2, <2>3 DEF OneKeyholder, Keyholders, EnrolmentInv
  <2>8. LiveMeansConnected'
    BY <1>c, <2>1, <2>2, <2>3, <2>9 DEF LiveMeansConnected, OneActiveWorker, Active, Phases
  <2>. QED BY <2>4, <2>5, <2>6, <2>7, <2>8 DEF IndInv
<1>9. ASSUME NEW c \in Conns, SetOfflineFails(c) PROVE IndInv'
  <2>1. /\ conn[c].phase = "leaving" /\ unset' = TRUE
        /\ failures < MaxFailures /\ failures' = failures + 1
        /\ conn' = [conn EXCEPT ![c] = Free]
        /\ UNCHANGED <<account, registered, up, deletion, token, linked, reports, restarts>>
    BY <1>9 DEF SetOfflineFails, Fail, workerVars
  <2>2. Free \in Slot /\ Free.phase = "free" /\ ~Free.issued /\ Free.token = "enrollment"
    BY FreeType
  <2>3. /\ conn' \in [Conns -> Slot] /\ conn'[c] = Free
        /\ \A d \in Conns \ {c} : conn'[d] = conn[d]
    BY <2>1, <2>2, SlotStep
  <2>4. TypeOK'
    BY <2>1, <2>3 DEF TypeOK
  <2>5. OwnerInv' /\ RegisterInv' /\ OneActiveWorker'
    BY <1>c, <2>1, <2>2, <2>3 DEF OwnerInv, RegisterInv, OneActiveWorker, Active, Phases
  <2>6. EnrolmentInv' /\ GenerationInv'
    BY <1>c, <2>1, <2>2, <2>3 DEF EnrolmentInv, GenerationInv, Admitted, Phases
  <2>7. OneKeyholder'
    BY <1>c, <2>1, <2>2, <2>3 DEF OneKeyholder, Keyholders, EnrolmentInv
  <2>8. LiveMeansConnected'
    BY <1>c, <2>1, <2>2, <2>3 DEF LiveMeansConnected, OneActiveWorker, Active, Phases
  <2>. QED BY <2>4, <2>5, <2>6, <2>7, <2>8 DEF IndInv
<1>10. ASSUME NEW c \in Conns, PeerDrops(c) \/ HubError(c) PROVE IndInv'
  <2> DEFINE slot == IF PeerDrops(c) THEN Hang(c) ELSE [conn[c] EXCEPT !.broken = TRUE]
  <2>1. /\ conn' = [conn EXCEPT ![c] = slot]
        /\ failures < MaxFailures /\ failures' = failures + 1
        /\ UNCHANGED <<account, registered, up, deletion, token, linked, reports, unset, restarts>>
    BY <1>10 DEF PeerDrops, HubError, Fail, workerVars
  <2>2. /\ slot \in Slot /\ slot.phase = conn[c].phase /\ slot.owner = conn[c].owner
        /\ slot.token = conn[c].token /\ slot.gen = conn[c].gen
        /\ slot.issued = conn[c].issued
    BY <1>c DEF Slot, Hang
  <2> HIDE DEF slot
  <2>3. /\ conn' \in [Conns -> Slot] /\ conn'[c] = slot
        /\ \A d \in Conns \ {c} : conn'[d] = conn[d]
    BY <2>1, <2>2, SlotStep
  <2>4. TypeOK'
    BY <2>1, <2>3 DEF TypeOK
  <2>. QED BY <1>a, <2>1, <2>2, <2>3, <2>4, SameSlots
<1>11. ASSUME NEW c \in Conns, ReceiveReady(c) PROVE IndInv'
  <2> DEFINE slot == [conn[c] EXCEPT !.ready = FALSE]
  <2>1. /\ conn' = [conn EXCEPT ![c] = slot]
        /\ token' = IF conn[c].issued
                    THEN [token EXCEPT ![conn[c].owner] = "credential"] ELSE token
        /\ UNCHANGED <<account, registered, up, deletion, linked, reports, unset, restarts,
                       failures>>
    BY <1>11 DEF ReceiveReady
  <2>2. /\ slot \in Slot /\ slot.phase = conn[c].phase /\ slot.owner = conn[c].owner
        /\ slot.token = conn[c].token /\ slot.gen = conn[c].gen
        /\ slot.issued = conn[c].issued
    BY <1>c DEF Slot
  <2> HIDE DEF slot
  <2>3. /\ conn' \in [Conns -> Slot] /\ conn'[c] = slot
        /\ \A d \in Conns \ {c} : conn'[d] = conn[d]
    BY <2>1, <2>2, SlotStep
  <2>5. /\ token' \in [Workers -> Tokens]
        /\ \A w \in Workers : token'[w] = "credential" =>
                \/ token[w] = "credential"
                \/ \E d \in Conns : conn[d].owner = w /\ conn[d].issued
    BY <2>1 DEF TypeOK, Tokens
  <2>4. TypeOK'
    BY <2>1, <2>3, <2>5 DEF TypeOK
  <2>. QED BY <1>a, <2>1, <2>2, <2>3, <2>4, <2>5, SameSlots
<1>12. ASSUME Disconnect PROVE IndInv'
  <2>1. /\ deletion' = "done"
        /\ UNCHANGED <<account, registered, up, token, linked, reports, unset, restarts, failures>>
    BY <1>12 DEF Disconnect, workerVars
  <2>2. CASE registered = NoConn
    <3>1. UNCHANGED conn
      BY <1>12, <2>2 DEF Disconnect
    <3>2. TypeOK'
      BY <2>1, <3>1 DEF TypeOK
    <3>. QED BY <1>a, <2>1, <3>1, <3>2, SameSlots DEF TypeOK
  <2>3. CASE registered \in Conns
    <3> DEFINE c == registered
               slot == [conn[c] EXCEPT !.broken = TRUE]
    <3>1. conn' = [conn EXCEPT ![c] = slot]
      BY <1>12, <2>3 DEF Disconnect
    <3>2. /\ slot \in Slot /\ slot.phase = conn[c].phase /\ slot.owner = conn[c].owner
          /\ slot.token = conn[c].token /\ slot.gen = conn[c].gen
          /\ slot.issued = conn[c].issued
      BY <1>c, <2>3 DEF Slot
    <3> HIDE DEF slot
    <3>3. /\ conn' \in [Conns -> Slot] /\ conn'[c] = slot
          /\ \A d \in Conns \ {c} : conn'[d] = conn[d]
      BY <2>3, <3>1, <3>2, SlotStep
    <3>4. TypeOK'
      BY <2>1, <3>3 DEF TypeOK
    <3>. QED BY <1>a, <2>1, <3>2, <3>3, <3>4, SameSlots
  <2>. QED BY <1>c, <2>2, <2>3
<1>13. ASSUME NEW w \in Workers, WorkerRestart(w) PROVE IndInv'
  <2>1. /\ conn' = [c \in Conns |-> IF conn[c].owner = w THEN Hang(c) ELSE conn[c]]
        /\ restarts < MaxRestarts /\ restarts' = restarts + 1
        /\ UNCHANGED <<account, registered, up, deletion, token, linked, unset, failures>>
    BY <1>13 DEF WorkerRestart
  <2>2. \A c \in Conns :
            /\ Hang(c) \in Slot /\ Hang(c).phase = conn[c].phase
            /\ Hang(c).owner = conn[c].owner /\ Hang(c).token = conn[c].token
            /\ Hang(c).gen = conn[c].gen /\ Hang(c).issued = conn[c].issued
    BY <1>c DEF Slot, Hang
  <2>3. /\ conn' \in [Conns -> Slot]
        /\ \A c \in Conns : /\ conn'[c].phase = conn[c].phase
                            /\ conn'[c].owner = conn[c].owner
                            /\ conn'[c].token = conn[c].token
                            /\ conn'[c].gen = conn[c].gen
                            /\ conn'[c].issued = conn[c].issued
    BY <1>c, <2>1, <2>2
  <2>4. reports' \in [Workers -> Seq(Reported)]
    BY <1>13 DEF WorkerRestart, TypeOK, Reported
  <2>5. TypeOK'
    BY <2>1, <2>3, <2>4 DEF TypeOK
  <2>. QED BY <1>a, <2>1, <2>3, <2>5, SameSlots
<1>14. ASSUME NEW w \in Workers, Link(w) PROVE IndInv'
  <2>1. UNCHANGED <<account, conn, registered, up, deletion, token, unset, restarts, failures>>
    BY <1>14 DEF Link, hubVars
  <2>2. reports' \in [Workers -> Seq(Reported)] /\ linked' \in [Workers -> BOOLEAN]
    BY <1>14 DEF Link, TypeOK, Reported
  <2>3. TypeOK'
    BY <2>1, <2>2 DEF TypeOK
  <2>. QED BY <1>a, <2>1, <2>3, SameSlots DEF TypeOK
<1>15. ASSUME NEW c \in Conns, HandleStatus(c) PROVE IndInv'
  <2>1. /\ conn[c].phase = "serving" /\ reports[conn[c].owner] # <<>>
        /\ account' = WithStatus(c, Head(reports[conn[c].owner]))
        /\ UNCHANGED <<conn, registered, up, deletion, token, linked, restarts, unset, failures>>
    BY <1>15 DEF HandleStatus
  <2>2. conn[c].owner \in Workers /\ registered = c
    BY <2>1 DEF OwnerInv, OneActiveWorker, Active
  <2>3. /\ Head(reports[conn[c].owner]) \in Statuses
        /\ reports' \in [Workers -> Seq(Reported)]
    BY <1>15, <2>1, <2>2 DEF HandleStatus, TypeOK, Reported, Statuses
  <2>4. /\ account' \in [exists : BOOLEAN, redeemed : BOOLEAN, expired : BOOLEAN,
                         generation : Nat, status : Statuses]
        /\ account'.redeemed = account.redeemed /\ account'.generation = account.generation
    BY <2>1, <2>3 DEF TypeOK, WithStatus
  <2>5. TypeOK'
    BY <2>1, <2>3, <2>4 DEF TypeOK
  <2>6. OwnerInv' /\ RegisterInv' /\ OneActiveWorker' /\ OneKeyholder'
    BY <2>1 DEF OwnerInv, RegisterInv, OneActiveWorker, OneKeyholder, Keyholders, Active
  <2>7. EnrolmentInv' /\ GenerationInv'
    BY <2>1, <2>4 DEF EnrolmentInv, GenerationInv, Admitted
  <2>8. LiveMeansConnected'
    BY <2>1, <2>2 DEF LiveMeansConnected
  <2>. QED BY <2>5, <2>6, <2>7, <2>8 DEF IndInv
<1>16. ASSUME TokenExpires \/ DeleteAccount \/ DeleteUnconfirmed PROVE IndInv'
  <2>1. /\ deletion' \in {"none", "deleted", "unconfirmed", "done"}
        /\ UNCHANGED <<conn, registered, up, token, linked, reports, restarts, unset>>
    BY <1>16 DEF TokenExpires, DeleteAccount, DeleteUnconfirmed, hubVars, workerVars, TypeOK
  <2>7. failures' \in 0..MaxFailures
    BY <1>16, BoundsAssumption DEF TokenExpires, DeleteAccount, DeleteUnconfirmed, Fail, TypeOK
  <2>2. /\ account' \in [exists : BOOLEAN, redeemed : BOOLEAN, expired : BOOLEAN,
                         generation : Nat, status : Statuses]
        /\ account'.redeemed = account.redeemed /\ account'.generation = account.generation
        /\ account'.exists => account.exists
        /\ account'.status = account.status
    BY <1>16 DEF TokenExpires, DeleteAccount, DeleteUnconfirmed, TypeOK
  <2>3. TypeOK'
    BY <2>1, <2>2, <2>7 DEF TypeOK
  <2>4. OwnerInv' /\ RegisterInv' /\ OneActiveWorker' /\ OneKeyholder'
    BY <2>1 DEF OwnerInv, RegisterInv, OneActiveWorker, OneKeyholder, Keyholders, Active
  <2>5. EnrolmentInv' /\ GenerationInv'
    BY <2>1, <2>2 DEF EnrolmentInv, GenerationInv, Admitted
  <2>6. LiveMeansConnected'
    BY <2>1, <2>2 DEF LiveMeansConnected
  <2>. QED BY <2>3, <2>4, <2>5, <2>6 DEF IndInv
<1>17. ASSUME ApiCrash PROVE IndInv'
  <2>1. /\ conn' = [c \in Conns |-> Free] /\ registered' = NoConn /\ up' = FALSE
        /\ failures < MaxFailures /\ failures' = failures + 1
        /\ deletion' \in {"none", "deleted", "unconfirmed", "done"}
        /\ UNCHANGED <<account, token, linked, reports, restarts, unset>>
    BY <1>17 DEF ApiCrash, Fail, workerVars, TypeOK
  <2>7. conn' \in [Conns -> Slot]
    BY <2>1, FreeType
  <2>8. failures' \in 0..MaxFailures
    BY <2>1, BoundsAssumption DEF TypeOK
  <2>2. TypeOK'
    BY <2>1, <2>7, <2>8 DEF TypeOK
  <2>3. OwnerInv' /\ RegisterInv' /\ OneActiveWorker' /\ OneKeyholder' /\ LiveMeansConnected'
    BY <2>1, FreeType DEF OwnerInv, RegisterInv, OneActiveWorker, OneKeyholder, Keyholders,
                          Active, LiveMeansConnected
  <2>4. EnrolmentInv' /\ GenerationInv'
    BY <2>1, FreeType DEF EnrolmentInv, GenerationInv, Admitted
  <2>. QED BY <2>2, <2>3, <2>4 DEF IndInv
<1>18. ASSUME MarkWorkersOffline PROVE IndInv'
  <2>1. /\ up' = TRUE /\ unset' = FALSE
        /\ UNCHANGED <<conn, registered, deletion, token, linked, reports, restarts, failures>>
    BY <1>18 DEF MarkWorkersOffline, hubVars, workerVars
  <2>2. /\ account' \in [exists : BOOLEAN, redeemed : BOOLEAN, expired : BOOLEAN,
                         generation : Nat, status : Statuses]
        /\ account'.redeemed = account.redeemed /\ account'.generation = account.generation
        /\ account'.status # "live"
    BY <1>18 DEF MarkWorkersOffline, TypeOK, Statuses
  <2>3. TypeOK'
    BY <2>1, <2>2 DEF TypeOK
  <2>4. OwnerInv' /\ RegisterInv' /\ OneActiveWorker' /\ OneKeyholder'
    BY <2>1 DEF OwnerInv, RegisterInv, OneActiveWorker, OneKeyholder, Keyholders, Active
  <2>5. EnrolmentInv' /\ GenerationInv' /\ LiveMeansConnected'
    BY <2>1, <2>2 DEF EnrolmentInv, GenerationInv, Admitted, LiveMeansConnected
  <2>. QED BY <2>3, <2>4, <2>5 DEF IndInv
<1>19. CASE UNCHANGED vars
  <2>1. UNCHANGED <<account, conn, registered, up, deletion, token, linked, reports, unset,
                    restarts, failures>>
    BY <1>19 DEF vars
  <2>2. TypeOK'
    BY <2>1 DEF TypeOK
  <2>. QED BY <1>a, <2>1, <2>2, SameSlots DEF TypeOK
<1>. QED
    BY <1>a, <1>1, <1>2, <1>3, <1>4, <1>5, <1>6, <1>7, <1>8, <1>9, <1>10,
       <1>11, <1>12, <1>13, <1>14, <1>15, <1>16, <1>17, <1>18, <1>19 DEF Next, HubStep

\* The inductive invariant holds in every reachable state.
THEOREM IndInvHolds == Spec => []IndInv
<1>1. Init => IndInv
  <2>1. SUFFICES ASSUME Init PROVE IndInv
    OBVIOUS
  <2>2. TypeOK
    <3>1. account \in [exists : BOOLEAN, redeemed : BOOLEAN, expired : BOOLEAN,
                       generation : Nat, status : Statuses]
      BY <2>1 DEF Init, Statuses
    <3>2. conn \in [Conns -> Slot]
      BY <2>1, FreeType DEF Init
    <3>3. token \in [Workers -> Tokens] /\ linked \in [Workers -> BOOLEAN]
      BY <2>1 DEF Init, Tokens
    <3>4. <<"unlinked">> \in Seq(Reported)
      BY DEF Reported
    <3>5. reports \in [Workers -> Seq(Reported)]
      BY <2>1, <3>4 DEF Init
    <3>6. restarts \in 0..MaxRestarts /\ failures \in 0..MaxFailures
      BY <2>1, BoundsAssumption DEF Init
    <3>. QED BY <2>1, <3>1, <3>2, <3>3, <3>5, <3>6 DEF Init, TypeOK
  <2>3. /\ OwnerInv /\ RegisterInv /\ EnrolmentInv /\ GenerationInv /\ OneActiveWorker
        /\ OneKeyholder /\ LiveMeansConnected
    BY <2>1, FreeType DEF Init, OwnerInv, RegisterInv, EnrolmentInv, GenerationInv,
                          OneActiveWorker, OneKeyholder, Keyholders, LiveMeansConnected,
                          Active, Admitted
  <2>. QED BY <2>2, <2>3 DEF IndInv
<1>. QED BY <1>1, IndStep, PTL DEF Spec

\* Account row, connections, register and worker state keep their types.
THEOREM TypeCorrect == Spec => []TypeOK
<1>1. IndInv => TypeOK
    BY DEF IndInv
<1>. QED BY <1>1, IndInvHolds, PTL

\* The hub serves no connection but the registered one, for any number of
\* workers and connections of an account.
THEOREM OneActive == Spec => []OneActiveWorker
<1>1. IndInv => OneActiveWorker
    BY DEF IndInv
<1>. QED BY <1>1, IndInvHolds, PTL

\* The enrolment token gives its credential to one worker, however many present
\* it and however often.
THEOREM SingleUse == Spec => []OneKeyholder
<1>1. IndInv => OneKeyholder
    BY DEF IndInv
<1>. QED BY <1>1, IndInvHolds, PTL

\* The status updates of the registered connection meet the generation clause of
\* SetWorkerStatus and SetWorkerIdentity.
THEOREM CurrentGeneration == Spec => []RegisteredIsCurrent
<1>1. IndInv => RegisteredIsCurrent
    BY DEF IndInv, TypeOK, RegisterInv, GenerationInv, Active, Admitted, RegisteredIsCurrent
<1>. QED BY <1>1, IndInvHolds, PTL

\* An account is live only while a connection is registered, about to write its
\* offline status, or could not write it.
THEOREM LiveIsConnected == Spec => []LiveMeansConnected
<1>1. IndInv => LiveMeansConnected
    BY DEF IndInv
<1>. QED BY <1>1, IndInvHolds, PTL
=============================================================================
