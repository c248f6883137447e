-------------------------- MODULE AuthServiceProofs --------------------------
(***************************************************************************)
(* Proofs about AuthService for every set of logins and requests and every *)
(* number of tokens.                                                       *)
(***************************************************************************)
EXTENDS AuthService, TLAPS

\* A transaction that has read a row FOR UPDATE holds its lock.
LockInv ==
    \A r \in Requests :
        /\ request[r].op = "verify" => loginLock[request[r].login] = r
        /\ request[r].op = "refresh" => tokenLock[request[r].token] = r

\* What a transaction has read is still so: nobody else writes a locked row,
\* except for the clock.
ReadInv ==
    \A r \in Requests :
        /\ request[r].op = "verify" /\ request[r].accepted
              => /\ ~login[request[r].login].consumed
                 /\ login[request[r].login].attempts < AttemptLimit
        /\ request[r].op = "refresh" /\ request[r].accepted
              => token[request[r].token].state = "valid"

\* The attempts in a login's row and the judged codes agree, and a login that
\* has been verified is consumed.
CountInv ==
    \A l \in Logins :
        /\ guesses[l] = login[l].attempts + sessions[l]
        /\ sessions[l] <= 1
        /\ sessions[l] > 0 => login[l].consumed /\ login[l].attempts < AttemptLimit

\* Every token goes back to a login that has been verified.
TokenInv ==
    \A t \in Tokens :
        token[t].state # "none" => token[t].login \in Logins /\ sessions[token[t].login] > 0

IndInv ==
    /\ TypeOK
    /\ LockInv
    /\ ReadInv
    /\ CountInv
    /\ TokenInv
    /\ OneValidToken

-----------------------------------------------------------------------------
\* The types a transaction's record can have, one field at a time.
LEMMA RequestTypes ==
    ASSUME TypeOK, NEW r \in Requests
    PROVE  /\ request[r].op \in {"idle", "verify", "refresh"}
           /\ request[r].op = "idle" => request[r] = Idle
           /\ request[r].op = "verify" =>
                /\ request[r] \in [op : {"verify"}, login : Logins, accepted : BOOLEAN,
                                   right : BOOLEAN]
                /\ request[r].login \in Logins
                /\ request[r].accepted \in BOOLEAN /\ request[r].right \in BOOLEAN
           /\ request[r].op = "refresh" =>
                /\ request[r] \in [op : {"refresh"}, token : Tokens, accepted : BOOLEAN]
                /\ request[r].token \in Tokens
                /\ request[r].accepted \in BOOLEAN
<1>1. \/ request[r] = Idle
      \/ request[r] \in [op : {"verify"}, login : Logins, accepted : BOOLEAN, right : BOOLEAN]
      \/ request[r] \in [op : {"refresh"}, token : Tokens, accepted : BOOLEAN]
    BY DEF TypeOK
<1>2. CASE request[r] = Idle
    BY <1>2 DEF Idle
<1>3. CASE request[r] \in [op : {"verify"}, login : Logins, accepted : BOOLEAN, right : BOOLEAN]
    BY <1>3
<1>4. CASE request[r] \in [op : {"refresh"}, token : Tokens, accepted : BOOLEAN]
    BY <1>4
<1>. QED BY <1>1, <1>2, <1>3, <1>4

\* Every step keeps the inductive invariant.
LEMMA IndStep == IndInv /\ [Next]_vars => IndInv'
<1>a. SUFFICES ASSUME IndInv, [Next]_vars PROVE IndInv'
    OBVIOUS
<1>b. TypeOK /\ LockInv /\ ReadInv /\ CountInv /\ TokenInv /\ OneValidToken
    BY <1>a DEF IndInv
<1> USE <1>b, NoneAssumption, MaxTokensAssumption
<1> USE DEF AttemptLimit
<1>c. \A k \in Logins : /\ login[k].attempts \in 0..5
                         /\ guesses[k] \in Nat /\ sessions[k] \in Nat
    BY DEF TypeOK, LoginRow
<1>1. ASSUME NEW l \in Logins, Start(l) \/ LoginExpires(l) PROVE IndInv'
  <2>1. /\ login' \in [Logins -> LoginRow]
        /\ \A k \in Logins : /\ login'[k].attempts = login[k].attempts
                             /\ login'[k].consumed = login[k].consumed
        /\ UNCHANGED <<token, loginLock, tokenLock, request, guesses, sessions>>
    <3>1. login \in [Logins -> LoginRow] /\ login[l] \in LoginRow
      BY DEF TypeOK
    <3> DEFINE row == IF Start(l) THEN [login[l] EXCEPT !.stored = TRUE]
                      ELSE [login[l] EXCEPT !.expired = TRUE]
    <3>2. /\ row \in LoginRow
          /\ row.attempts = login[l].attempts /\ row.consumed = login[l].consumed
      BY <3>1 DEF LoginRow
    <3>4. login' = [login EXCEPT ![l] = row]
      BY <1>1 DEF Start, LoginExpires
    <3> HIDE DEF row
    <3>3. UNCHANGED <<token, loginLock, tokenLock, request, guesses, sessions>>
      BY <1>1 DEF Start, LoginExpires
    <3>. QED BY <3>1, <3>2, <3>3, <3>4
  <2>2. TypeOK'
    BY <2>1 DEF TypeOK
  <2>3. LockInv' /\ CountInv' /\ TokenInv' /\ OneValidToken'
    BY <2>1 DEF LockInv, CountInv, TokenInv, OneValidToken
  <2>4. ReadInv'
    BY <2>1, RequestTypes DEF ReadInv
  <2>. QED BY <2>2, <2>3, <2>4 DEF IndInv
<1>2. ASSUME NEW t \in Tokens, TokenExpires(t) PROVE IndInv'
  <2>1. /\ token' \in [Tokens -> TokenRow]
        /\ \A u \in Tokens : /\ token'[u].state = token[u].state
                             /\ token'[u].login = token[u].login
        /\ UNCHANGED <<login, loginLock, tokenLock, request, guesses, sessions>>
    <3>1. token \in [Tokens -> TokenRow] /\ token[t] \in TokenRow
      BY DEF TypeOK
    <3> DEFINE row == [token[t] EXCEPT !.expired = TRUE]
    <3>2. row \in TokenRow /\ row.state = token[t].state /\ row.login = token[t].login
      BY <3>1 DEF TokenRow
    <3>4. token' = [token EXCEPT ![t] = row]
      BY <1>2 DEF TokenExpires
    <3> HIDE DEF row
    <3>3. UNCHANGED <<login, loginLock, tokenLock, request, guesses, sessions>>
      BY <1>2 DEF TokenExpires
    <3>. QED BY <3>1, <3>2, <3>3, <3>4
  <2>2. TypeOK'
    BY <2>1 DEF TypeOK
  <2>3. LockInv' /\ CountInv' /\ TokenInv' /\ OneValidToken'
    BY <2>1 DEF LockInv, CountInv, TokenInv, OneValidToken
  <2>4. ReadInv'
    BY <2>1, RequestTypes DEF ReadInv
  <2>. QED BY <2>2, <2>3, <2>4 DEF IndInv
<1>3. ASSUME NEW r \in Requests, NEW l \in Logins, NEW right \in BOOLEAN,
             VerifyRead(r, l, right)
      PROVE  IndInv'
  <2> DEFINE q == [op |-> "verify", login |-> l, right |-> right, accepted |-> LoginUsable(l)]
  <2>1. /\ request' = [request EXCEPT ![r] = q]
        /\ loginLock[l] = None /\ loginLock' = [loginLock EXCEPT ![l] = r]
        /\ UNCHANGED <<login, token, tokenLock, guesses, sessions>>
    BY <1>3 DEF VerifyRead, ReadLogin
  <2>2. q \in [op : {"verify"}, login : Logins, accepted : BOOLEAN, right : BOOLEAN]
    BY DEF LoginUsable
  <2>3. TypeOK'
    BY <2>1, <2>2 DEF TypeOK
  <2>4. /\ request'[r].op = "verify" /\ request'[r].login = l
        /\ request'[r].accepted => LoginUsable(l)
        /\ \A s \in Requests \ {r} : request'[s] = request[s]
    BY <2>1 DEF TypeOK
  <2>5. LockInv'
    BY <2>1, <2>4, RequestTypes DEF LockInv, TypeOK
  <2>6. ReadInv'
    BY <2>1, <2>4, RequestTypes DEF ReadInv, LoginUsable
  <2>7. CountInv' /\ TokenInv' /\ OneValidToken'
    BY <2>1 DEF CountInv, TokenInv, OneValidToken
  <2>. QED BY <2>3, <2>5, <2>6, <2>7 DEF IndInv
<1>4. ASSUME NEW r \in Requests, NEW t \in Tokens, RefreshRead(r, t) PROVE IndInv'
  <2> DEFINE q == [op |-> "refresh", token |-> t,
                   accepted |-> token[t].state = "valid" /\ ~token[t].expired]
  <2>1. /\ request' = [request EXCEPT ![r] = q]
        /\ tokenLock[t] = None /\ tokenLock' = [tokenLock EXCEPT ![t] = r]
        /\ UNCHANGED <<login, token, loginLock, guesses, sessions>>
    BY <1>4 DEF RefreshRead, ReadToken
  <2>2. q \in [op : {"refresh"}, token : Tokens, accepted : BOOLEAN]
    OBVIOUS
  <2>3. TypeOK'
    BY <2>1, <2>2 DEF TypeOK
  <2>4. /\ request'[r].op = "refresh" /\ request'[r].token = t
        /\ request'[r].accepted => token[t].state = "valid"
        /\ \A s \in Requests \ {r} : request'[s] = request[s]
    BY <2>1 DEF TypeOK
  <2>5. LockInv'
    BY <2>1, <2>4, RequestTypes DEF LockInv, TypeOK
  <2>6. ReadInv'
    BY <2>1, <2>4, RequestTypes DEF ReadInv
  <2>7. CountInv' /\ TokenInv' /\ OneValidToken'
    BY <2>1 DEF CountInv, TokenInv, OneValidToken
  <2>. QED BY <2>3, <2>5, <2>6, <2>7 DEF IndInv
<1>5. ASSUME NEW r \in Requests, request[r].op = "verify", EndVerify(r)
      PROVE  /\ loginLock' \in [Logins -> Requests \cup {None}]
             /\ request'[r] = Idle
             /\ request' \in [Requests -> {Idle}
                                 \cup [op : {"verify"}, login : Logins, accepted : BOOLEAN,
                                       right : BOOLEAN]
                                 \cup [op : {"refresh"}, token : Tokens, accepted : BOOLEAN]]
             /\ \A s \in Requests \ {r} :
                   /\ request'[s] = request[s]
                   /\ request[s].op = "verify" =>
                        /\ request[s].login # request[r].login
                        /\ loginLock'[request[s].login] = s
    BY <1>5, RequestTypes DEF EndVerify, TypeOK, LockInv
<1>6. ASSUME NEW r \in Requests, request[r].op = "refresh", EndRefresh(r)
      PROVE  /\ tokenLock' \in [Tokens -> Requests \cup {None}]
             /\ request'[r] = Idle
             /\ request' \in [Requests -> {Idle}
                                 \cup [op : {"verify"}, login : Logins, accepted : BOOLEAN,
                                       right : BOOLEAN]
                                 \cup [op : {"refresh"}, token : Tokens, accepted : BOOLEAN]]
             /\ \A s \in Requests \ {r} :
                   /\ request'[s] = request[s]
                   /\ request[s].op = "refresh" =>
                        /\ request[s].token # request[r].token
                        /\ tokenLock'[request[s].token] = s
    BY <1>6, RequestTypes DEF EndRefresh, TypeOK, LockInv
<1>7. ASSUME NEW r \in Requests, VerifyRefused(r) \/ VerifyAborts(r) PROVE IndInv'
  <2>1. /\ request[r].op = "verify" /\ EndVerify(r)
        /\ UNCHANGED <<login, token, tokenLock, guesses, sessions>>
    BY <1>7 DEF VerifyRefused, VerifyAborts
  <2>2. TypeOK'
    BY <1>5, <2>1 DEF TypeOK
  <2>3. LockInv' /\ ReadInv'
    BY <1>5, <2>1, RequestTypes DEF LockInv, ReadInv, Idle
  <2>4. CountInv' /\ TokenInv' /\ OneValidToken'
    BY <2>1 DEF CountInv, TokenInv, OneValidToken
  <2>. QED BY <2>2, <2>3, <2>4 DEF IndInv
<1>8. ASSUME NEW r \in Requests, RefreshRefused(r) \/ RefreshAborts(r) PROVE IndInv'
  <2>1. /\ request[r].op = "refresh" /\ EndRefresh(r)
        /\ UNCHANGED <<login, token, loginLock, guesses, sessions>>
    BY <1>8 DEF RefreshRefused, RefreshAborts
  <2>2. TypeOK'
    BY <1>6, <2>1 DEF TypeOK
  <2>3. LockInv' /\ ReadInv'
    BY <1>6, <2>1, RequestTypes DEF LockInv, ReadInv, Idle
  <2>4. CountInv' /\ TokenInv' /\ OneValidToken'
    BY <2>1 DEF CountInv, TokenInv, OneValidToken
  <2>. QED BY <2>2, <2>3, <2>4 DEF IndInv
<1>9. ASSUME NEW r \in Requests, VerifyWrong(r) PROVE IndInv'
  <2> DEFINE l == request[r].login
  <2>1. /\ request[r].op = "verify" /\ request[r].accepted /\ EndVerify(r)
        /\ UNCHANGED <<token, tokenLock, sessions>>
        /\ guesses' = [guesses EXCEPT ![l] = guesses[l] + 1]
    BY <1>9 DEF VerifyWrong
  <2>2. l \in Logins /\ ~login[l].consumed /\ login[l].attempts < 5
    BY <2>1, RequestTypes DEF ReadInv
  <2> DEFINE n == login[l].attempts + 1
             b == login[l].consumed \/ n >= 5
             row == [login[l] EXCEPT !.attempts = n, !.consumed = b]
  <2>3. login' = [login EXCEPT ![l] = row]
    BY <1>9, <2>2 DEF VerifyWrong, TypeOK
  <2>b. row \in LoginRow /\ row.attempts = login[l].attempts + 1
    <3>1. login[l] \in LoginRow /\ n \in 0..5 /\ b \in BOOLEAN
      BY <1>c, <2>2 DEF TypeOK
    <3> HIDE DEF n, b
    <3>2. row \in LoginRow /\ row.attempts = n
      BY <3>1 DEF LoginRow
    <3>. QED BY <3>2 DEF n
  <2> HIDE DEF row, l
  <2>4. /\ login' \in [Logins -> LoginRow]
        /\ login'[l].attempts = login[l].attempts + 1
        /\ \A k \in Logins \ {l} : login'[k] = login[k]
    BY <2>2, <2>3, <2>b DEF TypeOK
  <2>5. TypeOK'
    <3>1. guesses' \in [Logins -> Nat]
      BY <1>c, <2>1, <2>2 DEF TypeOK
    <3>. QED BY <1>5, <2>1, <2>4, <3>1 DEF TypeOK
  <2>6. LockInv' /\ ReadInv'
    BY <1>5, <2>1, <2>2, <2>4, RequestTypes DEF LockInv, ReadInv, Idle, l
  <2>7. CountInv'
    BY <1>c, <2>1, <2>2, <2>4 DEF CountInv, TypeOK
  <2>8. TokenInv' /\ OneValidToken'
    BY <2>1 DEF TokenInv, OneValidToken
  <2>. QED BY <2>5, <2>6, <2>7, <2>8 DEF IndInv
<1>10. ASSUME NEW r \in Requests, VerifyRight(r) PROVE IndInv'
  <2> DEFINE l == request[r].login
  <2>1. /\ request[r].op = "verify" /\ request[r].accepted /\ EndVerify(r)
        /\ UNCHANGED tokenLock
        /\ guesses' = [guesses EXCEPT ![l] = guesses[l] + 1]
        /\ sessions' = [sessions EXCEPT ![l] = sessions[l] + 1]
        /\ login' = [login EXCEPT ![l].consumed = TRUE]
    BY <1>10 DEF VerifyRight
  <2>2. l \in Logins /\ ~login[l].consumed /\ login[l].attempts < 5
    BY <2>1, RequestTypes DEF ReadInv
  <2>3. PICK t \in Unissued : token' = [token EXCEPT ![t].state = "valid", ![t].login = l]
    BY <1>10 DEF VerifyRight
  <2>4. /\ token' \in [Tokens -> TokenRow] /\ t \in Tokens /\ token[t].state = "none"
        /\ token'[t].state = "valid" /\ token'[t].login = l
        /\ \A u \in Tokens \ {t} : token'[u] = token[u]
    <3>1. t \in Tokens /\ token[t].state = "none" /\ token[t] \in TokenRow
      BY DEF TypeOK, Unissued
    <3> DEFINE row == [token[t] EXCEPT !.state = "valid", !.login = l]
    <3>2. row \in TokenRow /\ row.state = "valid" /\ row.login = l
      BY <2>2, <3>1 DEF TokenRow
    <3>3. token' = [token EXCEPT ![t] = row]
      BY <2>3, <3>1 DEF TypeOK
    <3> HIDE DEF row
    <3>. QED BY <3>1, <3>2, <3>3 DEF TypeOK
  <2>5. /\ login' \in [Logins -> LoginRow]
        /\ login'[l].attempts = login[l].attempts /\ login'[l].consumed
        /\ \A k \in Logins \ {l} : login'[k] = login[k]
    <3>1. login[l] \in LoginRow
      BY <2>2 DEF TypeOK
    <3> DEFINE row == [login[l] EXCEPT !.consumed = TRUE]
    <3>2. row \in LoginRow /\ row.attempts = login[l].attempts /\ row.consumed
      BY <3>1 DEF LoginRow
    <3>3. login' = [login EXCEPT ![l] = row]
      BY <2>1
    <3> HIDE DEF row
    <3>. QED BY <2>2, <3>2, <3>3 DEF TypeOK
  <2> HIDE DEF l
  <2>6. sessions[l] = 0 /\ sessions'[l] = 1 /\ \A k \in Logins \ {l} : sessions'[k] = sessions[k]
    BY <2>1, <2>2 DEF CountInv, TypeOK
  <2>7. TypeOK'
    BY <1>5, <2>1, <2>2, <2>4, <2>5 DEF TypeOK
  <2>8. LockInv'
    BY <1>5, <2>1, RequestTypes DEF LockInv, Idle
  <2>9. ReadInv'
    BY <1>5, <2>1, <2>4, <2>5, RequestTypes DEF ReadInv, Idle, l
  <2>10. CountInv'
    BY <1>c, <2>1, <2>2, <2>5, <2>6 DEF CountInv, TypeOK
  <2>11. TokenInv'
    BY <2>2, <2>4, <2>6 DEF TokenInv
  <2>12. OneValidToken'
    BY <2>2, <2>4, <2>6 DEF OneValidToken, TokenInv
  <2>. QED BY <2>7, <2>8, <2>9, <2>10, <2>11, <2>12 DEF IndInv
<1>11. ASSUME NEW r \in Requests, RefreshRotates(r) PROVE IndInv'
  <2> DEFINE o == request[r].token
  <2>1. /\ request[r].op = "refresh" /\ request[r].accepted /\ EndRefresh(r)
        /\ UNCHANGED <<login, loginLock, guesses, sessions>>
    BY <1>11 DEF RefreshRotates
  <2>2. o \in Tokens /\ token[o].state = "valid"
    BY <2>1, RequestTypes DEF ReadInv
  <2>3. PICK t \in Unissued : token' = [token EXCEPT ![t].state = "valid",
                                                     ![t].login = token[o].login,
                                                     ![o].state = "revoked"]
    BY <1>11 DEF RefreshRotates
  <2>4. t \in Tokens /\ token[t].state = "none" /\ t # o
    BY <2>2, <2>3 DEF Unissued
  <2>5. /\ token' \in [Tokens -> TokenRow]
        /\ token'[t].state = "valid" /\ token'[t].login = token[o].login
        /\ token'[o].state = "revoked" /\ token'[o].login = token[o].login
        /\ \A u \in Tokens \ {t, o} : token'[u] = token[u]
    <3>1. token[t] \in TokenRow /\ token[o] \in TokenRow /\ token[o].login \in Logins
      BY <2>2, <2>4 DEF TypeOK, TokenInv
    <3> DEFINE new == [token[t] EXCEPT !.state = "valid", !.login = token[o].login]
               old == [token[o] EXCEPT !.state = "revoked"]
    <3>2. new \in TokenRow /\ new.state = "valid" /\ new.login = token[o].login
      BY <3>1 DEF TokenRow
    <3>3. old \in TokenRow /\ old.state = "revoked" /\ old.login = token[o].login
      BY <3>1 DEF TokenRow
    <3>4. token' = [token EXCEPT ![t] = new, ![o] = old]
      BY <2>2, <2>3, <2>4 DEF TypeOK
    <3> HIDE DEF new, old
    <3>. QED BY <2>2, <2>4, <3>2, <3>3, <3>4 DEF TypeOK
  <2>6. TypeOK'
    BY <1>6, <2>1, <2>5 DEF TypeOK
  <2>7. LockInv'
    BY <1>6, <2>1, RequestTypes DEF LockInv, Idle
  <2>8. ReadInv'
    BY <1>6, <2>1, <2>4, <2>5, RequestTypes DEF ReadInv, Idle
  <2>9. CountInv'
    BY <2>1 DEF CountInv
  <2>10. TokenInv' /\ OneValidToken'
    BY <2>1, <2>2, <2>4, <2>5 DEF TokenInv, OneValidToken
  <2>. QED BY <2>6, <2>7, <2>8, <2>9, <2>10 DEF IndInv
<1>12. CASE UNCHANGED vars
  <2>1. UNCHANGED <<login, token, loginLock, tokenLock, request, guesses, sessions>>
    BY <1>12 DEF vars
  <2>. QED
    BY <1>a, <2>1 DEF IndInv, TypeOK, LockInv, ReadInv, CountInv, TokenInv, OneValidToken
<1>. QED
    BY <1>a, <1>1, <1>2, <1>3, <1>4, <1>7, <1>8, <1>9, <1>10, <1>11, <1>12 DEF Next

\* The inductive invariant holds in every reachable state.
THEOREM IndInvHolds == Spec => []IndInv
<1>1. Init => IndInv
    BY NoneAssumption, MaxTokensAssumption
       DEF Init, IndInv, TypeOK, LockInv, ReadInv, CountInv, TokenInv, OneValidToken, Idle,
           LoginRow, TokenRow, AttemptLimit, Tokens
<1>. QED BY <1>1, IndStep, PTL DEF Spec

\* Every row, lock and transaction of auth.Service keeps its type; in particular
\* the attempts of a login never pass the limit of five.
THEOREM TypeCorrect == Spec => []TypeOK
<1>1. IndInv => TypeOK
    BY DEF IndInv
<1>. QED BY <1>1, IndInvHolds, PTL

\* However many Verify requests with the right code overlap, a login is good
\* for one session.
THEOREM OneSession == Spec => []OneSessionPerLogin
<1>1. IndInv => OneSessionPerLogin
    BY DEF IndInv, CountInv, OneSessionPerLogin
<1>. QED BY <1>1, IndInvHolds, PTL

\* At most five codes are judged for a login, and none after the right one.
THEOREM BoundedGuesses == Spec => []GuessesAreBounded
<1>1. IndInv => GuessesAreBounded
    BY DEF IndInv, TypeOK, LoginRow, AttemptLimit, CountInv, GuessesAreBounded
<1>. QED BY <1>1, IndInvHolds, PTL

\* Of the tokens that go back to one login at most one is valid, however Refresh
\* requests for the same token overlap.
THEOREM OneSuccessor == Spec => []OneValidToken
<1>1. IndInv => OneValidToken
    BY DEF IndInv
<1>. QED BY <1>1, IndInvHolds, PTL
=============================================================================
