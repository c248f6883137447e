----------------------------- MODULE AuthService -----------------------------
(***************************************************************************)
(* Passwordless login and rotating refresh tokens (auth.Service).          *)
(*                                                                         *)
(* Verify and Refresh are transactions that read a row FOR UPDATE, decide  *)
(* on what they read and write.  The read, which takes the row's lock, and *)
(* the commit are separate steps, so that requests interleave as the       *)
(* database lets them.  Access tokens are stateless and left out.          *)
(***************************************************************************)
EXTENDS Naturals, FiniteSets

CONSTANTS Logins,    \* login ids
          Requests,  \* concurrent Verify and Refresh requests
          MaxTokens, \* bound on refresh tokens issued
          None       \* no request, no login

ASSUME NoneAssumption == None \notin Requests /\ None \notin Logins
ASSUME MaxTokensAssumption == MaxTokens \in Nat

VARIABLES
    login,     \* rows of auth_logins
    token,     \* rows of refresh_tokens
    loginLock, \* the transaction that holds a login's row
    tokenLock, \* the transaction that holds a token's row
    request,   \* the transactions
    guesses,   \* how many codes a committed Verify has judged, per login
    sessions   \* how many times a login was verified

vars == <<login, token, loginLock, tokenLock, request, guesses, sessions>>

AttemptLimit == 5

Tokens == 1..MaxTokens

LoginRow == [stored : BOOLEAN, attempts : 0..AttemptLimit, consumed : BOOLEAN,
             expired : BOOLEAN]

\* A token's login is the one its chain of rotations began with.
TokenRow == [state : {"none", "valid", "revoked"}, expired : BOOLEAN,
             login : Logins \cup {None}]

\* What a transaction has read: the row's id, whether its checks let the
\* request through, and the attempts it counted.
Idle == [op |-> "idle"]

TypeOK ==
    /\ login \in [Logins -> LoginRow]
    /\ token \in [Tokens -> TokenRow]
    /\ loginLock \in [Logins -> Requests \cup {None}]
    /\ tokenLock \in [Tokens -> Requests \cup {None}]
    /\ request \in [Requests -> {Idle}
                       \cup [op : {"verify"}, login : Logins, accepted : BOOLEAN,
                             right : BOOLEAN]
                       \cup [op : {"refresh"}, token : Tokens, accepted : BOOLEAN]]
    /\ guesses \in [Logins -> Nat]
    /\ sessions \in [Logins -> Nat]

Init ==
    /\ login = [l \in Logins |-> [stored |-> FALSE, attempts |-> 0, consumed |-> FALSE,
                                  expired |-> FALSE]]
    /\ token = [t \in Tokens |-> [state |-> "none", expired |-> FALSE, login |-> None]]
    /\ loginLock = [l \in Logins |-> None]
    /\ tokenLock = [t \in Tokens |-> None]
    /\ request = [r \in Requests |-> Idle]
    /\ guesses = [l \in Logins |-> 0]
    /\ sessions = [l \in Logins |-> 0]

Unissued == {t \in Tokens : token[t].state = "none"}

-----------------------------------------------------------------------------
\* Start: the row is stored; whether the code can be sent makes no difference
\* to it.
Start(l) ==
    /\ ~login[l].stored
    /\ login' = [login EXCEPT ![l].stored = TRUE]
    /\ UNCHANGED <<token, loginLock, tokenLock, request, guesses, sessions>>

LoginUsable(l) ==
    ~login[l].consumed /\ login[l].attempts < AttemptLimit /\ ~login[l].expired

ReadLogin(r, l, right) ==
    request' = [request EXCEPT ![r] = [op |-> "verify", login |-> l, right |-> right,
                                       accepted |-> LoginUsable(l)]]

\* Mutation: the row is read without FOR UPDATE.
VerifyRead_Unlocked(r, l, right) ==
    /\ request[r] = Idle
    /\ login[l].stored
    /\ ReadLogin(r, l, right)
    /\ UNCHANGED <<login, token, loginLock, tokenLock, guesses, sessions>>

\* Verify reads the login FOR UPDATE and waits for who holds it.
VerifyRead(r, l, right) ==
    /\ request[r] = Idle
    /\ login[l].stored
    /\ loginLock[l] = None
    /\ loginLock' = [loginLock EXCEPT ![l] = r]
    /\ ReadLogin(r, l, right)
    /\ UNCHANGED <<login, token, tokenLock, guesses, sessions>>

\* The end of a Verify transaction.
EndVerify(r) ==
    /\ loginLock' = [loginLock EXCEPT ![request[r].login] = None]
    /\ request' = [request EXCEPT ![r] = Idle]

\* ErrInvalidLogin before the code is looked at.
VerifyRefused(r) ==
    /\ request[r].op = "verify"
    /\ ~request[r].accepted
    /\ EndVerify(r)
    /\ UNCHANGED <<login, token, tokenLock, guesses, sessions>>

\* Mutation: a wrong code is not counted.
VerifyWrong_NotCounted(r) ==
    /\ request[r].op = "verify"
    /\ request[r].accepted
    /\ ~request[r].right
    /\ guesses' = [guesses EXCEPT ![request[r].login] = guesses[request[r].login] + 1]
    /\ EndVerify(r)
    /\ UNCHANGED <<login, token, tokenLock, sessions>>

\* A wrong code is counted; the last one consumes the login.
VerifyWrong(r) ==
    /\ request[r].op = "verify"
    /\ request[r].accepted
    /\ ~request[r].right
    /\ LET l == request[r].login
       IN  /\ login' = [login EXCEPT
                          ![l].attempts = login[l].attempts + 1,
                          ![l].consumed = login[l].consumed
                                          \/ login[l].attempts + 1 >= AttemptLimit]
           /\ guesses' = [guesses EXCEPT ![l] = guesses[l] + 1]
    /\ EndVerify(r)
    /\ UNCHANGED <<token, tokenLock, sessions>>

\* The right code: the login is consumed and a token pair is issued.
VerifyRight(r) ==
    /\ request[r].op = "verify"
    /\ request[r].accepted
    /\ request[r].right
    /\ LET l == request[r].login
       IN  /\ login' = [login EXCEPT ![l].consumed = TRUE]
           /\ \E t \in Unissued :
                 token' = [token EXCEPT ![t].state = "valid", ![t].login = l]
           /\ guesses' = [guesses EXCEPT ![l] = guesses[l] + 1]
           /\ sessions' = [sessions EXCEPT ![l] = sessions[l] + 1]
    /\ EndVerify(r)
    /\ UNCHANGED tokenLock

\* A statement or the commit fails, or the API stops: the transaction rolls
\* back.
VerifyAborts(r) ==
    /\ request[r].op = "verify"
    /\ EndVerify(r)
    /\ UNCHANGED <<login, token, tokenLock, guesses, sessions>>

-----------------------------------------------------------------------------
ReadToken(r, t) ==
    request' = [request EXCEPT ![r] = [op |-> "refresh", token |-> t,
                  accepted |-> token[t].state = "valid" /\ ~token[t].expired]]

\* Mutation: the row is read without FOR UPDATE.
RefreshRead_Unlocked(r, t) ==
    /\ request[r] = Idle
    /\ token[t].state # "none"
    /\ ReadToken(r, t)
    /\ UNCHANGED <<login, token, loginLock, tokenLock, guesses, sessions>>

\* Refresh reads the token FOR UPDATE.
RefreshRead(r, t) ==
    /\ request[r] = Idle
    /\ token[t].state # "none"
    /\ tokenLock[t] = None
    /\ tokenLock' = [tokenLock EXCEPT ![t] = r]
    /\ ReadToken(r, t)
    /\ UNCHANGED <<login, token, loginLock, guesses, sessions>>

EndRefresh(r) ==
    /\ tokenLock' = [tokenLock EXCEPT ![request[r].token] = None]
    /\ request' = [request EXCEPT ![r] = Idle]

\* ErrInvalidRefresh
RefreshRefused(r) ==
    /\ request[r].op = "refresh"
    /\ ~request[r].accepted
    /\ EndRefresh(r)
    /\ UNCHANGED <<login, token, loginLock, guesses, sessions>>

\* The replacement is issued and the token revoked in one transaction.  The
\* answer may never arrive: the client then has no valid token.
RefreshRotates(r) ==
    /\ request[r].op = "refresh"
    /\ request[r].accepted
    /\ \E t \in Unissued :
          token' = [token EXCEPT ![t].state = "valid",
                                 ![t].login = token[request[r].token].login,
                                 ![request[r].token].state = "revoked"]
    /\ EndRefresh(r)
    /\ UNCHANGED <<login, loginLock, guesses, sessions>>

RefreshAborts(r) ==
    /\ request[r].op = "refresh"
    /\ EndRefresh(r)
    /\ UNCHANGED <<login, token, loginLock, guesses, sessions>>

-----------------------------------------------------------------------------
LoginExpires(l) ==
    /\ login[l].stored
    /\ ~login[l].expired
    /\ login' = [login EXCEPT ![l].expired = TRUE]
    /\ UNCHANGED <<token, loginLock, tokenLock, request, guesses, sessions>>

TokenExpires(t) ==
    /\ token[t].state # "none"
    /\ ~token[t].expired
    /\ token' = [token EXCEPT ![t].expired = TRUE]
    /\ UNCHANGED <<login, loginLock, tokenLock, request, guesses, sessions>>

Next ==
    \/ \E l \in Logins : Start(l) \/ LoginExpires(l)
    \/ \E t \in Tokens : TokenExpires(t)
    \/ \E r \in Requests :
          \/ \E l \in Logins, right \in BOOLEAN : VerifyRead(r, l, right)
          \/ VerifyRefused(r)
          \/ VerifyWrong(r)
          \/ VerifyRight(r)
          \/ VerifyAborts(r)
          \/ \E t \in Tokens : RefreshRead(r, t)
          \/ RefreshRefused(r)
          \/ RefreshRotates(r)
          \/ RefreshAborts(r)

Spec == Init /\ [][Next]_vars

-----------------------------------------------------------------------------
(* Properties                                                              *)

\* A login is good for one session: concurrent Verify requests with the right
\* code yield one token pair.
OneSessionPerLogin == \A l \in Logins : sessions[l] <= 1

\* At most five codes are judged right or wrong for a login, however the
\* requests overlap, and none after the right one.  (A request whose
\* transaction fails answers with an error that says nothing of its code.)
GuessesAreBounded ==
    \A l \in Logins :
        /\ guesses[l] <= AttemptLimit
        /\ guesses[l] = login[l].attempts + sessions[l]
        /\ sessions[l] > 0 => login[l].attempts < AttemptLimit

\* "rotating refresh tokens" (README.md): of the tokens that go back to one
\* login at most one is valid, so that a token refreshed twice at the same time
\* has one successor.
OneValidToken ==
    \A t, u \in Tokens :
        token[t].state = "valid" /\ token[u].state = "valid"
            /\ token[t].login = token[u].login => t = u
=============================================================================
