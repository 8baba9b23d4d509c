------------------------------ MODULE Sessions ------------------------------
(***************************************************************************)
(* Login, token rotation and logout: backend/src/auth with frontend/auth.ts*)
(* (NextAuth's callbacks over one session cookie), use-token-refresh and   *)
(* use-auth-flow, for one user, one browser and perhaps another device.    *)
(*                                                                         *)
(* The backend remembers one refresh-token hash.  Every read of the session*)
(* (the tab's timer, a page load) may rotate: it copies the cookie, asks   *)
(* the backend, and writes a whole new cookie with the answer.  A token's  *)
(* payload is the user and the second it was issued in, so a token is that *)
(* second: two issued in one second are the same token.                    *)
(***************************************************************************)
EXTENDS Integers, FiniteSets

CONSTANTS
    Tab,         \* reads of the session by the open tab's timer
    Page,        \* any other read: a navigation, another tab
    Nothing,
    AccessTtl, RefreshTtl,  \* JWT_ACCESS_TTL, JWT_REFRESH_TTL
    Margin,      \* the 60 s before expiry at which tokens are renewed
    MinDelay,    \* the timer's least delay, 10 s
    Latency,     \* bound: how long a request and its answer take
    MaxClock,    \* bound
    MaxLogins    \* bound

ASSUME ReadersDiffer == Tab # Page /\ Nothing \notin Nat
ASSUME Durations ==
    /\ {AccessTtl, RefreshTtl, Margin, MinDelay, Latency, MaxClock, MaxLogins} \subseteq Nat
    /\ MinDelay > 0 /\ Margin < AccessTtl /\ AccessTtl <= RefreshTtl

\* One answer makes the client's expiry late, the next makes the renewal late,
\* and the timer waits its least delay: the margin must outlast all three.
ASSUME MarginCoversLatency == 2 * Latency + MinDelay <= Margin

Readers == {Tab, Page}
Token == 0..MaxClock

VARIABLES
    clock,
    hash,       \* User.refreshTokenHash: the token it is the hash of, or Nothing
    cookie,     \* the NextAuth JWT, or Nothing
    tabToken,   \* the access token the open tab holds, or Nothing
    timer,      \* when the tab's timer fires, or Nothing
    reader,     \* session reads in flight
    login,      \* a passkey login in flight
    logins,     \* bound
    disturbed,  \* history: reads overlapped, an answer was lost, another
                \* login or a logout happened, or the refresh token ran out
    loggedOut   \* history: a logout overlapped by no rotation, and no login since

vars == <<clock, hash, cookie, tabToken, timer, reader, login, logins, disturbed,
          loggedOut>>
browserVars == <<cookie, tabToken, timer>>

Cookie == [token : Token, expires : Nat, error : BOOLEAN]
NoRead == [pc |-> "idle", read |-> Nothing, issued |-> Nothing, since |-> 0]
NoLogin == [pc |-> "idle", issued |-> Nothing]

TypeOK ==
    /\ clock \in 0..MaxClock
    /\ hash \in Token \union {Nothing}
    /\ cookie \in Cookie \union {Nothing}
    /\ tabToken \in Token \union {Nothing}
    /\ timer \in Nat \union {Nothing}
    /\ reader \in [Readers -> [pc : {"idle", "check", "issue", "answer"},
                               read : Cookie \union {Nothing},
                               issued : Token \union {Nothing}, since : 0..MaxClock]]
    /\ login \in [pc : {"idle", "signIn"}, issued : Token \union {Nothing}]
    /\ logins \in 0..MaxLogins
    /\ disturbed \in BOOLEAN /\ loggedOut \in BOOLEAN

Init ==
    /\ clock = 0 /\ hash = Nothing
    /\ cookie = Nothing /\ tabToken = Nothing /\ timer = Nothing
    /\ reader = [i \in Readers |-> NoRead]
    /\ login = NoLogin /\ logins = 0
    /\ disturbed = FALSE /\ loggedOut = FALSE

Larger(a, b) == IF a >= b THEN a ELSE b
Busy(i) == reader[i].pc # "idle"

---------------------------------------------------------------------------
(* The backend.                                                            *)

\* verifyAsync: the signature (never wrong here) and the expiry.
AccessValid(token) == clock < token + AccessTtl
RefreshValid(token) == clock < token + RefreshTtl

\* The new pair; its hash is stored before the answer leaves.
issueTokens == hash' = clock

\* JwtAuthGuard.
canActivate(token) == token # Nothing /\ AccessValid(token)

\* loginComplete, after the passkey ceremony; signIn follows when the answer
\* arrives.
loginComplete ==
    /\ login.pc = "idle" /\ logins < MaxLogins
    /\ logins' = logins + 1
    /\ issueTokens
    /\ login' = [pc |-> "signIn", issued |-> clock]
    /\ disturbed' = (disturbed \/ hash # Nothing \/ cookie # Nothing)
    /\ loggedOut' = FALSE
    /\ UNCHANGED <<clock, browserVars, reader>>

\* The same on another device, or a login whose answer is lost here.
LoginElsewhere ==
    /\ logins < MaxLogins
    /\ logins' = logins + 1
    /\ issueTokens
    /\ disturbed' = TRUE /\ loggedOut' = FALSE
    /\ UNCHANGED <<clock, browserVars, reader, login>>

\* POST /auth/logout with the tab's access token.
logout ==
    /\ canActivate(tabToken)
    /\ hash' = Nothing
    /\ disturbed' = TRUE
    /\ loggedOut' = (\A i \in Readers : reader[i].pc # "issue")
    /\ UNCHANGED <<clock, browserVars, reader, login, logins>>

\* Mutants: the stored hash is not compared; nothing stored matches anything.
CheckExpiryOnly(i) ==
    LET sent == reader[i].read.token IN
    /\ reader[i].pc = "check"
    /\ reader' = [reader EXCEPT ![i].pc = IF RefreshValid(sent) THEN "issue" ELSE "answer"]
    /\ disturbed' = (disturbed \/ ~RefreshValid(sent))
    /\ UNCHANGED <<clock, hash, browserVars, login, logins, loggedOut>>
CheckIfStored(i) ==
    LET sent == reader[i].read.token IN
    /\ reader[i].pc = "check"
    /\ reader' = [reader EXCEPT ![i].pc =
                    IF RefreshValid(sent) /\ hash \in {sent, Nothing} THEN "issue" ELSE "answer"]
    /\ disturbed' = (disturbed \/ ~RefreshValid(sent))
    /\ UNCHANGED <<clock, hash, browserVars, login, logins, loggedOut>>

\* refresh, up to the read of the wallet: the hash of the token sent must be
\* the stored one.
Check(i) ==
    LET sent == reader[i].read.token IN
    /\ reader[i].pc = "check"
    /\ reader' = [reader EXCEPT ![i].pc =
                    IF RefreshValid(sent) /\ hash = sent THEN "issue" ELSE "answer"]
    /\ disturbed' = (disturbed \/ ~RefreshValid(sent))
    /\ UNCHANGED <<clock, hash, browserVars, login, logins, loggedOut>>

\* refresh, after that read.
Rotate(i) ==
    /\ reader[i].pc = "issue"
    /\ issueTokens
    /\ reader' = [reader EXCEPT ![i].pc = "answer", ![i].issued = clock]
    /\ UNCHANGED <<clock, browserVars, login, logins, disturbed, loggedOut>>

---------------------------------------------------------------------------
(* The browser.                                                            *)

\* Mutant: the timer waits for the expiry itself.
DelayToExpiry(expires) == Larger(expires - clock, MinDelay)

Delay(expires) == Larger(expires - clock - Margin, MinDelay)

\* authorize and the first jwt callback: the cookie is made from the login.
signIn ==
    /\ login.pc = "signIn"
    /\ cookie' = [token |-> login.issued, expires |-> clock + AccessTtl, error |-> FALSE]
    /\ tabToken' = login.issued
    /\ timer' = clock + Delay(clock + AccessTtl)
    /\ login' = NoLogin
    /\ disturbed' = (disturbed \/ \E i \in Readers : Busy(i))
    /\ UNCHANGED <<clock, hash, reader, logins, loggedOut>>

\* What a tab does with the session it is given: it takes the access token and
\* sets its timer again.
scheduleRefresh(i, session) ==
    IF i = Tab
    THEN tabToken' = session.token /\ timer' = clock + Delay(session.expires)
    ELSE UNCHANGED <<tabToken, timer>>

\* The jwt callback: outside the margin the cookie is reused, inside it the
\* request copies the cookie and goes to the backend.
jwt(i) ==
    /\ cookie # Nothing /\ ~Busy(i)
    /\ IF clock < cookie.expires - Margin
       THEN scheduleRefresh(i, cookie) /\ UNCHANGED <<reader, disturbed>>
       ELSE /\ reader' = [reader EXCEPT ![i] =
                 [pc |-> "check", read |-> cookie, issued |-> Nothing, since |-> clock]]
            /\ IF i = Tab THEN timer' = Nothing ELSE UNCHANGED timer
            /\ disturbed' = (disturbed \/ (\E j \in Readers : Busy(j)) \/ login # NoLogin)
            /\ UNCHANGED tabToken
    /\ UNCHANGED <<clock, hash, cookie, login, logins, loggedOut>>

TimerFires == timer # Nothing /\ timer <= clock /\ jwt(Tab)
PageRead == jwt(Page)

\* Mutant: the answer's refresh token is not kept.
RenewedAccessOnly(i) ==
    IF reader[i].issued # Nothing
    THEN [reader[i].read EXCEPT !.expires = clock + AccessTtl]
    ELSE [reader[i].read EXCEPT !.error = TRUE]

\* refreshAccessToken's result: a failure keeps the copied tokens and marks them.
Renewed(i) ==
    IF reader[i].issued # Nothing
    THEN [token |-> reader[i].issued, expires |-> clock + AccessTtl, error |-> FALSE]
    ELSE [reader[i].read EXCEPT !.error = TRUE]

refreshAccessToken(i) ==
    /\ reader[i].pc = "answer"
    /\ cookie' = Renewed(i)
    /\ scheduleRefresh(i, Renewed(i))
    /\ reader' = [reader EXCEPT ![i] = NoRead]
    /\ UNCHANGED <<clock, hash, login, logins, disturbed, loggedOut>>

\* The answer is lost after the backend has done its part.
LoseAnswer(i) ==
    /\ reader[i].pc = "answer" /\ reader[i].issued # Nothing
    /\ reader' = [reader EXCEPT ![i].issued = Nothing]
    /\ disturbed' = TRUE
    /\ UNCHANGED <<clock, hash, browserVars, login, logins, loggedOut>>

\* Sign out in the browser only: NextAuth drops the cookie, the backend is not
\* told.
signOut ==
    /\ cookie # Nothing
    /\ cookie' = Nothing /\ tabToken' = Nothing /\ timer' = Nothing
    /\ disturbed' = TRUE
    /\ UNCHANGED <<clock, hash, reader, login, logins, loggedOut>>

\* Time passes: not past a timer that is due, nor past a request's latency.
Tick ==
    /\ clock < MaxClock
    /\ timer # Nothing => clock < timer
    /\ login # NoLogin => clock - login.issued < Latency
    /\ \A i \in Readers : Busy(i) => clock - reader[i].since < Latency
    /\ clock' = clock + 1
    /\ UNCHANGED <<hash, browserVars, reader, login, logins, disturbed, loggedOut>>

Next ==
    \/ loginComplete \/ LoginElsewhere \/ logout \/ signIn \/ signOut
    \/ TimerFires \/ PageRead \/ Tick
    \/ \E i \in Readers : Check(i) \/ Rotate(i) \/ refreshAccessToken(i) \/ LoseAnswer(i)

Spec == Init /\ [][Next]_vars

---------------------------------------------------------------------------
Settled == login = NoLogin /\ \A i \in Readers : ~Busy(i)

\* No copy of the cookie holds the token the backend would accept.
Dead ==
    /\ login = NoLogin
    /\ cookie # Nothing => cookie.token # hash
    /\ \A i \in Readers : Busy(i) =>
          /\ reader[i].pc # "issue"
          /\ reader[i].issued # Nothing => reader[i].issued # hash
          /\ reader[i].read.token # hash

\* With one read at a time and no answer lost, the cookie's refresh token is the
\* one the backend will accept next (issueTokens, refreshAccessToken).
CookieMatchesHash == Settled /\ cookie # Nothing /\ ~disturbed => cookie.token = hash

\* A tab that is left open never holds an expired access token: the timer's
\* margin covers the latency of the answer that set it, its least delay, and the
\* latency of the next answer.
TabStaysAuthenticated == tabToken # Nothing /\ ~disturbed => AccessValid(tabToken)

\* A session that lost its token never comes back by itself: no read of it, by
\* any tab, gets it renewed; only a login does (refresh, auth.ts).
DeadStaysDead == [][Dead => Dead' \/ logins' # logins]_vars

\* After a logout no rotation restores the session, unless one had already
\* passed the comparison (refresh writes the hash after an await).
LogoutHolds == loggedOut => hash = Nothing
=============================================================================
