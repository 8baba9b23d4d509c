--------------------------- MODULE FrontendProofs ---------------------------
(***************************************************************************)
(* What holds of the three flows a user starts in the browser, for any     *)
(* constants: a session over one cookie and one stored hash (Sessions), a  *)
(* user's way through verification (Onboarding), and the tabs in which a   *)
(* shipper issues offerings (IssueFlow).  The parts share no state, each   *)
(* has its own invariant.                                                  *)
(***************************************************************************)
EXTENDS Sessions, Onboarding, IssueFlow, Forms, AmountsProofs, SequenceTheorems, TLAPS

-----------------------------------------------------------------------------
(*****************************************************************************)
(* Sessions, for any durations that the margin covers, any clock and any     *)
(* number of logins: the cookie keeps the token the backend accepts, an      *)
(* open tab stays authenticated, a logout holds and a dead session stays     *)
(* dead.                                                                     *)
(*****************************************************************************)

Read == [pc : {"idle", "check", "issue", "answer"}, read : Cookie \union {Nothing},
         issued : Token \union {Nothing}, since : 0..MaxClock]

\* A session's expiry is late by what its answer took, and no more.
Fresh(s) == s.expires <= s.token + AccessTtl + Latency

\* The bounds of time: nothing due has passed, no request outlasts its latency.
Timed ==
    /\ timer # Nothing => clock <= timer
    /\ login = NoLogin \/
          /\ login.pc = "signIn" /\ login.issued # Nothing
          /\ login.issued <= clock /\ clock <= login.issued + Latency
    /\ cookie # Nothing => Fresh(cookie)
    /\ \A i \in Readers : Busy(i) =>
          /\ reader[i].read # Nothing /\ Fresh(reader[i].read)
          /\ reader[i].since <= clock /\ clock <= reader[i].since + Latency
          /\ reader[i].issued # Nothing =>
                reader[i].since <= reader[i].issued /\ reader[i].issued <= clock

\* Where the token the backend would accept is, while nothing disturbs it: in a
\* login's answer, in the cookie, or in the answer of the one read.
TokenKept ==
    /\ login # NoLogin => cookie = Nothing /\ hash = login.issued /\ \A i \in Readers : ~Busy(i)
    /\ \A i, j \in Readers : Busy(i) /\ Busy(j) => i = j
    /\ Settled /\ cookie # Nothing => cookie.token = hash
    /\ \A i \in Readers : Busy(i) =>
          /\ cookie # Nothing /\ reader[i].read = cookie
          /\ IF reader[i].pc = "answer"
             THEN reader[i].issued # Nothing /\ reader[i].issued = hash
             ELSE cookie.token = hash

\* The tab renews its token early enough for the answer to arrive in time.
TabRenews ==
    tabToken # Nothing =>
        /\ timer # Nothing => timer + Latency < tabToken + AccessTtl
        /\ Busy(Tab) => reader[Tab].since + Latency < tabToken + AccessTtl
        /\ timer # Nothing \/ Busy(Tab)

\* No rotation that may still write is left after a logout.
LogoutSticks == loggedOut => hash = Nothing /\ \A i \in Readers : reader[i].pc # "issue"

\* Nobody holds an expired token while nothing is disturbed: TokenKept says that
\* each renewal has the token it needs, TabRenews that it comes in time, Timed how
\* late an expiry may be.
SInv == TypeOK /\ Timed /\ (~disturbed => TokenKept /\ TabRenews) /\ LogoutSticks
-----------------------------------------------------------------------------
(* The types of the state, as the provers need them.                       *)

\* The constants' types.
LEMMA Bounds ==
    /\ AccessTtl \in Nat /\ RefreshTtl \in Nat /\ Margin \in Nat /\ MinDelay \in Nat
    /\ Latency \in Nat /\ MaxClock \in Nat /\ MaxLogins \in Nat
    /\ MinDelay > 0 /\ Margin < AccessTtl /\ 2 * Latency + MinDelay <= Margin
    /\ Tab # Page /\ Nothing \notin Nat
BY ReadersDiffer, Durations, MarginCoversLatency

\* The state's types, with the reads as records.
LEMMA StateTypes ==
    ASSUME TypeOK
    PROVE  /\ clock \in Nat /\ clock <= MaxClock /\ clock \in Token /\ clock # Nothing
           /\ reader \in [Readers -> Read]
           /\ \A i \in Readers : reader[i] \in Read
           /\ \A i \in Readers : reader[i].since \in Nat
           /\ \A i \in Readers : reader[i].issued # Nothing => reader[i].issued \in Nat
           /\ \A i \in Readers : reader[i].read # Nothing =>
                 reader[i].read \in Cookie /\ reader[i].read.token \in Nat
                 /\ reader[i].read.expires \in Nat
           /\ cookie # Nothing => cookie \in Cookie /\ cookie.token \in Nat /\ cookie.expires \in Nat
           /\ login.issued # Nothing => login.issued \in Nat
           /\ timer # Nothing => timer \in Nat
           /\ tabToken # Nothing => tabToken \in Nat
BY Bounds DEF TypeOK, Read, Token, Cookie

\* The timer's delay: it outlasts the clock, and leaves an answer's time before a
\* token that is as late as an answer may make it.
LEMMA DelayLeavesTime ==
    ASSUME NEW now \in Nat, now = clock, NEW made \in Nat, NEW expires \in Nat,
           expires <= made + AccessTtl + Latency,
           \/ now <= made + Latency
           \/ now < expires - Margin
    PROVE  /\ clock + Delay(expires) \in Nat
           /\ clock < clock + Delay(expires)
           /\ clock + Delay(expires) + Latency < made + AccessTtl
BY Bounds DEF Delay, Larger
-----------------------------------------------------------------------------
(* Each action keeps the invariant.                                        *)

\* A login finds no other read under way unless that is a disturbance.
LEMMA LoginCompleteStep == ASSUME SInv, loginComplete PROVE SInv'
<1> USE DEF SInv
<1>0. TypeOK
  OBVIOUS
<1>1. TypeOK'
  <2>1. logins' \in 0..MaxLogins
    BY <1>0, Bounds DEF TypeOK, loginComplete
  <2>2. hash' \in Token \union {Nothing} /\ clock \in Token
    BY <1>0, StateTypes DEF loginComplete, issueTokens
  <2> QED BY <2>1, <2>2 DEF TypeOK, loginComplete, browserVars
<1>2. Timed'
  BY <1>0, StateTypes, Bounds
     DEF Timed, loginComplete, issueTokens, browserVars, Busy, Fresh, NoLogin
<1>3. ASSUME ~disturbed' PROVE TokenKept'
  <2>1. ~disturbed /\ hash = Nothing /\ cookie = Nothing
    BY <1>3 DEF loginComplete
  <2>2. \A i \in Readers : ~Busy(i)
    BY <2>1 DEF TokenKept
  <2> QED BY <2>1, <2>2, <1>0, StateTypes
          DEF TokenKept, loginComplete, issueTokens, browserVars, Busy, Settled, NoLogin
<1>4. ASSUME ~disturbed' PROVE TabRenews'
  BY <1>4 DEF TabRenews, loginComplete, browserVars, Busy
<1>5. LogoutSticks'
  BY DEF LogoutSticks, loginComplete
<1> QED BY <1>1, <1>2, <1>3, <1>4, <1>5

\* A login elsewhere is a disturbance.
LEMMA LoginElsewhereStep == ASSUME SInv, LoginElsewhere PROVE SInv'
<1> USE DEF SInv
<1>0. TypeOK
  OBVIOUS
<1>1. TypeOK'
  <2>1. logins' \in 0..MaxLogins
    BY <1>0, Bounds DEF TypeOK, LoginElsewhere
  <2>2. hash' \in Token \union {Nothing} /\ clock \in Token
    BY <1>0, StateTypes DEF LoginElsewhere, issueTokens
  <2> QED BY <2>1, <2>2 DEF TypeOK, LoginElsewhere, browserVars
<1>2. Timed'
  BY DEF Timed, LoginElsewhere, browserVars, Busy, Fresh
<1>3. disturbed' /\ LogoutSticks'
  BY DEF LogoutSticks, LoginElsewhere
<1> QED BY <1>1, <1>2, <1>3

\* A logout leaves no hash, and it counts only when no rotation may still write.
LEMMA LogoutStep == ASSUME SInv, logout PROVE SInv'
<1> USE DEF SInv
<1>1. TypeOK'
  BY DEF TypeOK, logout, browserVars
<1>2. Timed'
  BY DEF Timed, logout, browserVars, Busy, Fresh
<1>3. disturbed' /\ LogoutSticks'
  BY DEF LogoutSticks, logout
<1> QED BY <1>1, <1>2, <1>3

\* The browser signs out: there is no session left to keep.
LEMMA SignOutStep == ASSUME SInv, signOut PROVE SInv'
<1> USE DEF SInv
<1>1. TypeOK'
  BY DEF TypeOK, signOut
<1>2. Timed'
  BY DEF Timed, signOut, Busy, Fresh
<1>3. disturbed' /\ LogoutSticks'
  BY DEF LogoutSticks, signOut
<1> QED BY <1>1, <1>2, <1>3

\* The login's answer: its token is the one the hash is of, and it is no later
\* than a request takes.
LEMMA SignInStep == ASSUME SInv, signIn PROVE SInv'
<1> USE DEF SInv
<1>0. /\ TypeOK /\ clock \in Nat /\ login.issued \in Nat /\ login.issued \in Token
      /\ login.issued # Nothing /\ login # NoLogin
      /\ login.issued <= clock /\ clock <= login.issued + Latency
      /\ clock + AccessTtl \in Nat
  BY StateTypes, Bounds DEF Timed, signIn, NoLogin, TypeOK
<1>1. /\ clock + Delay(clock + AccessTtl) \in Nat
      /\ clock < clock + Delay(clock + AccessTtl)
      /\ clock + Delay(clock + AccessTtl) + Latency < login.issued + AccessTtl
  <2>1. clock + AccessTtl <= login.issued + AccessTtl + Latency
    BY <1>0, Bounds
  <2> QED BY <1>0, <2>1, DelayLeavesTime
<1>2. TypeOK'
  BY <1>0, <1>1 DEF TypeOK, signIn, Cookie, NoLogin
<1>3. Timed'
  <2>1. timer' # Nothing => clock' <= timer'
    BY <1>0, <1>1 DEF signIn
  <2>2. Fresh(cookie')
    BY <1>0, Bounds DEF signIn, Fresh
  <2> QED BY <2>1, <2>2 DEF Timed, signIn, Busy, Fresh
<1>4. ASSUME ~disturbed' PROVE TokenKept' /\ TabRenews'
  <2>1. ~disturbed /\ \A i \in Readers : ~Busy(i)
    BY <1>4 DEF signIn
  <2>2. hash = login.issued
    BY <1>0, <2>1 DEF TokenKept
  <2>3. TokenKept'
    BY <2>1, <2>2 DEF TokenKept, signIn, Busy, NoLogin, Settled
  <2>4. TabRenews'
    <3>1. timer' = clock + Delay(clock + AccessTtl) /\ tabToken' = login.issued
      BY DEF signIn
    <3>2. timer' # Nothing
      BY <3>1, <1>1, Bounds
    <3>3. ~Busy(Tab)'
      BY <2>1 DEF signIn, Busy, Readers
    <3> QED BY <1>1, <3>1, <3>2, <3>3 DEF TabRenews
  <2> QED BY <2>3, <2>4
<1>5. LogoutSticks'
  BY DEF LogoutSticks, signIn
<1> QED BY <1>2, <1>3, <1>4, <1>5

\* Time stops at what is due.
LEMMA TickStep == ASSUME SInv, Tick PROVE SInv'
<1> USE DEF SInv
<1>0. TypeOK
  OBVIOUS
<1>1. TypeOK'
  BY <1>0, StateTypes, Bounds DEF TypeOK, Tick, browserVars
<1>2. Timed'
  BY <1>0, StateTypes, Bounds DEF Timed, Tick, browserVars, Busy, Fresh
<1>3. ASSUME ~disturbed' PROVE TokenKept' /\ TabRenews'
  BY <1>3 DEF TokenKept, TabRenews, Tick, browserVars, Busy, Settled
<1>4. LogoutSticks'
  BY DEF LogoutSticks, Tick
<1> QED BY <1>1, <1>2, <1>3, <1>4

\* One read changes, the other stays.
LEMMA OneReadMoves ==
    ASSUME TypeOK, NEW i \in Readers, NEW m \in Read, reader' = [reader EXCEPT ![i] = m]
    PROVE  /\ reader' \in [Readers -> Read] /\ reader'[i] = m
           /\ \A j \in Readers : j # i => reader'[j] = reader[j]
BY StateTypes

\* The backend compares: only the token whose hash is stored goes on, and none
\* does after a logout.
LEMMA CheckStep == ASSUME SInv, NEW i \in Readers, Check(i) PROVE SInv'
<1> USE DEF SInv
<1> DEFINE sent == reader[i].read.token
           goes == RefreshValid(sent) /\ hash = sent
           m == [reader[i] EXCEPT !.pc = IF goes THEN "issue" ELSE "answer"]
<1>0. /\ TypeOK /\ reader[i] \in Read /\ Busy(i) /\ reader[i].pc = "check"
      /\ reader[i].read # Nothing /\ sent \in Nat /\ sent # Nothing
  BY StateTypes, Bounds DEF Check, Busy, Timed
<1>1. /\ m \in Read /\ m.read = reader[i].read /\ m.issued = reader[i].issued
      /\ m.since = reader[i].since /\ m.pc # "idle" /\ m.pc # "check"
      /\ goes <=> m.pc = "issue"
  BY <1>0 DEF Read
<1>2. reader' = [reader EXCEPT ![i] = m]
  BY <1>0, StateTypes DEF Check
<1> HIDE DEF m
<1>3. /\ reader' \in [Readers -> Read] /\ reader'[i] = m
      /\ \A j \in Readers : j # i => reader'[j] = reader[j]
  BY <1>0, <1>1, <1>2, OneReadMoves
<1>4. \A j \in Readers : Busy(j)' <=> Busy(j)
  BY <1>0, <1>1, <1>3 DEF Busy
<1>5. TypeOK'
  BY <1>3 DEF TypeOK, Check, browserVars, Read
<1>6. Timed'
  <2> SUFFICES ASSUME NEW j \in Readers, Busy(j)
               PROVE  /\ reader'[j].read # Nothing /\ Fresh(reader'[j].read)
                      /\ reader'[j].since <= clock /\ clock <= reader'[j].since + Latency
                      /\ reader'[j].issued # Nothing =>
                            reader'[j].since <= reader'[j].issued /\ reader'[j].issued <= clock
    BY <1>4 DEF Timed, Check, browserVars, Fresh
  <2>1. reader'[j].read = reader[j].read /\ reader'[j].since = reader[j].since
        /\ reader'[j].issued = reader[j].issued
    BY <1>1, <1>3
  <2> QED BY <2>1 DEF Timed
<1>7. ASSUME ~disturbed' PROVE TokenKept' /\ TabRenews'
  <2>1. ~disturbed /\ RefreshValid(sent)
    BY <1>7 DEF Check
  <2>2. cookie # Nothing /\ reader[i].read = cookie /\ cookie.token = hash
    BY <1>0, <2>1 DEF TokenKept
  <2>3. m.pc = "issue"
    BY <1>1, <2>1, <2>2
  <2>4. \A j \in Readers : Busy(j) => j = i
    BY <1>0, <2>1 DEF TokenKept
  <2>5. TokenKept'
    <3>1. UNCHANGED <<login, cookie, hash>>
      BY DEF Check, browserVars
    <3>2. ~Settled'
      BY <1>0, <1>4 DEF Settled
    <3>3. login = NoLogin
      BY <1>0, <2>1 DEF TokenKept
    <3> QED BY <1>0, <1>1, <1>3, <1>4, <2>2, <2>3, <2>4, <3>1, <3>2, <3>3 DEF TokenKept
  <2>6. TabRenews'
    <3>1. UNCHANGED <<tabToken, timer>> /\ Tab \in Readers
      BY DEF Check, browserVars, Readers
    <3>2. reader'[Tab].since = reader[Tab].since
      BY <1>1, <1>3, <3>1
    <3> QED BY <1>4, <2>1, <3>1, <3>2 DEF TabRenews
  <2> QED BY <2>5, <2>6
<1>8. LogoutSticks'
  <2> SUFFICES ASSUME loggedOut PROVE hash' = Nothing /\ \A j \in Readers : reader'[j].pc # "issue"
    BY DEF LogoutSticks, Check
  <2>1. hash = Nothing /\ hash' = Nothing
    BY DEF LogoutSticks, Check
  <2>2. ~goes
    BY <1>0, <2>1, Bounds
  <2> QED BY <1>1, <1>3, <2>1, <2>2 DEF LogoutSticks
<1> QED BY <1>5, <1>6, <1>7, <1>8

\* The backend issues: the new token is the one the answer carries.
LEMMA RotateStep == ASSUME SInv, NEW i \in Readers, Rotate(i) PROVE SInv'
<1> USE DEF SInv
<1> DEFINE m == [reader[i] EXCEPT !.pc = "answer", !.issued = clock]
<1>0. /\ TypeOK /\ reader[i] \in Read /\ Busy(i) /\ reader[i].pc = "issue"
      /\ clock \in Token /\ clock # Nothing /\ hash' = clock
  BY StateTypes DEF Rotate, issueTokens, Busy
<1>1. /\ m \in Read /\ m.read = reader[i].read /\ m.issued = clock
      /\ m.since = reader[i].since /\ m.pc = "answer"
  BY <1>0 DEF Read
<1>2. reader' = [reader EXCEPT ![i] = m]
  BY <1>0, StateTypes DEF Rotate
<1> HIDE DEF m
<1>3. /\ reader' \in [Readers -> Read] /\ reader'[i] = m
      /\ \A j \in Readers : j # i => reader'[j] = reader[j]
  BY <1>0, <1>1, <1>2, OneReadMoves
<1>4. \A j \in Readers : Busy(j)' <=> Busy(j)
  BY <1>0, <1>1, <1>3 DEF Busy
<1>5. TypeOK'
  BY <1>0, <1>3 DEF TypeOK, Rotate, browserVars, Read
<1>6. Timed'
  <2> SUFFICES ASSUME NEW j \in Readers, Busy(j)
               PROVE  /\ reader'[j].read # Nothing /\ Fresh(reader'[j].read)
                      /\ reader'[j].since <= clock /\ clock <= reader'[j].since + Latency
                      /\ reader'[j].issued # Nothing =>
                            reader'[j].since <= reader'[j].issued /\ reader'[j].issued <= clock
    BY <1>4 DEF Timed, Rotate, browserVars, Fresh
  <2>1. reader'[j].read = reader[j].read /\ reader'[j].since = reader[j].since
        /\ (reader'[j].issued = reader[j].issued \/ reader'[j].issued = clock)
    BY <1>1, <1>3
  <2>2. clock <= clock
    BY StateTypes
  <2> QED BY <2>1, <2>2 DEF Timed
<1>7. ASSUME ~disturbed' PROVE TokenKept' /\ TabRenews'
  <2>1. ~disturbed
    BY <1>7 DEF Rotate
  <2>2. cookie # Nothing /\ reader[i].read = cookie
    BY <1>0, <2>1 DEF TokenKept
  <2>4. \A j \in Readers : Busy(j) => j = i
    BY <1>0, <2>1 DEF TokenKept
  <2>5. TokenKept'
    <3>1. UNCHANGED <<login, cookie>>
      BY DEF Rotate, browserVars
    <3>2. ~Settled'
      BY <1>0, <1>4 DEF Settled
    <3>3. login = NoLogin
      BY <1>0, <2>1 DEF TokenKept
    <3> QED BY <1>0, <1>1, <1>3, <1>4, <2>2, <2>4, <3>1, <3>2, <3>3 DEF TokenKept
  <2>6. TabRenews'
    <3>1. UNCHANGED <<tabToken, timer>> /\ Tab \in Readers
      BY DEF Rotate, browserVars, Readers
    <3>2. reader'[Tab].since = reader[Tab].since
      BY <1>1, <1>3, <3>1
    <3> QED BY <1>4, <2>1, <3>1, <3>2 DEF TabRenews
  <2> QED BY <2>5, <2>6
<1>8. LogoutSticks'
  BY <1>0 DEF LogoutSticks, Rotate
<1> QED BY <1>5, <1>6, <1>7, <1>8

\* A lost answer is a disturbance.
LEMMA LoseAnswerStep == ASSUME SInv, NEW i \in Readers, LoseAnswer(i) PROVE SInv'
<1> USE DEF SInv
<1> DEFINE m == [reader[i] EXCEPT !.issued = Nothing]
<1>0. TypeOK /\ reader[i] \in Read /\ Busy(i) /\ reader[i].pc = "answer"
  BY StateTypes DEF LoseAnswer, Busy
<1>1. /\ m \in Read /\ m.read = reader[i].read /\ m.issued = Nothing
      /\ m.since = reader[i].since /\ m.pc = "answer"
  BY <1>0 DEF Read
<1>2. reader' = [reader EXCEPT ![i] = m]
  BY <1>0, StateTypes DEF LoseAnswer
<1> HIDE DEF m
<1>3. /\ reader' \in [Readers -> Read] /\ reader'[i] = m
      /\ \A j \in Readers : j # i => reader'[j] = reader[j]
  BY <1>0, <1>1, <1>2, OneReadMoves
<1>4. \A j \in Readers : Busy(j)' <=> Busy(j)
  BY <1>0, <1>1, <1>3 DEF Busy
<1>5. TypeOK'
  BY <1>3 DEF TypeOK, LoseAnswer, browserVars, Read
<1>6. Timed'
  <2> SUFFICES ASSUME NEW j \in Readers, Busy(j)
               PROVE  /\ reader'[j].read # Nothing /\ Fresh(reader'[j].read)
                      /\ reader'[j].since <= clock /\ clock <= reader'[j].since + Latency
                      /\ reader'[j].issued # Nothing =>
                            reader'[j].since <= reader'[j].issued /\ reader'[j].issued <= clock
    BY <1>4 DEF Timed, LoseAnswer, browserVars, Fresh
  <2>1. reader'[j].read = reader[j].read /\ reader'[j].since = reader[j].since
        /\ (reader'[j].issued = reader[j].issued \/ reader'[j].issued = Nothing)
    BY <1>1, <1>3
  <2> QED BY <2>1 DEF Timed
<1>7. disturbed'
  BY DEF LoseAnswer
<1>8. LogoutSticks'
  BY <1>1, <1>3 DEF LogoutSticks, LoseAnswer
<1> QED BY <1>5, <1>6, <1>7, <1>8

\* The cookie is reused: the tab takes it and sets a timer that renews in time.
LEMMA ReuseStep ==
    ASSUME SInv, NEW i \in Readers, jwt(i), clock < cookie.expires - Margin PROVE SInv'
<1> USE DEF SInv
<1>0. /\ TypeOK /\ clock \in Nat /\ cookie \in Cookie /\ cookie.token \in Token
      /\ cookie.token \in Nat /\ cookie.expires \in Nat /\ Fresh(cookie)
      /\ scheduleRefresh(i, cookie)
      /\ UNCHANGED <<clock, hash, cookie, reader, login, logins, disturbed, loggedOut>>
  BY StateTypes DEF jwt, Timed, Cookie
<1> DEFINE due == clock + Delay(cookie.expires)
<1>1. due \in Nat /\ clock < due /\ due + Latency < cookie.token + AccessTtl
  BY <1>0, DelayLeavesTime DEF Fresh
<1>2. due # Nothing /\ cookie.token # Nothing
  BY <1>0, <1>1, Bounds
<1>3. \/ i = Tab /\ tabToken' = cookie.token /\ timer' = due
      \/ i # Tab /\ UNCHANGED <<tabToken, timer>>
  BY <1>0 DEF scheduleRefresh
<1>4. \A j \in Readers : Busy(j)' <=> Busy(j)
  BY <1>0 DEF Busy
<1> HIDE DEF due
<1>5. TypeOK'
  BY <1>0, <1>1, <1>3 DEF TypeOK
<1>6. Timed'
  <2>1. timer' # Nothing => clock <= timer'
    BY <1>0, <1>1, <1>3 DEF Timed
  <2> QED BY <1>0, <1>4, <2>1 DEF Timed, Fresh
<1>7. ASSUME ~disturbed' PROVE TokenKept' /\ TabRenews'
  <2>1. ~disturbed
    BY <1>0, <1>7
  <2>2. TokenKept'
    BY <1>0, <1>4, <2>1 DEF TokenKept, Settled
  <2>3. TabRenews'
    <3>1. CASE i # Tab
      BY <1>0, <1>3, <1>4, <2>1, <3>1 DEF TabRenews, Readers
    <3>2. CASE i = Tab
      <4>1. ~Busy(Tab)' /\ tabToken' = cookie.token /\ timer' = due
        BY <1>3, <1>4, <3>2 DEF jwt
      <4> QED BY <1>1, <1>2, <4>1 DEF TabRenews
    <3> QED BY <3>1, <3>2
  <2> QED BY <2>2, <2>3
<1>8. LogoutSticks'
  BY <1>0 DEF LogoutSticks
<1> QED BY <1>5, <1>6, <1>7, <1>8

\* Inside the margin a read copies the cookie and asks; the tab does so when its
\* timer is due, which leaves the answer its time.
LEMMA AskStep ==
    ASSUME SInv, NEW i \in Readers, jwt(i), ~(clock < cookie.expires - Margin),
           i = Tab => timer # Nothing /\ timer <= clock
    PROVE  SInv'
<1> USE DEF SInv
<1> DEFINE m == [pc |-> "check", read |-> cookie, issued |-> Nothing, since |-> clock]
<1>0. /\ TypeOK /\ clock \in Nat /\ clock \in 0..MaxClock
      /\ cookie # Nothing /\ cookie \in Cookie /\ ~Busy(i)
  BY StateTypes DEF jwt, TypeOK
<1>1. /\ m \in Read /\ m.read = cookie /\ m.issued = Nothing /\ m.since = clock
      /\ m.pc = "check"
  BY <1>0 DEF Read
<1>2. /\ reader' = [reader EXCEPT ![i] = m]
      /\ (i = Tab /\ timer' = Nothing) \/ (i # Tab /\ timer' = timer)
      /\ UNCHANGED <<clock, hash, cookie, tabToken, login, logins, loggedOut>>
      /\ disturbed' = (disturbed \/ (\E j \in Readers : Busy(j)) \/ login # NoLogin)
  BY DEF jwt
<1> HIDE DEF m
<1>3. /\ reader' \in [Readers -> Read] /\ reader'[i] = m
      /\ \A j \in Readers : j # i => reader'[j] = reader[j]
  BY <1>0, <1>1, <1>2, OneReadMoves
<1>4. Busy(i)' /\ \A j \in Readers : j # i => (Busy(j)' <=> Busy(j))
  BY <1>1, <1>3 DEF Busy
<1>5. TypeOK'
  BY <1>2, <1>3 DEF TypeOK, Read
<1>6. Timed'
  <2>1. \A j \in Readers : Busy(j)' =>
          /\ reader'[j].read # Nothing /\ Fresh(reader'[j].read)
          /\ reader'[j].since <= clock /\ clock <= reader'[j].since + Latency
          /\ reader'[j].issued # Nothing =>
                reader'[j].since <= reader'[j].issued /\ reader'[j].issued <= clock
    <3> SUFFICES ASSUME NEW j \in Readers, Busy(j)'
                 PROVE  /\ reader'[j].read # Nothing /\ Fresh(reader'[j].read)
                        /\ reader'[j].since <= clock /\ clock <= reader'[j].since + Latency
                        /\ reader'[j].issued # Nothing =>
                              reader'[j].since <= reader'[j].issued
                              /\ reader'[j].issued <= clock
      OBVIOUS
    <3>1. CASE j = i
      <4>1. clock <= clock /\ clock <= clock + Latency /\ Fresh(cookie)
        BY <1>0, Bounds DEF Timed
      <4> QED BY <1>0, <1>1, <1>3, <3>1, <4>1
    <3>2. CASE j # i
      <4>1. Busy(j) /\ reader'[j] = reader[j]
        BY <1>3, <1>4, <3>2
      <4> QED BY <4>1 DEF Timed
    <3> QED BY <3>1, <3>2
  <2> QED BY <1>2, <2>1 DEF Timed, Fresh
<1>7. ASSUME ~disturbed' PROVE TokenKept' /\ TabRenews'
  <2>1. ~disturbed /\ login = NoLogin /\ \A j \in Readers : ~Busy(j)
    BY <1>2, <1>7
  <2>2. cookie.token = hash
    BY <1>0, <2>1 DEF TokenKept, Settled
  <2>3. \A j \in Readers : Busy(j)' => j = i
    BY <1>4, <2>1
  <2>4. TokenKept'
    <3>1. ~Settled'
      BY <1>4 DEF Settled
    <3> QED BY <1>0, <1>1, <1>2, <1>3, <2>1, <2>2, <2>3, <3>1 DEF TokenKept
  <2>5. TabRenews'
    <3> SUFFICES ASSUME tabToken # Nothing PROVE TabRenews'
      BY <1>2 DEF TabRenews
    <3>1. CASE i # Tab
      <4>1. timer' = timer /\ tabToken' = tabToken /\ ~Busy(Tab)'
        BY <1>2, <2>3, <3>1 DEF Readers
      <4>2. ~Busy(Tab)
        BY <2>1 DEF Readers
      <4> QED BY <2>1, <4>1, <4>2 DEF TabRenews
    <3>2. CASE i = Tab
      <4>1. timer # Nothing /\ timer = clock /\ timer + Latency < tabToken + AccessTtl
        <5>1. timer # Nothing /\ timer <= clock /\ clock <= timer
          BY <3>2 DEF Timed
        <5>2. timer \in Nat
          BY <5>1, StateTypes
        <5> QED BY <1>0, <2>1, <5>1, <5>2 DEF TabRenews
      <4>2. timer' = Nothing /\ tabToken' = tabToken /\ Busy(Tab)' /\ reader'[Tab].since = clock
        BY <1>1, <1>2, <1>3, <1>4, <3>2
      <4> QED BY <4>1, <4>2 DEF TabRenews
    <3> QED BY <3>1, <3>2
  <2> QED BY <2>4, <2>5
<1>8. LogoutSticks'
  BY <1>1, <1>2, <1>3 DEF LogoutSticks
<1> QED BY <1>5, <1>6, <1>7, <1>8

\* The answer arrives: the new cookie holds what the answer carried, and is no
\* fresher than the read is long.
LEMMA RefreshStep == ASSUME SInv, NEW i \in Readers, refreshAccessToken(i) PROVE SInv'
<1> USE DEF SInv
<1> DEFINE renewed == Renewed(i)
           due == clock + Delay(renewed.expires)
<1>0. /\ TypeOK /\ clock \in Nat /\ reader[i] \in Read /\ Busy(i)
      /\ reader[i].pc = "answer" /\ reader[i].read # Nothing /\ reader[i].read \in Cookie
      /\ reader[i].read.token \in Nat /\ reader[i].read.expires \in Nat
      /\ Fresh(reader[i].read) /\ clock + AccessTtl \in Nat /\ reader[i].since \in Nat
  BY StateTypes, Bounds DEF refreshAccessToken, Busy, Timed
<1>1. /\ NoRead \in Read /\ NoRead.pc = "idle"
  BY Bounds DEF NoRead, Read
\* The session is good: of a token, fresh, and renewed in time when it is new.
<1>2. /\ renewed \in Cookie /\ renewed.token \in Nat /\ renewed.expires \in Nat
      /\ Fresh(renewed)
      /\ reader[i].issued # Nothing =>
            renewed.token = reader[i].issued /\ clock <= renewed.token + Latency
  <2>1. CASE reader[i].issued # Nothing
    <3>1. reader[i].since <= reader[i].issued /\ clock <= reader[i].since + Latency
      BY <1>0, <2>1 DEF Timed
    <3>2. reader[i].issued \in Nat /\ reader[i].issued \in Token
      BY <1>0, <2>1, StateTypes DEF Read
    <3>3. clock <= reader[i].issued + Latency
      BY <1>0, <3>1, <3>2, Bounds
    <3>4. renewed = [token |-> reader[i].issued, expires |-> clock + AccessTtl, error |-> FALSE]
      BY <2>1 DEF Renewed
    <3>5. clock + AccessTtl <= reader[i].issued + AccessTtl + Latency
      BY <1>0, <3>2, <3>3, Bounds
    <3> HIDE DEF renewed
    <3> QED BY <1>0, <3>2, <3>3, <3>4, <3>5 DEF Cookie, Fresh
  <2>2. CASE reader[i].issued = Nothing
    <3>1. renewed = [reader[i].read EXCEPT !.error = TRUE]
      BY <2>2 DEF Renewed
    <3> HIDE DEF renewed
    <3>2. renewed \in Cookie /\ renewed.token = reader[i].read.token
          /\ renewed.expires = reader[i].read.expires
      BY <1>0, <3>1 DEF Cookie
    <3> QED BY <1>0, <2>2, <3>2 DEF Fresh
  <2> QED BY <2>1, <2>2
<1>3. /\ reader' = [reader EXCEPT ![i] = NoRead] /\ cookie' = renewed
      /\ (i = Tab /\ tabToken' = renewed.token /\ timer' = due)
         \/ (i # Tab /\ UNCHANGED <<tabToken, timer>>)
      /\ UNCHANGED <<clock, hash, login, logins, disturbed, loggedOut>>
  BY DEF refreshAccessToken, scheduleRefresh
<1>4. due \in Nat /\ clock < due
  BY <1>0, <1>2, Bounds DEF Delay, Larger
<1>5. reader[i].issued # Nothing => due + Latency < renewed.token + AccessTtl
  <2> SUFFICES ASSUME reader[i].issued # Nothing PROVE due + Latency < renewed.token + AccessTtl
    OBVIOUS
  <2> HIDE DEF renewed
  <2> QED BY <1>0, <1>2, DelayLeavesTime DEF Fresh
<1> HIDE DEF renewed, due
<1>6. /\ reader' \in [Readers -> Read] /\ reader'[i] = NoRead
      /\ \A j \in Readers : j # i => reader'[j] = reader[j]
  BY <1>0, <1>1, <1>3, OneReadMoves
<1>7. ~Busy(i)' /\ \A j \in Readers : j # i => (Busy(j)' <=> Busy(j))
  BY <1>1, <1>6 DEF Busy
<1>8. TypeOK'
  BY <1>2, <1>3, <1>4, <1>6 DEF TypeOK, Read, Cookie
<1>9. Timed'
  <2>1. timer' # Nothing => clock <= timer'
    BY <1>0, <1>3, <1>4 DEF Timed
  <2>2. \A j \in Readers : Busy(j)' => Busy(j) /\ reader'[j] = reader[j]
    BY <1>6, <1>7
  <2> QED BY <1>2, <1>3, <2>1, <2>2 DEF Timed, Fresh
<1>10. ASSUME ~disturbed' PROVE TokenKept' /\ TabRenews'
  <2>1. ~disturbed
    BY <1>3, <1>10
  <2>2. /\ reader[i].issued # Nothing /\ reader[i].issued = hash /\ login = NoLogin
        /\ \A j \in Readers : Busy(j) => j = i
    BY <1>0, <2>1 DEF TokenKept
  <2>3. \A j \in Readers : ~Busy(j)'
    BY <1>7, <2>2
  <2>4. TokenKept'
    BY <1>2, <1>3, <2>2, <2>3 DEF TokenKept
  <2>5. TabRenews'
    <3>1. ~Busy(Tab)'
      BY <2>3 DEF Readers
    <3>2. CASE i # Tab
      BY <1>0, <1>3, <2>1, <2>2, <3>1, <3>2 DEF TabRenews, Readers
    <3>3. CASE i = Tab
      <4>1. due # Nothing
        BY <1>4, Bounds
      <4> QED BY <1>2, <1>3, <1>5, <2>2, <3>1, <3>3, <4>1 DEF TabRenews
    <3> QED BY <3>2, <3>3
  <2> QED BY <2>4, <2>5
<1>11. LogoutSticks'
  BY <1>1, <1>3, <1>6 DEF LogoutSticks
<1> QED BY <1>8, <1>9, <1>10, <1>11
-----------------------------------------------------------------------------
(* The theorems.                                                           *)

\* At the start nobody is signed in.
LEMMA InitSInv == Init => SInv
<1> SUFFICES ASSUME Init PROVE SInv
  OBVIOUS
<1>1. \A i \in Readers : reader[i] = NoRead /\ ~Busy(i)
  BY DEF Init, NoRead, Busy
<1>2. TypeOK
  <2>1. 0 \in 0..MaxClock /\ 0 \in 0..MaxLogins
    BY Bounds
  <2>2. NoRead \in Read
    BY <2>1 DEF NoRead, Read
  <2>3. reader \in [Readers -> Read]
    BY <2>2 DEF Init
  <2> QED BY <2>1, <2>3 DEF Init, TypeOK, Read, NoLogin
<1>3. Timed
  BY <1>1 DEF Init, Timed
<1>4. TokenKept /\ TabRenews
  BY <1>1 DEF Init, TokenKept, TabRenews
<1>5. LogoutSticks
  BY DEF Init, LogoutSticks
<1> QED BY <1>2, <1>3, <1>4, <1>5 DEF SInv

\* A read of the session, by the tab or by another.
LEMMA JwtStep ==
    ASSUME SInv, NEW i \in Readers, jwt(i), i = Tab => timer # Nothing /\ timer <= clock
    PROVE  SInv'
BY ReuseStep, AskStep

\* Every step keeps the invariant.
LEMMA NextSInv == SInv /\ [Next]_vars => SInv'
<1> SUFFICES ASSUME SInv, [Next]_vars PROVE SInv'
  OBVIOUS
<1>1. CASE loginComplete
  BY <1>1, LoginCompleteStep
<1>2. CASE LoginElsewhere
  BY <1>2, LoginElsewhereStep
<1>3. CASE logout
  BY <1>3, LogoutStep
<1>4. CASE signIn
  BY <1>4, SignInStep
<1>5. CASE signOut
  BY <1>5, SignOutStep
<1>6. CASE TimerFires
  BY <1>6, JwtStep DEF TimerFires, Readers
<1>7. CASE PageRead
  BY <1>7, JwtStep, ReadersDiffer DEF PageRead, Readers
<1>8. CASE Tick
  BY <1>8, TickStep
<1>9. CASE \E i \in Readers : Check(i) \/ Rotate(i) \/ refreshAccessToken(i) \/ LoseAnswer(i)
  BY <1>9, CheckStep, RotateStep, RefreshStep, LoseAnswerStep
<1>10. CASE UNCHANGED vars
  <2> USE <1>10 DEF vars, browserVars
  <2>1. TypeOK' /\ LogoutSticks'
    BY DEF SInv, TypeOK, LogoutSticks
  <2>2. Timed'
    BY DEF SInv, Timed, Busy, Fresh
  <2>3. ~disturbed' => TokenKept' /\ TabRenews'
    BY DEF SInv, TokenKept, TabRenews, Busy, Settled
  <2> QED BY <2>1, <2>2, <2>3 DEF SInv
<1> QED BY <1>1, <1>2, <1>3, <1>4, <1>5, <1>6, <1>7, <1>8, <1>9, <1>10 DEF Next

\* The invariant holds: time, the place of the accepted token while nothing
\* disturbs it, the tab's renewals, and logouts.
THEOREM SessionsInvariant == Spec => []SInv
BY InitSInv, NextSInv, PTL DEF Spec

\* While no reads overlap and no answer is lost, the cookie keeps the refresh
\* token that the backend will accept next (issueTokens, refreshAccessToken).
THEOREM CookieIsAccepted == Spec => []CookieMatchesHash
<1>1. SInv => CookieMatchesHash
  BY DEF SInv, TokenKept, CookieMatchesHash
<1> QED BY <1>1, SessionsInvariant, PTL

\* An open tab never holds an expired access token: either its timer or the
\* answer it waits for comes first (use-token-refresh, the jwt callback).
THEOREM TabIsAuthenticated == Spec => []TabStaysAuthenticated
<1>1. SInv => TabStaysAuthenticated
  <2> SUFFICES ASSUME SInv, tabToken # Nothing, ~disturbed PROVE AccessValid(tabToken)
    BY DEF TabStaysAuthenticated
  <2>0. TypeOK /\ clock \in Nat /\ tabToken \in Nat
    BY StateTypes DEF SInv
  <2>1. CASE timer # Nothing
    <3>1. timer \in Nat /\ clock <= timer /\ timer + Latency < tabToken + AccessTtl
      BY <2>0, <2>1, StateTypes DEF SInv, Timed, TabRenews
    <3> QED BY <2>0, <3>1, Bounds DEF AccessValid
  <2>2. CASE Busy(Tab)
    <3>1. /\ reader[Tab].since \in Nat /\ clock <= reader[Tab].since + Latency
          /\ reader[Tab].since + Latency < tabToken + AccessTtl
      BY <2>0, <2>2, StateTypes DEF SInv, Timed, TabRenews, Readers
    <3> QED BY <2>0, <3>1, Bounds DEF AccessValid
  <2> QED BY <2>1, <2>2 DEF SInv, TabRenews
<1> QED BY <1>1, SessionsInvariant, PTL

\* A logout that no rotation overlapped leaves no hash until the next login
\* (auth.service's logout and refresh).
THEOREM LogoutIsFinal == Spec => []LogoutHolds
<1>1. SInv => LogoutHolds
  BY DEF SInv, LogoutSticks, LogoutHolds
<1> QED BY <1>1, SessionsInvariant, PTL

\* A dead session stays dead, whoever reads it, until a login: copies of the
\* cookie hold old tokens only, and those make no new ones.
LEMMA DeadStep == SInv /\ Dead /\ [Next]_vars => Dead' \/ logins' # logins
<1> SUFFICES ASSUME SInv, Dead, [Next]_vars, logins' = logins PROVE Dead'
  OBVIOUS
<1>0. TypeOK /\ login = NoLogin
  BY DEF SInv, Dead
<1>1. logins \in Nat
  BY <1>0, Bounds DEF TypeOK
<1>2. ~loginComplete /\ ~LoginElsewhere /\ ~signIn
  BY <1>0, <1>1 DEF loginComplete, LoginElsewhere, signIn, NoLogin
<1>3. CASE logout
  <2>1. \A i \in Readers : Busy(i) => reader[i].read.token # Nothing
    BY <1>0, StateTypes, Bounds DEF SInv, Timed
  <2>2. cookie # Nothing => cookie.token # Nothing
    BY <1>0, StateTypes, Bounds
  <2> QED BY <1>3, <2>1, <2>2 DEF Dead, logout, browserVars, Busy
<1>4. CASE signOut
  BY <1>4 DEF Dead, signOut, Busy
<1>5. ASSUME NEW i \in Readers, jwt(i) PROVE Dead'
  <2>1. CASE clock < cookie.expires - Margin
    BY <1>5, <2>1 DEF Dead, jwt, Busy
  <2>2. CASE ~(clock < cookie.expires - Margin)
    <3>1. cookie # Nothing /\ cookie.token # hash
          /\ UNCHANGED <<hash, cookie, login>>
      BY <1>5 DEF Dead, jwt
    <3>2. \A j \in Readers :
             reader'[j] = IF j = i THEN [pc |-> "check", read |-> cookie,
                                         issued |-> Nothing, since |-> clock]
                          ELSE reader[j]
      BY <1>0, <1>5, <2>2, StateTypes DEF jwt
    <3> QED BY <3>1, <3>2 DEF Dead, Busy
  <2> QED BY <2>1, <2>2
<1>6. CASE Tick
  BY <1>6 DEF Dead, Tick, browserVars, Busy
<1>7. ASSUME NEW i \in Readers, Check(i) PROVE Dead'
  <2>1. reader' = [reader EXCEPT ![i].pc = "answer"]
    BY <1>7 DEF Dead, Check, Busy
  <2>2. \A j \in Readers : /\ reader'[j].read = reader[j].read
                           /\ reader'[j].issued = reader[j].issued
                           /\ reader'[j].pc = IF j = i THEN "answer" ELSE reader[j].pc
    BY <1>0, <2>1, StateTypes DEF Read
  <2>3. UNCHANGED <<hash, cookie, login>>
    BY <1>7 DEF Check, browserVars
  <2>4. Busy(i)
    BY <1>7 DEF Check, Busy
  <2> QED BY <2>2, <2>3, <2>4 DEF Dead, Busy
<1>8. ASSUME NEW i \in Readers PROVE ~Rotate(i)
  BY DEF Dead, Rotate, Busy
<1>9. ASSUME NEW i \in Readers, refreshAccessToken(i) PROVE Dead'
  <2>1. /\ Busy(i) /\ cookie' = Renewed(i) /\ UNCHANGED <<hash, login>>
        /\ reader' = [reader EXCEPT ![i] = NoRead]
    BY <1>9 DEF refreshAccessToken, Busy
  <2>2. reader[i].read # Nothing /\ reader[i].read \in Cookie
    BY <1>0, <2>1, StateTypes DEF SInv, Timed
  <2>3. cookie'.token # hash
    BY <2>1, <2>2 DEF Dead, Renewed, Cookie
  <2>4. \A j \in Readers : reader'[j] = IF j = i THEN NoRead ELSE reader[j]
    BY <1>0, <2>1, StateTypes
  <2> QED BY <2>1, <2>3, <2>4 DEF Dead, Busy, NoRead
<1>10. ASSUME NEW i \in Readers, LoseAnswer(i) PROVE Dead'
  <2>1. \A j \in Readers : /\ reader'[j].read = reader[j].read
                           /\ reader'[j].issued \in {Nothing, reader[j].issued}
                           /\ reader'[j].pc = reader[j].pc
    BY <1>0, <1>10, StateTypes DEF LoseAnswer, Read
  <2>2. UNCHANGED <<hash, cookie, login>>
    BY <1>10 DEF LoseAnswer, browserVars
  <2> QED BY <2>1, <2>2 DEF Dead, Busy
<1>11. CASE UNCHANGED vars
  BY <1>11 DEF Dead, vars, browserVars, Busy
<1> QED BY <1>2, <1>3, <1>4, <1>5, <1>6, <1>7, <1>8, <1>9, <1>10, <1>11
        DEF Next, TimerFires, PageRead, Readers

\* A session that lost its token never comes back by itself (refresh, auth.ts).
THEOREM DeadIsDead == Spec => DeadStaysDead
<1>1. SInv /\ [Next]_vars => [Dead => Dead' \/ logins' # logins]_vars
  BY DeadStep
<1> QED BY <1>1, SessionsInvariant, PTL DEF Spec, DeadStaysDead

-----------------------------------------------------------------------------
(*****************************************************************************)
(* Verification, for any number of pages, intervals, requests, reviews       *)
(* and failures: a flow that was started has its profile, and is the         *)
(* user's own; a dismissal of the banner ends with what it was about.        *)
(*****************************************************************************)

\* What a page has reached, it has reached in order: the questionnaire is saved
\* before the SDK opens, and before a token is asked for.
AskedInOrder ==
    /\ submit # "none" => page \in Flows
    /\ submit = "refetch" => profile[page]
    /\ phase # "questionnaire" => page \in Flows /\ profile[page]
    /\ \A f \in Flows : call[f] # Missing => profile[f]

\* The KYC page, and so its endpoint, is used by who has a KYC; the KYB endpoint
\* sees to it itself.
InOwnFlow ==
    /\ page = "KYC" => role # "SHIPPING_COMPANY"
    /\ call["KYC"] # Missing => role # "SHIPPING_COMPANY"
    /\ \A f \in Flows : call[f] \in Statuses => f = own

\* Sumsub reports on a flow that was started.
ReviewsFollow ==
    /\ hook => status[own] # "NOT_STARTED"
    /\ review # "NOT_STARTED"

\* What the local storage remembers ends when COMPLETED is shown.
DismissedUnseen == recalled => ~seen

\* The inductive invariant of verification.
OInv ==
    /\ OnboardingTypeOK /\ AskedInOrder /\ InOwnFlow /\ ReviewsFollow /\ DismissedUnseen
    /\ ProfileBeforeVerification /\ FlowOfRole /\ DismissalExpires

USE DEF dbVars, sumsubVars, meVars, pageVars, tokenVars, bannerVars

\* The backend's answer to GET /auth/me is not shown yet.
LEMMA GetMeStep ==
    ASSUME OInv, getMe
    PROVE  OInv'
<1> USE DEF OInv
<1>1. OnboardingTypeOK'
  BY OnboardingBounds DEF OnboardingTypeOK, Readings, Statuses, Flows, own, getMe
<1>2. AskedInOrder'
  BY AnswersDiffer DEF OnboardingTypeOK, Readings, Flows, AskedInOrder, getMe
<1>3. InOwnFlow' /\ ReviewsFollow'
  BY AnswersDiffer
     DEF OnboardingTypeOK, Readings, Flows, Statuses, own, InOwnFlow, ReviewsFollow,
         getMe
<1>4. ProfileBeforeVerification' /\ FlowOfRole'
  BY AnswersDiffer
     DEF OnboardingTypeOK, Readings, Flows, Statuses, own, AskedInOrder, InOwnFlow,
         ReviewsFollow, ProfileBeforeVerification, FlowOfRole, getMe
<1>5. DismissedUnseen' /\ DismissalExpires'
  BY DEF OnboardingTypeOK, DismissedUnseen, DismissalExpires, getMe
<1> QED BY <1>1, <1>2, <1>3, <1>4, <1>5

\* The answer goes to the cache, ends the questionnaire's await and may forget
\* a dismissal.
LEMMA MeArrivesStep ==
    ASSUME OInv, MeArrives
    PROVE  OInv'
<1> USE DEF OInv
<1>1. OnboardingTypeOK'
  BY OnboardingBounds
     DEF OnboardingTypeOK, Readings, Statuses, Flows, own, MeArrives, Resume, effect,
         NowVerified
<1>2. AskedInOrder'
  BY AnswersDiffer
     DEF OnboardingTypeOK, Readings, Flows, AskedInOrder, MeArrives, Resume, effect,
         NowVerified
<1>3. InOwnFlow' /\ ReviewsFollow'
  BY AnswersDiffer
     DEF OnboardingTypeOK, Readings, Flows, Statuses, own, InOwnFlow, ReviewsFollow,
         MeArrives, Resume, effect, NowVerified
<1>4. ProfileBeforeVerification' /\ FlowOfRole'
  BY AnswersDiffer
     DEF OnboardingTypeOK, Readings, Flows, Statuses, own, AskedInOrder, InOwnFlow,
         ReviewsFollow, ProfileBeforeVerification, FlowOfRole, MeArrives, Resume,
         effect, NowVerified
<1>5. DismissedUnseen' /\ DismissalExpires'
  BY
     DEF OnboardingTypeOK, DismissedUnseen, DismissalExpires, MeArrives, Resume,
         effect, NowVerified
<1> QED BY <1>1, <1>2, <1>3, <1>4, <1>5

\* A failed refetch ends the await as well: the profile was saved before it.
LEMMA MeFailsStep ==
    ASSUME OInv, MeFails
    PROVE  OInv'
<1> USE DEF OInv
<1>1. OnboardingTypeOK'
  BY OnboardingBounds
     DEF OnboardingTypeOK, Readings, Statuses, Flows, own, MeFails, Resume, Failure
<1>2. AskedInOrder'
  BY AnswersDiffer
     DEF OnboardingTypeOK, Readings, Flows, AskedInOrder, MeFails, Resume, Failure
<1>3. InOwnFlow' /\ ReviewsFollow'
  BY AnswersDiffer
     DEF OnboardingTypeOK, Readings, Flows, Statuses, own, InOwnFlow, ReviewsFollow,
         MeFails, Resume, Failure
<1>4. ProfileBeforeVerification' /\ FlowOfRole'
  BY AnswersDiffer
     DEF OnboardingTypeOK, Readings, Flows, Statuses, own, AskedInOrder, InOwnFlow,
         ReviewsFollow, ProfileBeforeVerification, FlowOfRole, MeFails, Resume,
         Failure
<1>5. DismissedUnseen' /\ DismissalExpires'
  BY DEF OnboardingTypeOK, DismissedUnseen, DismissalExpires, MeFails, Resume, Failure
<1> QED BY <1>1, <1>2, <1>3, <1>4, <1>5

\* A poll refetches, whatever page is open by now.
LEMMA PollStep ==
    ASSUME OInv, NEW i \in Timers, Poll(i)
    PROVE  OInv'
<1> USE DEF OInv
<1>1. OnboardingTypeOK'
  BY OnboardingBounds
     DEF OnboardingTypeOK, Readings, Statuses, Flows, own, Poll, Refetch, Resume
<1>2. AskedInOrder'
  BY AnswersDiffer
     DEF OnboardingTypeOK, Readings, Flows, AskedInOrder, Poll, Refetch, Resume
<1>3. InOwnFlow' /\ ReviewsFollow'
  BY AnswersDiffer
     DEF OnboardingTypeOK, Readings, Flows, Statuses, own, InOwnFlow, ReviewsFollow,
         Poll, Refetch, Resume
<1>4. ProfileBeforeVerification' /\ FlowOfRole'
  BY AnswersDiffer
     DEF OnboardingTypeOK, Readings, Flows, Statuses, own, AskedInOrder, InOwnFlow,
         ReviewsFollow, ProfileBeforeVerification, FlowOfRole, Poll, Refetch, Resume
<1>5. DismissedUnseen' /\ DismissalExpires'
  BY DEF OnboardingTypeOK, DismissedUnseen, DismissalExpires, Poll, Refetch, Resume
<1> QED BY <1>1, <1>2, <1>3, <1>4, <1>5

\* A message of the SDK starts an interval.
LEMMA OnMessageStep ==
    ASSUME OInv, NEW i \in Timers, onMessage(i)
    PROVE  OInv'
<1> USE DEF OInv
<1>1. OnboardingTypeOK'
  <2>1. timers' \in [Timers -> 0..Attempts]
    BY OnboardingBounds DEF OnboardingTypeOK, onMessage
  <2> QED BY <2>1 DEF OnboardingTypeOK, onMessage
<1>2. AskedInOrder'
  BY AnswersDiffer
     DEF OnboardingTypeOK, Readings, Flows, AskedInOrder, onMessage, SdkOpen
<1>3. InOwnFlow' /\ ReviewsFollow'
  BY AnswersDiffer
     DEF OnboardingTypeOK, Readings, Flows, Statuses, own, InOwnFlow, ReviewsFollow,
         onMessage, SdkOpen
<1>4. ProfileBeforeVerification' /\ FlowOfRole'
  BY AnswersDiffer
     DEF OnboardingTypeOK, Readings, Flows, Statuses, own, AskedInOrder, InOwnFlow,
         ReviewsFollow, ProfileBeforeVerification, FlowOfRole, onMessage, SdkOpen
<1>5. DismissedUnseen' /\ DismissalExpires'
  BY DEF OnboardingTypeOK, DismissedUnseen, DismissalExpires, onMessage, SdkOpen
<1> QED BY <1>1, <1>2, <1>3, <1>4, <1>5

\* A page opens at its questionnaire; a shipping company's KYC page is its KYB
\* page. What is left behind may still save a profile, and never loses one.
LEMMA VisitStep ==
    ASSUME OInv, NEW p \in Flows \cup {"elsewhere"}, Visit(p)
    PROVE  OInv'
<1> USE DEF OInv
<1>1. OnboardingTypeOK'
  <2>1. profile' \in [Flows -> BOOLEAN]
    BY DEF OnboardingTypeOK, Visit, LeftBehind
  <2>2. mounts' \in 0..MaxMounts
    BY OnboardingBounds DEF OnboardingTypeOK, Visit
  <2>3. page' \in Flows \cup {"elsewhere"}
    BY DEF Visit, landing, Flows
  <2>4. fetch' \in Readings \cup {Missing, Asked}
    BY DEF OnboardingTypeOK, Visit, Mounted
  <2> QED BY <2>1, <2>2, <2>3, <2>4 DEF OnboardingTypeOK, Visit
<1>2. AskedInOrder'
  BY AnswersDiffer
     DEF OnboardingTypeOK, Readings, Flows, AskedInOrder, Visit, LeftBehind, landing,
         Mounted
<1>3. InOwnFlow' /\ ReviewsFollow'
  BY AnswersDiffer
     DEF OnboardingTypeOK, Readings, Flows, Statuses, own, InOwnFlow, ReviewsFollow,
         Visit, LeftBehind, landing, Mounted
<1>4. ProfileBeforeVerification' /\ FlowOfRole'
  BY AnswersDiffer
     DEF OnboardingTypeOK, Readings, Flows, Statuses, own, AskedInOrder, InOwnFlow,
         ReviewsFollow, ProfileBeforeVerification, FlowOfRole, Visit, LeftBehind,
         landing, Mounted
<1>5. DismissedUnseen' /\ DismissalExpires'
  BY
     DEF OnboardingTypeOK, DismissedUnseen, DismissalExpires, Visit, LeftBehind,
         landing, Mounted
<1> QED BY <1>1, <1>2, <1>3, <1>4, <1>5

\* A load forgets what the components knew and takes the dismissal from the
\* local storage, where it is only as long as COMPLETED was not shown.
LEMMA LoadStep ==
    ASSUME OInv, NEW again \in BOOLEAN, Load(again)
    PROVE  OInv'
<1> USE DEF OInv
<1>1. OnboardingTypeOK'
  <2>1. profile' \in [Flows -> BOOLEAN]
    BY DEF OnboardingTypeOK, Load, LeftBehind
  <2>2. mounts' \in 0..MaxMounts
    BY OnboardingBounds DEF OnboardingTypeOK, Load
  <2>3. session' \in Readings
    BY DEF OnboardingTypeOK, Load, completeLogin, Readings, Flows, Statuses
  <2>4. {recalled', dismissed', seen', ended'} \subseteq BOOLEAN
    BY DEF OnboardingTypeOK, Load, BannerMounts, effect
  <2>5. /\ token' \in [Flows -> {"none", "loading", "ready", "error"}]
        /\ timers' \in [Timers -> 0..Attempts]
    BY OnboardingBounds DEF Load
  <2> QED BY <2>1, <2>2, <2>3, <2>4, <2>5 DEF OnboardingTypeOK, Load
<1>2. AskedInOrder'
  BY AnswersDiffer
     DEF OnboardingTypeOK, Readings, Flows, AskedInOrder, Load, LeftBehind, completeLogin,
         BannerMounts, effect, NowVerified
<1>3. InOwnFlow' /\ ReviewsFollow'
  BY AnswersDiffer
     DEF OnboardingTypeOK, Readings, Flows, Statuses, own, InOwnFlow, ReviewsFollow,
         Load, LeftBehind, completeLogin, BannerMounts, effect, NowVerified
<1>4. ProfileBeforeVerification' /\ FlowOfRole'
  BY AnswersDiffer
     DEF OnboardingTypeOK, Readings, Flows, Statuses, own, AskedInOrder, InOwnFlow,
         ReviewsFollow, ProfileBeforeVerification, FlowOfRole, Load, LeftBehind,
         completeLogin, BannerMounts, effect, NowVerified
<1>5. DismissedUnseen' /\ DismissalExpires'
  BY
     DEF OnboardingTypeOK, DismissedUnseen, DismissalExpires, Load, LeftBehind,
         completeLogin, BannerMounts, effect, NowVerified
<1> QED BY <1>1, <1>2, <1>3, <1>4, <1>5

\* A login that navigates keeps the cache, and takes the dismissal from the local
\* storage as well.
LEMMA LoginStep ==
    ASSUME OInv, Login
    PROVE  OInv'
<1> USE DEF OInv
<1>1. OnboardingTypeOK'
  <2>1. profile' \in [Flows -> BOOLEAN]
    BY DEF OnboardingTypeOK, Login, LeftBehind
  <2>2. mounts' \in 0..MaxMounts
    BY OnboardingBounds DEF OnboardingTypeOK, Login
  <2>3. session' \in Readings
    BY DEF OnboardingTypeOK, Login, completeLogin, Readings, Flows, Statuses
  <2>4. {recalled', dismissed', seen', ended'} \subseteq BOOLEAN
    BY DEF OnboardingTypeOK, Login, BannerMounts, effect
  <2>5. fetch' \in Readings \cup {Missing, Asked}
    BY DEF OnboardingTypeOK, Login, Mounted
  <2> QED BY <2>1, <2>2, <2>3, <2>4, <2>5 DEF OnboardingTypeOK, Login
<1>2. AskedInOrder'
  BY AnswersDiffer
     DEF OnboardingTypeOK, Readings, Flows, AskedInOrder, Login, LeftBehind, Mounted, completeLogin,
         BannerMounts, effect, NowVerified
<1>3. InOwnFlow' /\ ReviewsFollow'
  BY AnswersDiffer
     DEF OnboardingTypeOK, Readings, Flows, Statuses, own, InOwnFlow, ReviewsFollow,
         Login, LeftBehind, Mounted, completeLogin, BannerMounts, effect, NowVerified
<1>4. ProfileBeforeVerification' /\ FlowOfRole'
  BY AnswersDiffer
     DEF OnboardingTypeOK, Readings, Flows, Statuses, own, AskedInOrder, InOwnFlow,
         ReviewsFollow, ProfileBeforeVerification, FlowOfRole, Login, LeftBehind, Mounted,
         completeLogin, BannerMounts, effect, NowVerified
<1>5. DismissedUnseen' /\ DismissalExpires'
  BY
     DEF OnboardingTypeOK, DismissedUnseen, DismissalExpires, Login, LeftBehind, Mounted,
         completeLogin, BannerMounts, effect, NowVerified
<1> QED BY <1>1, <1>2, <1>3, <1>4, <1>5

\* The close button starts the dismissal anew.
LEMMA DismissStep ==
    ASSUME OInv, Dismiss
    PROVE  OInv'
<1> USE DEF OInv
<1>1. OnboardingTypeOK'
  <2>1. {recalled', dismissed', seen', ended'} \subseteq BOOLEAN
    BY DEF Dismiss
  <2> QED BY <2>1 DEF OnboardingTypeOK, Dismiss
<1>2. AskedInOrder'
  BY AnswersDiffer DEF OnboardingTypeOK, Readings, Flows, AskedInOrder, Dismiss
<1>3. InOwnFlow' /\ ReviewsFollow'
  BY AnswersDiffer
     DEF OnboardingTypeOK, Readings, Flows, Statuses, own, InOwnFlow, ReviewsFollow,
         Dismiss
<1>4. ProfileBeforeVerification' /\ FlowOfRole'
  BY AnswersDiffer
     DEF OnboardingTypeOK, Readings, Flows, Statuses, own, AskedInOrder, InOwnFlow,
         ReviewsFollow, ProfileBeforeVerification, FlowOfRole, Dismiss
<1>5. DismissedUnseen' /\ DismissalExpires'
  BY DEF OnboardingTypeOK, DismissedUnseen, DismissalExpires, Dismiss
<1> QED BY <1>1, <1>2, <1>3, <1>4, <1>5

\* The questionnaire is sent from an open page.
LEMMA OnCompleteStep ==
    ASSUME OInv, onComplete
    PROVE  OInv'
<1> USE DEF OInv
<1>1. OnboardingTypeOK'
  BY OnboardingBounds DEF OnboardingTypeOK, Readings, Statuses, Flows, own, onComplete
<1>2. AskedInOrder'
  BY AnswersDiffer DEF OnboardingTypeOK, Readings, Flows, AskedInOrder, onComplete
<1>3. InOwnFlow' /\ ReviewsFollow'
  BY AnswersDiffer
     DEF OnboardingTypeOK, Readings, Flows, Statuses, own, InOwnFlow, ReviewsFollow,
         onComplete
<1>4. ProfileBeforeVerification' /\ FlowOfRole'
  BY AnswersDiffer
     DEF OnboardingTypeOK, Readings, Flows, Statuses, own, AskedInOrder, InOwnFlow,
         ReviewsFollow, ProfileBeforeVerification, FlowOfRole, onComplete
<1>5. DismissedUnseen' /\ DismissalExpires'
  BY DEF OnboardingTypeOK, DismissedUnseen, DismissalExpires, onComplete
<1> QED BY <1>1, <1>2, <1>3, <1>4, <1>5

\* The profile of the page's flow is saved before anything goes on.
LEMMA SubmitQuestionnaireStep ==
    ASSUME OInv, submitQuestionnaire
    PROVE  OInv'
<1> USE DEF OInv
<1>1. OnboardingTypeOK'
  <2>1. profile' \in [Flows -> BOOLEAN]
    BY DEF OnboardingTypeOK, submitQuestionnaire
  <2>2. fetch' \in Readings \cup {Missing, Asked}
    BY DEF OnboardingTypeOK, submitQuestionnaire, Refetch
  <2> QED BY <2>1, <2>2 DEF OnboardingTypeOK, submitQuestionnaire
<1>2. AskedInOrder'
  BY AnswersDiffer
     DEF OnboardingTypeOK, Readings, Flows, AskedInOrder, submitQuestionnaire, Refetch
<1>3. InOwnFlow' /\ ReviewsFollow'
  BY AnswersDiffer
     DEF OnboardingTypeOK, Readings, Flows, Statuses, own, InOwnFlow, ReviewsFollow,
         submitQuestionnaire, Refetch
<1>4. ProfileBeforeVerification' /\ FlowOfRole'
  BY AnswersDiffer
     DEF OnboardingTypeOK, Readings, Flows, Statuses, own, AskedInOrder, InOwnFlow,
         ReviewsFollow, ProfileBeforeVerification, FlowOfRole, submitQuestionnaire,
         Refetch
<1>5. DismissedUnseen' /\ DismissalExpires'
  BY
     DEF OnboardingTypeOK, DismissedUnseen, DismissalExpires, submitQuestionnaire,
         Refetch
<1> QED BY <1>1, <1>2, <1>3, <1>4, <1>5

\* After an error the page stays where it is.
LEMMA SubmitFailsStep ==
    ASSUME OInv, submitFails
    PROVE  OInv'
<1> USE DEF OInv
<1>1. OnboardingTypeOK'
  <2>1. profile' \in [Flows -> BOOLEAN]
    BY DEF OnboardingTypeOK, submitFails, LeftBehind
  <2>2. failures' \in 0..MaxFailures
    BY OnboardingBounds DEF OnboardingTypeOK, submitFails, Failure
  <2> QED BY <2>1, <2>2 DEF OnboardingTypeOK, submitFails
<1>2. AskedInOrder'
  BY AnswersDiffer
     DEF OnboardingTypeOK, Readings, Flows, AskedInOrder, submitFails, LeftBehind,
         Failure
<1>3. InOwnFlow' /\ ReviewsFollow'
  BY AnswersDiffer
     DEF OnboardingTypeOK, Readings, Flows, Statuses, own, InOwnFlow, ReviewsFollow,
         submitFails, LeftBehind, Failure
<1>4. ProfileBeforeVerification' /\ FlowOfRole'
  BY AnswersDiffer
     DEF OnboardingTypeOK, Readings, Flows, Statuses, own, AskedInOrder, InOwnFlow,
         ReviewsFollow, ProfileBeforeVerification, FlowOfRole, submitFails,
         LeftBehind, Failure
<1>5. DismissedUnseen' /\ DismissalExpires'
  BY
     DEF OnboardingTypeOK, DismissedUnseen, DismissalExpires, submitFails,
         LeftBehind, Failure
<1> QED BY <1>1, <1>2, <1>3, <1>4, <1>5

\* The SDK comes after "profile saved".
LEMMA StartVerificationStep ==
    ASSUME OInv, StartVerification
    PROVE  OInv'
<1> USE DEF OInv
<1>1. OnboardingTypeOK'
  BY OnboardingBounds
     DEF OnboardingTypeOK, Readings, Statuses, Flows, own, StartVerification
<1>2. AskedInOrder'
  BY AnswersDiffer
     DEF OnboardingTypeOK, Readings, Flows, AskedInOrder, StartVerification
<1>3. InOwnFlow' /\ ReviewsFollow'
  BY AnswersDiffer
     DEF OnboardingTypeOK, Readings, Flows, Statuses, own, InOwnFlow, ReviewsFollow,
         StartVerification
<1>4. ProfileBeforeVerification' /\ FlowOfRole'
  BY AnswersDiffer
     DEF OnboardingTypeOK, Readings, Flows, Statuses, own, AskedInOrder, InOwnFlow,
         ReviewsFollow, ProfileBeforeVerification, FlowOfRole, StartVerification
<1>5. DismissedUnseen' /\ DismissalExpires'
  BY DEF OnboardingTypeOK, DismissedUnseen, DismissalExpires, StartVerification
<1> QED BY <1>1, <1>2, <1>3, <1>4, <1>5

\* A token is asked for by a page that has its profile.
LEMMA GetAccessTokenStep ==
    ASSUME OInv, getAccessToken
    PROVE  OInv'
<1> USE DEF OInv
<1>1. OnboardingTypeOK'
  <2>1. call' \in [Flows -> {Missing, Asked} \cup Statuses]
    BY DEF OnboardingTypeOK, getAccessToken
  <2>2. token' \in [Flows -> {"none", "loading", "ready", "error"}]
    BY DEF OnboardingTypeOK, getAccessToken
  <2>3. tokens' \in 0..MaxTokens
    BY OnboardingBounds DEF OnboardingTypeOK, getAccessToken
  <2> QED BY <2>1, <2>2, <2>3 DEF OnboardingTypeOK, getAccessToken
<1>2. AskedInOrder'
  BY AnswersDiffer DEF OnboardingTypeOK, Readings, Flows, AskedInOrder, getAccessToken
<1>3. InOwnFlow' /\ ReviewsFollow'
  BY AnswersDiffer
     DEF OnboardingTypeOK, Readings, Flows, Statuses, own, InOwnFlow, ReviewsFollow,
         getAccessToken
<1>4. ProfileBeforeVerification' /\ FlowOfRole'
  BY AnswersDiffer
     DEF OnboardingTypeOK, Readings, Flows, Statuses, own, AskedInOrder, InOwnFlow,
         ReviewsFollow, ProfileBeforeVerification, FlowOfRole, getAccessToken
<1>5. DismissedUnseen' /\ DismissalExpires'
  BY DEF OnboardingTypeOK, DismissedUnseen, DismissalExpires, getAccessToken
<1> QED BY <1>1, <1>2, <1>3, <1>4, <1>5

\* The KYB endpoint refuses every other role, and no investor's request is left
\* for the KYC endpoint to take for a shipping company's.
LEMMA ReadUserStep ==
    ASSUME OInv, NEW f \in Flows, ReadUser(f)
    PROVE  OInv'
<1> USE DEF OInv
<1>1. OnboardingTypeOK'
  BY OnboardingBounds
     DEF OnboardingTypeOK, Readings, Statuses, Flows, own, ReadUser, Refused, Answered
<1>2. AskedInOrder'
  BY AnswersDiffer
     DEF OnboardingTypeOK, Readings, Flows, AskedInOrder, ReadUser, Refused, Answered
<1>3. InOwnFlow' /\ ReviewsFollow'
  BY AnswersDiffer
     DEF OnboardingTypeOK, Readings, Flows, Statuses, own, InOwnFlow, ReviewsFollow,
         ReadUser, Refused, Answered
<1>4. ProfileBeforeVerification' /\ FlowOfRole'
  BY AnswersDiffer
     DEF OnboardingTypeOK, Readings, Flows, Statuses, own, AskedInOrder, InOwnFlow,
         ReviewsFollow, ProfileBeforeVerification, FlowOfRole, ReadUser, Refused,
         Answered
<1>5. DismissedUnseen' /\ DismissalExpires'
  BY
     DEF OnboardingTypeOK, DismissedUnseen, DismissalExpires, ReadUser, Refused,
         Answered
<1> QED BY <1>1, <1>2, <1>3, <1>4, <1>5

\* The first token starts the flow it was asked for.
LEMMA GenerateAccessTokenStep ==
    ASSUME OInv, NEW f \in Flows, generateAccessToken(f)
    PROVE  OInv'
<1> USE DEF OInv
<1>1. OnboardingTypeOK'
  BY OnboardingBounds
     DEF OnboardingTypeOK, Readings, Statuses, Flows, own, generateAccessToken,
         Started, Answered
<1>2. AskedInOrder'
  BY AnswersDiffer
     DEF OnboardingTypeOK, Readings, Flows, AskedInOrder, generateAccessToken,
         Started, Answered
<1>3. InOwnFlow' /\ ReviewsFollow'
  BY AnswersDiffer
     DEF OnboardingTypeOK, Readings, Flows, Statuses, own, InOwnFlow, ReviewsFollow,
         generateAccessToken, Started, Answered
<1>4. ProfileBeforeVerification' /\ FlowOfRole'
  BY AnswersDiffer
     DEF OnboardingTypeOK, Readings, Flows, Statuses, own, AskedInOrder, InOwnFlow,
         ReviewsFollow, ProfileBeforeVerification, FlowOfRole, generateAccessToken,
         Started, Answered
<1>5. DismissedUnseen' /\ DismissalExpires'
  BY
     DEF OnboardingTypeOK, DismissedUnseen, DismissalExpires, generateAccessToken,
         Started, Answered
<1> QED BY <1>1, <1>2, <1>3, <1>4, <1>5

\* A call that failed may have started the flow as well.
LEMMA TokenFailsStep ==
    ASSUME OInv, NEW f \in Flows, tokenFails(f)
    PROVE  OInv'
<1> USE DEF OInv
<1>1. OnboardingTypeOK'
  BY OnboardingBounds
     DEF OnboardingTypeOK, Readings, Statuses, Flows, own, tokenFails, Started,
         Answered, Failure
<1>2. AskedInOrder'
  BY AnswersDiffer
     DEF OnboardingTypeOK, Readings, Flows, AskedInOrder, tokenFails, Started,
         Answered, Failure
<1>3. InOwnFlow' /\ ReviewsFollow'
  BY AnswersDiffer
     DEF OnboardingTypeOK, Readings, Flows, Statuses, own, InOwnFlow, ReviewsFollow,
         tokenFails, Started, Answered, Failure
<1>4. ProfileBeforeVerification' /\ FlowOfRole'
  BY AnswersDiffer
     DEF OnboardingTypeOK, Readings, Flows, Statuses, own, AskedInOrder, InOwnFlow,
         ReviewsFollow, ProfileBeforeVerification, FlowOfRole, tokenFails, Started,
         Answered, Failure
<1>5. DismissedUnseen' /\ DismissalExpires'
  BY
     DEF OnboardingTypeOK, DismissedUnseen, DismissalExpires, tokenFails, Started,
         Answered, Failure
<1> QED BY <1>1, <1>2, <1>3, <1>4, <1>5

\* Sumsub reviews a flow that was started.
LEMMA ReviewStep ==
    ASSUME OInv, NEW new \in Statuses, Review(new)
    PROVE  OInv'
<1> USE DEF OInv
<1>1. OnboardingTypeOK'
  BY OnboardingBounds
     DEF OnboardingTypeOK, Readings, Statuses, Flows, own, Review, Follows, SdkOpen
<1>2. AskedInOrder'
  BY AnswersDiffer
     DEF OnboardingTypeOK, Readings, Flows, AskedInOrder, Review, Follows, SdkOpen
<1>3. InOwnFlow' /\ ReviewsFollow'
  BY AnswersDiffer
     DEF OnboardingTypeOK, Readings, Flows, Statuses, own, InOwnFlow, ReviewsFollow,
         Review, Follows, SdkOpen
<1>4. ProfileBeforeVerification' /\ FlowOfRole'
  BY AnswersDiffer
     DEF OnboardingTypeOK, Readings, Flows, Statuses, own, AskedInOrder, InOwnFlow,
         ReviewsFollow, ProfileBeforeVerification, FlowOfRole, Review, Follows,
         SdkOpen
<1>5. DismissedUnseen' /\ DismissalExpires'
  BY DEF OnboardingTypeOK, DismissedUnseen, DismissalExpires, Review, Follows, SdkOpen
<1> QED BY <1>1, <1>2, <1>3, <1>4, <1>5

\* A webhook writes to a flow that was started.
LEMMA HandleWebhookStep ==
    ASSUME OInv, handleWebhook
    PROVE  OInv'
<1> USE DEF OInv
<1>1. OnboardingTypeOK'
  <2>1. status' \in Readings
    BY DEF OnboardingTypeOK, Readings, own, Flows, handleWebhook
  <2>2. hook' \in BOOLEAN
    BY DEF handleWebhook
  <2> QED BY <2>1, <2>2 DEF OnboardingTypeOK, handleWebhook
<1>2. AskedInOrder'
  BY AnswersDiffer DEF OnboardingTypeOK, Readings, Flows, AskedInOrder, handleWebhook
<1>3. InOwnFlow' /\ ReviewsFollow'
  BY AnswersDiffer
     DEF OnboardingTypeOK, Readings, Flows, Statuses, own, InOwnFlow, ReviewsFollow,
         handleWebhook
<1>4. ProfileBeforeVerification' /\ FlowOfRole'
  BY AnswersDiffer
     DEF OnboardingTypeOK, Readings, Flows, Statuses, own, AskedInOrder, InOwnFlow,
         ReviewsFollow, ProfileBeforeVerification, FlowOfRole, handleWebhook
<1>5. DismissedUnseen' /\ DismissalExpires'
  BY DEF OnboardingTypeOK, DismissedUnseen, DismissalExpires, handleWebhook
<1> QED BY <1>1, <1>2, <1>3, <1>4, <1>5

\* Every reachable state of verification satisfies OInv.
THEOREM OnboardingInvariant == OnboardingSpec => []OInv
<1>1. OnboardingInit => OInv
  <2> SUFFICES ASSUME OnboardingInit PROVE OInv
    OBVIOUS
  <2>1. OnboardingTypeOK
    <3>1. status \in Readings /\ session \in Readings
      BY DEF OnboardingInit, Readings, Statuses, Flows
    <3>2. /\ call \in [Flows -> {Missing, Asked} \cup Statuses]
          /\ profile \in [Flows -> BOOLEAN]
          /\ token \in [Flows -> {"none", "loading", "ready", "error"}]
      BY DEF OnboardingInit
    <3>3. timers \in [Timers -> 0..Attempts]
      BY OnboardingBounds DEF OnboardingInit
    <3>4. {recalled, dismissed, seen, ended} \subseteq BOOLEAN
      BY DEF OnboardingInit
    <3>5. /\ mounts \in 0..MaxMounts /\ reviews \in 0..MaxReviews
          /\ tokens \in 0..MaxTokens /\ failures \in 0..MaxFailures
      BY OnboardingBounds DEF OnboardingInit
    <3> QED
      BY <3>1, <3>2, <3>3, <3>4, <3>5
         DEF OnboardingInit, OnboardingTypeOK, Statuses, Flows
  <2>2. AskedInOrder /\ InOwnFlow /\ ReviewsFollow /\ DismissedUnseen
    BY AnswersDiffer
       DEF OnboardingInit, AskedInOrder, InOwnFlow, ReviewsFollow, DismissedUnseen, Flows
  <2>3. ProfileBeforeVerification /\ FlowOfRole /\ DismissalExpires
    BY DEF OnboardingInit, ProfileBeforeVerification, FlowOfRole, DismissalExpires
  <2> QED BY <2>1, <2>2, <2>3 DEF OInv
<1>2. OInv /\ [OnboardingNext]_onboardingVars => OInv'
  <2> SUFFICES ASSUME OInv, [OnboardingNext]_onboardingVars PROVE OInv'
    OBVIOUS
  <2>1. CASE getMe \/ MeArrives \/ MeFails
    BY <2>1, GetMeStep, MeArrivesStep, MeFailsStep
  <2>2. CASE \E i \in Timers : Poll(i) \/ onMessage(i)
    BY <2>2, PollStep, OnMessageStep
  <2>3. CASE \E p \in Flows \cup {"elsewhere"} : Visit(p)
    BY <2>3, VisitStep
  <2>4. CASE \E again \in BOOLEAN : Load(again)
    BY <2>4, LoadStep
  <2>5. CASE Login \/ Dismiss \/ onComplete \/ submitQuestionnaire
    BY <2>5, LoginStep, DismissStep, OnCompleteStep, SubmitQuestionnaireStep
  <2>6. CASE submitFails \/ StartVerification \/ getAccessToken
    BY <2>6, SubmitFailsStep, StartVerificationStep, GetAccessTokenStep
  <2>7. CASE \E f \in Flows : ReadUser(f) \/ generateAccessToken(f) \/ tokenFails(f)
    BY <2>7, ReadUserStep, GenerateAccessTokenStep, TokenFailsStep
  <2>8. CASE (\E new \in Statuses : Review(new)) \/ handleWebhook
    BY <2>8, ReviewStep, HandleWebhookStep
  <2>9. CASE UNCHANGED onboardingVars
    <3> USE DEF OInv
    <3>1. OnboardingTypeOK'
      BY <2>9 DEF onboardingVars, OnboardingTypeOK
    <3>2. AskedInOrder' /\ InOwnFlow' /\ ReviewsFollow' /\ DismissedUnseen'
      BY <2>9
         DEF onboardingVars, AskedInOrder, InOwnFlow, ReviewsFollow, DismissedUnseen, own
    <3>3. ProfileBeforeVerification' /\ FlowOfRole' /\ DismissalExpires'
      BY <2>9
         DEF onboardingVars, ProfileBeforeVerification, FlowOfRole, DismissalExpires, own
    <3> QED BY <3>1, <3>2, <3>3
  <2> QED
    BY <2>1, <2>2, <2>3, <2>4, <2>5, <2>6, <2>7, <2>8, <2>9 DEF OnboardingNext
<1> QED BY <1>1, <1>2, PTL DEF OnboardingSpec

\* "Presented before KYC verification": a flow the backend has started has its
\* profile saved, whatever is lost, reloaded or left behind.
THEOREM ProfileComesFirst == OnboardingSpec => []ProfileBeforeVerification
<1>1. OInv => ProfileBeforeVerification
  BY DEF OInv
<1> QED BY <1>1, OnboardingInvariant, PTL

\* Nobody's verification of the other role's kind is ever started.
THEOREM OnlyOwnFlow == OnboardingSpec => []FlowOfRole
<1>1. OInv => FlowOfRole
  BY DEF OInv
<1> QED BY <1>1, OnboardingInvariant, PTL

\* A banner closed before the user was seen verified opens again at the next load
\* after that.
THEOREM DismissalEnds == OnboardingSpec => []DismissalExpires
<1>1. OInv => DismissalExpires
  BY DEF OInv
<1> QED BY <1>1, OnboardingInvariant, PTL

HIDE DEF dbVars, sumsubVars, meVars, pageVars, tokenVars, bannerVars

-----------------------------------------------------------------------------
(*****************************************************************************)
(* Issuing, for any number of tabs, records and failures: what is created    *)
(* though its flow reports an error costs a failed call each, and without    *)
(* one not every flow fails.                                                 *)
(*****************************************************************************)

\* A flow that has its record and has not created its offering.
Uncreated(t) == flow[t].pc \in {"documents", "approve", "approving", "prepare", "creating"}

\* Every flow has a record of its own, with the terms it was started with: no other
\* flow has it, nobody gave it up, and it is created on chain by this flow or never.
\* What the network may still apply belongs to flows that gave up.
OwnRecords ==
    /\ \A t \in Tabs : flow[t].rwa = None <=> flow[t].pc \in {"idle", "create"}
    /\ \A t \in Tabs : flow[t].pc = "create" => flow[t].terms \in Terms
    /\ \A t \in Tabs : flow[t].rwa # None =>
          /\ record[flow[t].rwa] # None /\ flow[t].terms = TermsOf(flow[t].rwa)
          /\ flow[t].rwa \notin gaveUp
    /\ \A t, u \in Tabs : flow[t].rwa # None /\ flow[t].rwa = flow[u].rwa => t = u
    /\ \A t \in Tabs : Uncreated(t) => offering[flow[t].rwa] = None
    /\ \A r \in gaveUp : record[r] # None
    /\ \A tx \in late : tx.rwa \in gaveUp
    /\ \A r \in Rwas : offering[r] # None => record[r] # None

\* Nothing is stored without its row, and no row is written without its record.
RowsBeforeBytes ==
    /\ \A r \in Rwas : record[r] = None => stored[r] = {}
    /\ \A t \in Tabs, d \in Docs : flow[t].slots[d] = "sent" =>
          At(t, "documents") /\ d \in record[flow[t].rwa].documents

\* The records that were given up and are on chain, or may still get there.
AtRisk ==
    {r \in gaveUp :
        offering[r] # None \/ \E tx \in late : tx.rwa = r /\ tx.step = "creating"}

\* A record gets there only by a fault: a lost answer, or a wait given up.
RiskCosts == IsFiniteSet(AtRisk) /\ Cardinality(AtRisk) <= faults

\* A built transaction is not ahead of the account, and a creation whose turn it is
\* was simulated against the state it will meet.
CreationGoes(t) ==
    /\ flow[t].pc \in {"approving", "creating"} => flow[t].seq <= sequence + 1
    /\ flow[t].pc = "creating" /\ flow[t].seq = sequence + 1 => Creates(flow[t].rwa)
CreationsGo == \A t \in Tabs : CreationGoes(t)

\* Nothing has failed that the shipper could not have avoided, and nothing was created.
Clean ==
    /\ faults = 0 /\ ~refused
    /\ \A r \in Rwas : offering[r] = None
    /\ \A r \in gaveUp : Acceptable(TermsOf(r))

\* No flow has come as far as its approval on the ledger, and none has failed.
NobodyYet ==
    /\ gaveUp = {}
    /\ \A t \in Tabs :
          /\ flow[t].pc \notin {"prepare", "creating", "finalize", "done"}
          /\ At(t, "approving") => flow[t].seq = sequence + 1

\* A flow that can still make it: what it needs on the ledger is there, or it will
\* put it there by itself; or one that could not pay from the start.
Leads(t) ==
    \/ At(t, "idle") /\ ~flow[t].affordable
    \/ flow[t].pc \in {"create", "documents", "approve"}
    \/ flow[t].pc \in {"approving", "creating"} /\ flow[t].seq = sequence + 1
    \/ At(t, "prepare") /\ allowance = upfront(flow[t].terms)

\* In a clean run the balance is untouched, whoever is under way can pay, and some
\* flow leads as soon as one has come far.
Led ==
    Clean =>
      /\ late = {} /\ purse = InitialPurse
      /\ \A t \in Tabs : Pending(t) /\ flow[t].affordable =>
             useEstimatedAllowance(InitialPurse[Shipper], flow[t].terms)
      /\ NobodyYet \/ \E t \in Tabs : Leads(t)

\* The inductive invariant of issuing.
IInv == IssueTypeOK /\ OwnRecords /\ RowsBeforeBytes /\ RiskCosts /\ CreationsGo

\* One flow changes, the others stay.
Moves(t) == flow' \in [Tabs -> Form] /\ \A u \in Tabs \ {t} : flow'[u] = flow[u]

\* Rows are never removed, and keep their terms and documents.
RecordsKept ==
    \A r \in Rwas : record[r] # None =>
        /\ record'[r] # None /\ record'[r].terms = record[r].terms
        /\ record[r].documents \subseteq record'[r].documents

\* What onError does.
Idles(t) ==
    /\ Moves(t)
    /\ flow'[t].pc = "idle" /\ flow'[t].rwa = None /\ \A d \in Docs : flow'[t].slots[d] = "none"
    /\ flow'[t].affordable = flow[t].affordable
    /\ gaveUp' = gaveUp \union ({flow[t].rwa} \ {None}) /\ gaveUp' \subseteq Rwas

\* The parts of a form.
LEMMA FormTypes ==
    ASSUME IssueTypeOK, NEW t \in Tabs
    PROVE  /\ flow \in [Tabs -> Form] /\ flow[t] \in Form
           /\ flow[t].pc \in Pcs /\ flow[t].rwa \in Rwas \union {None} /\ flow[t].seq \in Nat
           /\ flow[t].terms \in Terms \union {None} /\ flow[t].slots \in [Docs -> Slots]
           /\ flow[t].affordable \in BOOLEAN
           /\ flow[t].session \in Nat /\ flow[t].signed \in BOOLEAN
BY DEF IssueTypeOK, Form

\* A flow that takes a new state changes alone.
LEMMA MovesTo ==
    ASSUME IssueTypeOK, NEW t \in Tabs, NEW n \in Form, flow' = [flow EXCEPT ![t] = n]
    PROVE  Moves(t) /\ flow'[t] = n
BY DEF IssueTypeOK, Moves

\* The idle form.
LEMMA NoFlowType == NoFlow \in Form /\ \A d \in Docs : NoFlow.slots[d] = "none"
BY DEF NoFlow, Form, Pcs, Slots

\* A flow that fails is idle, and has given up its record.
LEMMA OnErrorIdles ==
    ASSUME IssueTypeOK, NEW t \in Tabs, onError(t)
    PROVE  Idles(t)
<1> DEFINE n == [NoFlow EXCEPT !.affordable = flow[t].affordable]
<1>1. n \in Form /\ n.pc = "idle" /\ n.rwa = None /\ n.slots = NoFlow.slots
      /\ n.affordable = flow[t].affordable
  BY FormTypes DEF NoFlow, Form, Pcs, Slots
<1>2. flow' = [flow EXCEPT ![t] = n]
  BY DEF onError
<1> HIDE DEF n
<1>3. Moves(t) /\ flow'[t] = n
  BY <1>1, <1>2, MovesTo
<1>4. gaveUp' = gaveUp \union ({flow[t].rwa} \ {None}) /\ gaveUp' \subseteq Rwas
  BY FormTypes DEF onError, IssueTypeOK
<1> QED BY <1>1, <1>3, <1>4, NoFlowType DEF Idles

\* A flow that only goes on keeps everything else.
LEMMA GotoMoves ==
    ASSUME IssueTypeOK, NEW t \in Tabs, NEW pc \in Pcs, Goto(t, pc)
    PROVE  /\ Moves(t) /\ flow'[t].pc = pc /\ flow'[t].rwa = flow[t].rwa
           /\ flow'[t].terms = flow[t].terms /\ flow'[t].slots = flow[t].slots
           /\ flow'[t].affordable = flow[t].affordable /\ flow'[t].seq = flow[t].seq
<1> DEFINE n == [flow[t] EXCEPT !.pc = pc, !.signed = FALSE]
<1>1. /\ n \in Form /\ n.pc = pc /\ n.rwa = flow[t].rwa /\ n.terms = flow[t].terms
      /\ n.slots = flow[t].slots /\ n.affordable = flow[t].affordable /\ n.seq = flow[t].seq
  BY FormTypes DEF Form
<1>2. flow' = [flow EXCEPT ![t] = n]
  BY DEF Goto
<1> HIDE DEF n
<1> QED BY <1>1, <1>2, MovesTo

\* A flow whose transaction is built takes the next sequence number.
LEMMA PreparedMoves ==
    ASSUME IssueTypeOK, NEW t \in Tabs, NEW step \in Pcs, Prepared(t, step)
    PROVE  /\ Moves(t) /\ flow'[t].pc = step /\ flow'[t].rwa = flow[t].rwa
           /\ flow'[t].terms = flow[t].terms /\ flow'[t].slots = flow[t].slots
           /\ flow'[t].affordable = flow[t].affordable /\ flow'[t].seq = sequence + 1
<1> DEFINE n == [flow[t] EXCEPT !.pc = step, !.seq = sequence + 1]
<1>0. sequence + 1 \in Nat
  BY DEF IssueTypeOK
<1>1. /\ n \in Form /\ n.pc = step /\ n.rwa = flow[t].rwa /\ n.terms = flow[t].terms
      /\ n.slots = flow[t].slots /\ n.affordable = flow[t].affordable /\ n.seq = sequence + 1
  BY <1>0, FormTypes DEF Form
<1>2. flow' = [flow EXCEPT ![t] = n]
  BY FormTypes DEF Prepared
<1> HIDE DEF n
<1> QED BY <1>1, <1>2, MovesTo

\* A step of one flow that keeps or drops its record keeps OwnRecords.
LEMMA OwnRecordsKept ==
    ASSUME IssueTypeOK, OwnRecords, NEW t \in Tabs, Moves(t), RecordsKept,
           \A r \in gaveUp' : r \in gaveUp \/ (r = flow[t].rwa /\ r # None),
           gaveUp \subseteq gaveUp', gaveUp' \subseteq Rwas,
           \A tx \in late' : tx.rwa \in gaveUp',
           \A r \in Rwas : r # flow[t].rwa => offering'[r] = offering[r],
           \/ /\ flow'[t].rwa = None /\ flow'[t].pc \in {"idle", "create"}
              /\ flow'[t].pc = "create" => flow'[t].terms \in Terms
           \/ /\ flow'[t].rwa = flow[t].rwa /\ flow[t].rwa # None
              /\ flow'[t].terms = flow[t].terms /\ gaveUp' = gaveUp
              /\ flow'[t].pc \notin {"idle", "create"}
              /\ Uncreated(t)' => offering'[flow[t].rwa] = None
    PROVE  OwnRecords'
<1>0. /\ \A u \in Tabs : flow[u].rwa \in Rwas \union {None}
      /\ \A u \in Tabs : u # t => flow'[u] = flow[u]
  BY FormTypes DEF Moves
<1>1. \A u \in Tabs : flow'[u].rwa = None <=> flow'[u].pc \in {"idle", "create"}
  BY <1>0 DEF OwnRecords
<1>2. \A u \in Tabs : flow'[u].rwa # None =>
         flow'[u].rwa = flow[u].rwa /\ flow'[u].terms = flow[u].terms
  BY <1>0
<1>3. \A u \in Tabs : flow'[u].rwa # None => flow'[u].rwa \notin gaveUp'
  BY <1>0, <1>2 DEF OwnRecords
<1>4. \A u \in Tabs : flow'[u].rwa # None =>
         record'[flow'[u].rwa] # None /\ flow'[u].terms = record'[flow'[u].rwa].terms
  <2> SUFFICES ASSUME NEW u \in Tabs, flow'[u].rwa # None
               PROVE  /\ record'[flow'[u].rwa] # None
                      /\ flow'[u].terms = record'[flow'[u].rwa].terms
    OBVIOUS
  <2>1. /\ flow[u].rwa \in Rwas /\ record[flow[u].rwa] # None
        /\ flow[u].terms = record[flow[u].rwa].terms
    BY <1>0, <1>2 DEF OwnRecords, TermsOf
  <2> QED BY <1>2, <2>1 DEF RecordsKept
<1>5. \A u, v \in Tabs : flow'[u].rwa # None /\ flow'[u].rwa = flow'[v].rwa => u = v
  BY <1>2 DEF OwnRecords
<1>6. \A u \in Tabs : Uncreated(u)' => offering'[flow'[u].rwa] = None
  <2> SUFFICES ASSUME NEW u \in Tabs, Uncreated(u)' PROVE offering'[flow'[u].rwa] = None
    OBVIOUS
  <2>1. CASE u = t
    BY <2>1 DEF Uncreated
  <2>2. CASE u # t
    <3>1. flow'[u] = flow[u] /\ Uncreated(u)
      BY <2>2, <1>0 DEF Uncreated
    <3>2. flow[u].rwa # None /\ flow[u].rwa # flow[t].rwa /\ offering[flow[u].rwa] = None
      BY <2>2, <3>1 DEF OwnRecords, Uncreated
    <3> QED BY <3>1, <3>2, <1>0
  <2> QED BY <2>1, <2>2
<1>7. \A r \in gaveUp' : record'[r] # None
  BY <1>0 DEF OwnRecords, RecordsKept
<1>8. \A r \in Rwas : offering'[r] # None => record'[r] # None
  BY <1>0, IssueConstants DEF OwnRecords, RecordsKept
<1>9. \A tx \in late' : tx.rwa \in gaveUp'
  OBVIOUS
<1>10. \A u \in Tabs : flow'[u].pc = "create" => flow'[u].terms \in Terms
  BY <1>0 DEF OwnRecords
<1> QED BY <1>10, <1>1, <1>3, <1>4, <1>5, <1>6, <1>7, <1>8, <1>9 DEF OwnRecords, TermsOf

\* No record is put at risk for nothing.
LEMMA RiskKept ==
    ASSUME RiskCosts, IssueTypeOK, AtRisk' \subseteq AtRisk,
           faults' \in Nat, faults <= faults'
    PROVE  RiskCosts'
<1>1. IsFiniteSet(AtRisk') /\ Cardinality(AtRisk') <= Cardinality(AtRisk)
  BY FS_Subset DEF RiskCosts
<1>2. Cardinality(AtRisk) \in Nat /\ Cardinality(AtRisk') \in Nat /\ faults \in Nat
  BY <1>1, FS_CardinalityType, IssueConstants DEF RiskCosts, IssueTypeOK
<1> QED BY <1>1, <1>2 DEF RiskCosts

\* One fault puts at most one record at risk.
LEMMA RiskBought ==
    ASSUME RiskCosts, IssueTypeOK, NEW r, AtRisk' \subseteq AtRisk \union {r}, faults' = faults + 1
    PROVE  RiskCosts'
<1>1. /\ IsFiniteSet(AtRisk \union {r})
      /\ Cardinality(AtRisk \union {r}) \in {Cardinality(AtRisk), Cardinality(AtRisk) + 1}
  <2>1. IsFiniteSet(AtRisk)
    BY DEF RiskCosts
  <2>2. /\ IsFiniteSet(AtRisk \union {r})
        /\ \/ Cardinality(AtRisk \union {r}) = Cardinality(AtRisk)
           \/ Cardinality(AtRisk \union {r}) = Cardinality(AtRisk) + 1
    BY <2>1, FS_AddElement
  <2> QED BY <2>2
<1>2. IsFiniteSet(AtRisk') /\ Cardinality(AtRisk') <= Cardinality(AtRisk \union {r})
  BY <1>1, FS_Subset
<1>3. /\ Cardinality(AtRisk) \in Nat /\ Cardinality(AtRisk') \in Nat /\ faults \in Nat
      /\ Cardinality(AtRisk \union {r}) \in Nat
  BY <1>1, <1>2, FS_CardinalityType, IssueConstants DEF RiskCosts, IssueTypeOK
<1> QED BY <1>1, <1>2, <1>3 DEF RiskCosts

\* Off the ledger nothing changes what a built creation will meet.
LEMMA CreationsKept ==
    ASSUME IssueTypeOK, OwnRecords, CreationsGo, NEW t \in Tabs, Moves(t), RecordsKept,
           sequence' = sequence, allowance' = allowance, purse' = purse,
           \/ flow'[t].pc \notin {"approving", "creating"}
           \/ /\ flow'[t].rwa \in Rwas /\ flow'[t].seq = sequence + 1
              /\ flow'[t].pc = "creating" => Creates(flow'[t].rwa)
              /\ record[flow'[t].rwa] # None
    PROVE  CreationsGo'
<1>1. \A u \in Tabs : u # t => flow'[u] = flow[u]
  BY DEF Moves
<1>2. \A r \in Rwas : record[r] # None /\ Creates(r) => Creates(r)'
  BY DEF Creates, TermsOf, RecordsKept
<1>3. \A u \in Tabs : flow[u].pc \in {"approving", "creating"} =>
         flow[u].rwa \in Rwas /\ record[flow[u].rwa] # None
  BY FormTypes DEF OwnRecords
<1>4. sequence \in Nat
  BY DEF IssueTypeOK
<1> SUFFICES ASSUME NEW u \in Tabs PROVE CreationGoes(u)'
  BY DEF CreationsGo
<1>5. CASE u = t
  BY <1>2, <1>4, <1>5 DEF CreationGoes
<1>6. CASE u # t
  BY <1>1, <1>2, <1>3, <1>6 DEF CreationsGo, CreationGoes
<1> QED BY <1>5, <1>6

\* Once a transaction has landed, no other built before it has its turn.
LEMMA CreationsPassed ==
    ASSUME IssueTypeOK, CreationsGo, NEW t \in Tabs, Moves(t),
           sequence' = sequence + 1, flow'[t].pc \notin {"approving", "creating"}
    PROVE  CreationsGo'
<1> SUFFICES ASSUME NEW u \in Tabs PROVE CreationGoes(u)'
  BY DEF CreationsGo
<1>1. CASE u = t
  BY <1>1 DEF CreationGoes
<1>2. CASE u # t
  <2>1. flow'[u] = flow[u] /\ flow[u].seq \in Nat /\ sequence \in Nat
    BY <1>2, FormTypes DEF Moves, IssueTypeOK
  <2>2. flow[u].pc \in {"approving", "creating"} => flow[u].seq <= sequence + 1
    BY <2>1 DEF CreationsGo, CreationGoes
  <2> QED BY <2>1, <2>2 DEF CreationGoes
<1> QED BY <1>1, <1>2

\* What is approved and what is pulled of an upfront; the approval covers it.
LEMMA UpfrontTypes ==
    ASSUME NEW terms \in Terms
    PROVE  /\ terms.raise \in Nat /\ terms.rate \in Nat
           /\ Fee(terms.raise, terms.rate) \in Nat
           /\ Pulled(terms) \in Nat /\ upfront(terms) \in Nat
           /\ Fee(terms.raise, terms.rate) <= Pulled(terms)
           /\ Pulled(terms) <= upfront(terms)
<1>1. terms.raise \in Nat /\ terms.rate \in Nat /\ ProtocolFeeBps \in Nat
  BY IssueConstants
<1>2. terms.rate + ProtocolFeeBps \in Nat
  BY <1>1
<1>3. /\ Fee(terms.raise, terms.rate) \in Nat /\ Fee(terms.raise, ProtocolFeeBps) \in Nat
      /\ upfront(terms) \in Nat
  BY <1>1, <1>2, FeeType DEF upfront
<1>4. Pulled(terms) <= upfront(terms)
  BY <1>1, ApprovalCoversUpfront DEF Pulled, upfront
<1> QED BY <1>1, <1>3, <1>4 DEF Pulled

\* What a creation does to the ledger.
LEMMA CreationEffects ==
    ASSUME IssueTypeOK, NEW r \in Rwas, record[r] \in Collateral, Creates(r),
           Issue(r, Shipper, TermsOf(r).raise, TermsOf(r).rate, Pulled(TermsOf(r)))
    PROVE  /\ offering' \in [Rwas -> Recorded \union {None}] /\ offering'[r] # None
           /\ \A s \in Rwas : s # r => offering'[s] = offering[s]
           /\ vault' \in Nat /\ purse' \in [Users -> Nat]
<1> DEFINE terms == TermsOf(r)
           pulled == Pulled(TermsOf(r))
           o == [shipper |-> Shipper, rate |-> terms.rate, total |-> terms.raise, sold |-> 0,
                 held |-> [u \in Users |-> 0], principal |-> 0, status |-> "Open"]
<1>1. terms \in Terms
  BY DEF Collateral, TermsOf
<1>2. pulled \in Nat /\ terms.raise \in Nat /\ terms.rate \in Nat
  BY <1>1, UpfrontTypes
<1>3. o \in Recorded
  BY <1>2, IssueConstants DEF Recorded
<1>4. o # None
  BY <1>3, NoneIsMissing
<1>5. offering' = [offering EXCEPT ![r] = o]
  BY DEF Issue
<1>6. /\ vault' = vault + pulled /\ pulled <= purse[Shipper]
      /\ purse' = [purse EXCEPT ![Shipper] = @ - pulled]
  BY DEF Issue, TakeIn
<1> HIDE DEF terms, pulled, o
<1>7. /\ offering \in [Rwas -> Recorded \union {None}]
      /\ vault \in Nat /\ purse \in [Users -> Nat] /\ Shipper \in Users
  BY IssueConstants DEF IssueTypeOK
<1>8. vault' \in Nat /\ purse' \in [Users -> Nat]
  <2>1. vault + pulled \in Nat /\ purse[Shipper] - pulled \in Nat
    BY <1>2, <1>6, <1>7
  <2> QED BY <1>6, <1>7, <2>1
<1> QED BY <1>3, <1>4, <1>5, <1>7, <1>8

\* What a landed transaction does: an approval sets the allowance, a creation that
\* is refused does nothing, one that is not gives the record its offering.
LEMMA LandEffects ==
    ASSUME IssueTypeOK, NEW tx \in Tx, record[tx.rwa] # None, Land(tx)
    PROVE  /\ offering' \in [Rwas -> Recorded \union {None}]
           /\ vault' \in Nat /\ purse' \in [Users -> Nat] /\ allowance' \in Nat
           /\ sequence' \in Nat /\ sequence' = sequence + 1
           /\ tx.seq = sequence + 1
           /\ \A r \in Rwas : r # tx.rwa => offering'[r] = offering[r]
           /\ tx.step = "approving" =>
                 offering' = offering /\ purse' = purse /\ allowance' = upfront(TermsOf(tx.rwa))
           /\ tx.step = "creating" /\ ~Succeeds(tx) => offering' = offering
           /\ tx.step = "creating" /\ Succeeds(tx) => offering'[tx.rwa] # None
<1>1. /\ tx.rwa \in Rwas /\ tx.step \in {"approving", "creating"} /\ sequence + 1 \in Nat
      /\ record[tx.rwa] \in Collateral
  BY DEF Tx, IssueTypeOK
<1>2. sequence' = sequence + 1 /\ tx.seq = sequence + 1
  BY DEF Land, InSequence
<1>3. TermsOf(tx.rwa) \in Terms
  BY <1>1 DEF TermsOf, Collateral
<1>4. CASE tx.step = "approving"
  <2>1. allowance' = upfront(TermsOf(tx.rwa)) /\ UNCHANGED ledgerVars
    BY <1>4 DEF Land
  <2>2. upfront(TermsOf(tx.rwa)) \in Nat
    BY <1>3, UpfrontTypes
  <2> QED BY <1>1, <1>2, <1>4, <2>1, <2>2 DEF ledgerVars, IssueTypeOK
<1>5. CASE tx.step = "creating" /\ ~Succeeds(tx)
  <2>1. UNCHANGED <<allowance, ledgerVars>>
    BY <1>5 DEF Land
  <2> QED BY <1>1, <1>2, <1>5, <2>1 DEF ledgerVars, IssueTypeOK
<1>6. CASE tx.step = "creating" /\ Succeeds(tx)
  <2>1. /\ allowance' = allowance - Pulled(TermsOf(tx.rwa))
        /\ Issue(tx.rwa, Shipper, TermsOf(tx.rwa).raise, TermsOf(tx.rwa).rate,
                 Pulled(TermsOf(tx.rwa)))
    BY <1>6 DEF Land
  <2>2. Creates(tx.rwa)
    BY <1>6 DEF Succeeds
  <2>3. allowance' \in Nat
    <3>1. /\ Pulled(TermsOf(tx.rwa)) \in Nat /\ allowance \in Nat
          /\ Pulled(TermsOf(tx.rwa)) <= allowance
      BY <1>3, <2>2, UpfrontTypes DEF Creates, IssueTypeOK
    <3> QED BY <2>1, <3>1
  <2>4. /\ offering' \in [Rwas -> Recorded \union {None}] /\ offering'[tx.rwa] # None
        /\ \A s \in Rwas : s # tx.rwa => offering'[s] = offering[s]
        /\ vault' \in Nat /\ purse' \in [Users -> Nat]
    BY <1>1, <2>1, <2>2, CreationEffects
  <2> QED BY <1>1, <1>2, <1>6, <2>3, <2>4
<1> QED BY <1>1, <1>4, <1>5, <1>6

\* A step of one flow that keeps the rows keeps RowsBeforeBytes.
LEMMA RowsKept ==
    ASSUME IssueTypeOK, OwnRecords, RowsBeforeBytes, NEW t \in Tabs, Moves(t), RecordsKept,
           \A r \in Rwas : record[r] = None => stored'[r] = {},
           \A d \in Docs : flow'[t].slots[d] = "sent" =>
               flow'[t].pc = "documents" /\ d \in record'[flow'[t].rwa].documents
    PROVE  RowsBeforeBytes'
<1>1. \A r \in Rwas : record'[r] = None => stored'[r] = {}
  BY DEF RecordsKept
<1>2. ASSUME NEW u \in Tabs, NEW d \in Docs, flow'[u].slots[d] = "sent"
      PROVE  flow'[u].pc = "documents" /\ d \in record'[flow'[u].rwa].documents
  <2>1. CASE u = t
    BY <1>2, <2>1
  <2>2. CASE u # t
    <3>1. flow'[u] = flow[u]
      BY <2>2 DEF Moves
    <3>2. flow[u].pc = "documents" /\ d \in record[flow[u].rwa].documents
      BY <1>2, <3>1 DEF RowsBeforeBytes, At
    <3>3. flow[u].rwa \in Rwas /\ record[flow[u].rwa] # None
      BY <3>2, FormTypes DEF OwnRecords
    <3> QED BY <3>1, <3>2, <3>3 DEF RecordsKept
  <2> QED BY <2>1, <2>2
<1> QED BY <1>1, <1>2 DEF RowsBeforeBytes, At

\* Rows nobody writes are kept.
LEMMA RecordsSame == ASSUME record' = record PROVE RecordsKept
BY DEF RecordsKept

\* A flow that gives up before its creation was sent puts nothing at risk.
LEMMA NotAtRisk ==
    ASSUME IssueTypeOK, OwnRecords, NEW t \in Tabs, late' = late, offering' = offering,
           \/ gaveUp' = gaveUp
           \/ /\ gaveUp' = gaveUp \union ({flow[t].rwa} \ {None})
              /\ Uncreated(t) \/ flow[t].rwa = None
    PROVE  AtRisk' \subseteq AtRisk
<1>1. SUFFICES ASSUME NEW r, r \in AtRisk' PROVE r \in AtRisk
  OBVIOUS
<1>2. r \in gaveUp' /\ (offering[r] # None \/ \E tx \in late : tx.rwa = r /\ tx.step = "creating")
  BY <1>1 DEF AtRisk
<1>3. CASE r \in gaveUp
  BY <1>2, <1>3 DEF AtRisk
<1>4. CASE r \notin gaveUp
  <2>1. r = flow[t].rwa /\ offering[r] = None
    BY <1>2, <1>4 DEF OwnRecords
  <2>2. \A tx \in late : tx.rwa # r
    BY <1>4 DEF OwnRecords
  <2> QED BY <1>2, <2>1, <2>2
<1> QED BY <1>3, <1>4

\* A flow that fails with nothing of it on the way keeps the invariant.
LEMMA ErrorStep ==
    ASSUME IInv, NEW t \in Tabs, onError(t),
           UNCHANGED <<chainVars, record, stored, indexed, skipped, sessions, late>>,
           refused' \in BOOLEAN,
           Uncreated(t) \/ flow[t].rwa = None,
           faults' \in 0..MaxFaults, faults <= faults'
    PROVE  IInv'
<1> USE DEF IInv, chainVars, ledgerVars
<1>1. Idles(t)
  BY OnErrorIdles
<1>2. IssueTypeOK'
  BY <1>1 DEF Idles, Moves, IssueTypeOK
<1>3. RecordsKept
  BY RecordsSame
<1>4. OwnRecords'
  <2>1. \A r \in gaveUp' : r \in gaveUp \/ (r = flow[t].rwa /\ r # None)
    BY <1>1 DEF Idles
  <2>2. \A tx \in late' : tx.rwa \in gaveUp'
    BY <1>1 DEF Idles, OwnRecords
  <2> QED BY <1>1, <1>3, <2>1, <2>2, OwnRecordsKept DEF Idles
<1>5. RowsBeforeBytes'
  BY <1>1, <1>3, RowsKept DEF Idles, RowsBeforeBytes
<1>6. RiskCosts'
  <2>1. AtRisk' \subseteq AtRisk
    BY <1>1, NotAtRisk DEF Idles
  <2> QED BY <2>1, RiskKept, IssueConstants
<1>7. CreationsGo'
  BY <1>1, <1>3, CreationsKept DEF Idles
<1> QED BY <1>2, <1>4, <1>5, <1>6, <1>7

\* A new attempt has no record yet.
LEMMA IssueStep ==
    ASSUME IInv, NEW t \in Tabs, issue(t)
    PROVE  IInv'
<1> USE DEF IInv, chainVars, databaseVars, ledgerVars
<1>1. /\ Moves(t) /\ flow'[t].pc = "create" /\ flow'[t].rwa = None /\ flow'[t].terms \in Terms
      /\ \A d \in Docs : flow'[t].slots[d] # "sent"
  <2>1. PICK terms \in Terms, attached \in SUBSET Docs :
           flow' = [flow EXCEPT ![t] =
                [NoFlow EXCEPT !.pc = "create", !.terms = terms,
                    !.slots = [d \in Docs |-> IF d \in attached THEN "uploading" ELSE "none"],
                    !.affordable = useEstimatedAllowance(purse[Shipper], terms)]]
    BY DEF issue
  <2> DEFINE n == [NoFlow EXCEPT !.pc = "create", !.terms = terms,
                    !.slots = [d \in Docs |-> IF d \in attached THEN "uploading" ELSE "none"],
                    !.affordable = useEstimatedAllowance(purse[Shipper], terms)]
  <2>2. useEstimatedAllowance(purse[Shipper], terms) \in BOOLEAN
    BY DEF useEstimatedAllowance
  <2>3. /\ n \in Form /\ n.pc = "create" /\ n.rwa = None /\ n.terms \in Terms
        /\ \A d \in Docs : n.slots[d] # "sent"
    BY <2>2 DEF NoFlow, Form, Pcs, Slots
  <2>4. flow' = [flow EXCEPT ![t] = n]
    BY <2>1
  <2> HIDE DEF n
  <2> QED BY <2>3, <2>4, MovesTo
<1>2. IssueTypeOK'
  BY <1>1 DEF issue, Moves, IssueTypeOK
<1>3. RecordsKept
  BY RecordsSame DEF issue
<1>4. OwnRecords'
  BY <1>1, <1>3, OwnRecordsKept DEF issue, OwnRecords, IssueTypeOK
<1>5. RowsBeforeBytes'
  BY <1>1, <1>3, RowsKept DEF issue, RowsBeforeBytes
<1>6. RiskCosts'
  <2>1. faults' \in Nat /\ faults <= faults'
    BY IssueConstants DEF issue, IssueTypeOK
  <2> QED BY <2>1, NotAtRisk, RiskKept DEF issue
<1>7. CreationsGo'
  BY <1>1, <1>3, CreationsKept DEF issue
<1> QED BY <1>2, <1>4, <1>5, <1>6, <1>7

\* A request that fails before it has done anything.
LEMMA FailStep == ASSUME IInv, NEW t \in Tabs, Fail(t) PROVE IInv'
<1> USE DEF IInv
<1>1. faults' \in 0..MaxFaults /\ faults <= faults'
  BY IssueConstants DEF Fail, Fault, IssueTypeOK
<1>2. Uncreated(t) \/ flow[t].rwa = None
  BY DEF Fail, Uncreated, OwnRecords
<1>3. UNCHANGED databaseVars /\ refused \in BOOLEAN
  BY DEF Fail, IssueTypeOK
<1> QED BY <1>1, <1>2, <1>3, ErrorStep DEF Fail, databaseVars

\* A transaction is built; a creation only if it would succeed now.
LEMMA PreparedStep ==
    ASSUME IInv, NEW t \in Tabs, NEW step \in {"approving", "creating"}, Prepared(t, step),
           flow[t].pc \in {"approve", "prepare"}, gaveUp' = gaveUp,
           UNCHANGED <<chainVars, databaseVars, late, faults>>,
           step = "creating" => Creates(flow[t].rwa)
    PROVE  IInv'
<1> USE DEF IInv, chainVars, databaseVars, ledgerVars
<1>0. step \in Pcs
  BY DEF Pcs
<1>1. /\ Moves(t) /\ flow'[t].pc = step /\ flow'[t].rwa = flow[t].rwa
      /\ flow'[t].terms = flow[t].terms /\ flow'[t].slots = flow[t].slots
      /\ flow'[t].seq = sequence + 1
  BY <1>0, PreparedMoves
<1>2. flow[t].rwa \in Rwas /\ record[flow[t].rwa] # None /\ offering[flow[t].rwa] = None
  BY FormTypes DEF OwnRecords, Uncreated
<1>3. IssueTypeOK'
  BY <1>1 DEF Moves, IssueTypeOK
<1>4. RecordsKept
  BY RecordsSame
<1>5. OwnRecords'
  BY <1>1, <1>2, <1>4, OwnRecordsKept, IssueConstants DEF OwnRecords, IssueTypeOK
<1>6. RowsBeforeBytes'
  <2>1. \A d \in Docs : flow'[t].slots[d] # "sent"
    BY <1>1 DEF RowsBeforeBytes, At
  <2> QED BY <1>1, <1>4, <2>1, RowsKept DEF RowsBeforeBytes
<1>7. RiskCosts'
  <2>1. faults' \in Nat /\ faults <= faults'
    BY IssueConstants DEF IssueTypeOK
  <2> QED BY <2>1, NotAtRisk, RiskKept
<1>8. CreationsGo'
  BY <1>1, <1>2, <1>4, CreationsKept
<1> QED BY <1>3, <1>5, <1>6, <1>7, <1>8

\* The approval is built, or the rate refused.
LEMMA PrepareApproveStep == ASSUME IInv, NEW t \in Tabs, prepareApproveFactory(t) PROVE IInv'
<1>1. flow[t].pc = "approve" /\ UNCHANGED <<chainVars, databaseVars, late, faults>>
  BY DEF prepareApproveFactory, At
<1>2. CASE onError(t)
  <2>1. faults' \in 0..MaxFaults /\ faults <= faults' /\ refused \in BOOLEAN
    BY <1>1, IssueConstants DEF IInv, IssueTypeOK
  <2> QED BY <1>1, <1>2, <2>1, ErrorStep DEF Uncreated, databaseVars
<1>3. CASE Prepared(t, "approving") /\ gaveUp' = gaveUp
  BY <1>1, <1>3, PreparedStep
<1> QED BY <1>2, <1>3 DEF prepareApproveFactory

\* The creation is simulated.
LEMMA PrepareCreateStep == ASSUME IInv, NEW t \in Tabs, prepareCreateRwaToken(t) PROVE IInv'
<1>1. flow[t].pc = "prepare" /\ UNCHANGED <<chainVars, databaseVars, late, faults>>
  BY DEF prepareCreateRwaToken, At
<1>2. CASE onError(t)
  <2>1. faults' \in 0..MaxFaults /\ faults <= faults' /\ refused \in BOOLEAN
    BY <1>1, IssueConstants DEF IInv, IssueTypeOK
  <2> QED BY <1>1, <1>2, <2>1, ErrorStep DEF Uncreated, databaseVars
<1>3. CASE Creates(flow[t].rwa) /\ Prepared(t, "creating") /\ gaveUp' = gaveUp
  BY <1>1, <1>3, PreparedStep
<1> QED BY <1>2, <1>3 DEF prepareCreateRwaToken

\* A transaction that lost its turn to another tab's has done nothing.
LEMMA OutOfSequenceStep == ASSUME IInv, NEW t \in Tabs, outOfSequence(t) PROVE IInv'
<1>1. faults' \in 0..MaxFaults /\ faults <= faults' /\ refused \in BOOLEAN
  BY IssueConstants DEF outOfSequence, IInv, IssueTypeOK
<1>2. Uncreated(t)
  BY DEF outOfSequence, Signed, Sent, Uncreated
<1> QED BY <1>1, <1>2, ErrorStep DEF outOfSequence, databaseVars

\* Signing needs a session, and touches nothing but it and the flow.
LEMMA SignMoves ==
    ASSUME IssueTypeOK, NEW t \in Tabs, NEW n \in Nat, NEW signed \in BOOLEAN,
           \/ flow' = [flow EXCEPT ![t].session = n] /\ signed = flow[t].signed
           \/ flow' = [flow EXCEPT ![t].session = n, ![t].signed = signed]
    PROVE  /\ Moves(t) /\ flow'[t].pc = flow[t].pc /\ flow'[t].rwa = flow[t].rwa
           /\ flow'[t].terms = flow[t].terms /\ flow'[t].slots = flow[t].slots
           /\ flow'[t].affordable = flow[t].affordable /\ flow'[t].seq = flow[t].seq
<1> DEFINE m == [flow[t] EXCEPT !.session = n, !.signed = signed]
<1>1. /\ m \in Form /\ m.pc = flow[t].pc /\ m.rwa = flow[t].rwa /\ m.terms = flow[t].terms
      /\ m.slots = flow[t].slots /\ m.affordable = flow[t].affordable /\ m.seq = flow[t].seq
  BY FormTypes DEF Form
<1>2. flow' = [flow EXCEPT ![t] = m]
  <2>1. CASE flow' = [flow EXCEPT ![t].session = n, ![t].signed = signed]
    BY <2>1, FormTypes
  <2>2. CASE flow' = [flow EXCEPT ![t].session = n] /\ signed = flow[t].signed
    <3>1. m = [flow[t] EXCEPT !.session = n]
      BY <2>2, FormTypes DEF Form
    <3> HIDE DEF m
    <3> QED BY <2>2, <3>1, FormTypes
  <2> QED BY <2>1, <2>2
<1> HIDE DEF m
<1> QED BY <1>1, <1>2, MovesTo

\* A flow that is only signing keeps the invariant.
LEMMA SigningStep ==
    ASSUME IInv, NEW t \in Tabs, Sent(t), Moves(t),
           flow'[t].pc = flow[t].pc, flow'[t].rwa = flow[t].rwa,
           flow'[t].terms = flow[t].terms, flow'[t].slots = flow[t].slots,
           flow'[t].seq = flow[t].seq,
           UNCHANGED <<chainVars, record, stored, indexed, skipped, refused, late, gaveUp, faults>>,
           sessions' \in Seq({"initiated", "completed"})
    PROVE  IInv'
<1> USE DEF IInv, chainVars, ledgerVars
<1>1. flow[t].rwa \in Rwas /\ flow[t].rwa # None /\ offering[flow[t].rwa] = None
  BY FormTypes DEF OwnRecords, Uncreated, Sent
<1>2. IssueTypeOK'
  BY DEF Moves, IssueTypeOK
<1>3. RecordsKept
  BY RecordsSame
<1>4. OwnRecords'
  BY <1>1, <1>3, OwnRecordsKept DEF OwnRecords, IssueTypeOK, Sent
<1>5. RowsBeforeBytes'
  <2>1. \A d \in Docs : flow'[t].slots[d] # "sent"
    BY DEF RowsBeforeBytes, At, Sent
  <2> QED BY <1>3, <2>1, RowsKept DEF RowsBeforeBytes
<1>6. RiskCosts'
  <2>1. faults' \in Nat /\ faults <= faults'
    BY IssueConstants DEF IssueTypeOK
  <2> QED BY <2>1, NotAtRisk, RiskKept
<1>7. CreationsGo'
  <2> SUFFICES ASSUME NEW u \in Tabs PROVE CreationGoes(u)'
    BY DEF CreationsGo
  <2>1. /\ flow'[u].pc = flow[u].pc /\ flow'[u].seq = flow[u].seq
        /\ flow'[u].rwa = flow[u].rwa
    BY DEF Moves
  <2> QED BY <2>1 DEF CreationsGo, CreationGoes, Creates, TermsOf
<1> QED BY <1>2, <1>4, <1>5, <1>6, <1>7

\* A challenge, and a session for it.
LEMMA SignInitStep == ASSUME IInv, NEW t \in Tabs, signInit(t) PROVE IInv'
<1>1. /\ Len(sessions) + 1 \in Nat
      /\ Append(sessions, "initiated") \in Seq({"initiated", "completed"})
  BY DEF IInv, IssueTypeOK
<1>2. /\ Moves(t) /\ flow'[t].pc = flow[t].pc /\ flow'[t].rwa = flow[t].rwa
      /\ flow'[t].terms = flow[t].terms /\ flow'[t].slots = flow[t].slots
      /\ flow'[t].seq = flow[t].seq
  BY <1>1, FormTypes, SignMoves DEF signInit, IInv
<1> QED BY <1>1, <1>2, SigningStep DEF signInit

\* What completing a signature against the flow's own session does.
LEMMA CompletedMoves ==
    ASSUME IInv, NEW t \in Tabs,
           flow' = [flow EXCEPT ![t].session = 0, ![t].signed = TRUE]
    PROVE  /\ Moves(t) /\ flow'[t].pc = flow[t].pc /\ flow'[t].rwa = flow[t].rwa
           /\ flow'[t].terms = flow[t].terms /\ flow'[t].slots = flow[t].slots
           /\ flow'[t].affordable = flow[t].affordable /\ flow'[t].seq = flow[t].seq
BY SignMoves DEF IInv

\* The signature is there, or it was refused and the flow has failed.
LEMMA SignCompleteStep == ASSUME IInv, NEW t \in Tabs, signComplete(t) PROVE IInv'
<1>1. CASE UNCHANGED <<refused, gaveUp>>
           /\ sessions' = [sessions EXCEPT ![flow[t].session] = "completed"]
           /\ flow' = [flow EXCEPT ![t].session = 0, ![t].signed = TRUE]
  <2>1. sessions' \in Seq({"initiated", "completed"})
    <3>1. ASSUME NEW s \in Seq({"initiated", "completed"}), NEW n
          PROVE  [s EXCEPT ![n] = "completed"] \in Seq({"initiated", "completed"})
      <4>1. CASE n \in 1..Len(s)
        BY <4>1, ExceptSeq
      <4>2. CASE n \notin 1..Len(s)
        <5>1. s \in [1..Len(s) -> {"initiated", "completed"}]
          BY LenProperties
        <5>2. [s EXCEPT ![n] = "completed"] = s
          BY <4>2, <5>1
        <5> QED BY <5>2
      <4> QED BY <4>1, <4>2
    <3>2. sessions \in Seq({"initiated", "completed"})
      BY DEF IInv, IssueTypeOK
    <3> QED BY <1>1, <3>1, <3>2
  <2>2. /\ Moves(t) /\ flow'[t].pc = flow[t].pc /\ flow'[t].rwa = flow[t].rwa
        /\ flow'[t].terms = flow[t].terms /\ flow'[t].slots = flow[t].slots
        /\ flow'[t].seq = flow[t].seq
    BY <1>1, CompletedMoves
  <2>3. Sent(t) /\ UNCHANGED <<chainVars, record, stored, indexed, skipped, late, faults>>
    BY DEF signComplete
  <2> QED BY <1>1, <2>1, <2>2, <2>3, SigningStep
<1>2. CASE refused' = TRUE /\ onError(t) /\ UNCHANGED sessions
  <2>1. faults' \in 0..MaxFaults /\ faults <= faults' /\ Uncreated(t)
    BY IssueConstants DEF signComplete, Sent, Uncreated, IInv, IssueTypeOK
  <2> QED BY <1>2, <2>1, ErrorStep DEF signComplete
<1> QED BY <1>1, <1>2 DEF signComplete

\* Steps of a flow that neither touch the ledger nor end in an error.
LEMMA QuietStep ==
    ASSUME IInv, NEW t \in Tabs, Moves(t), flow[t].rwa # None, flow'[t].rwa = flow[t].rwa,
           flow'[t].terms = flow[t].terms,
           flow'[t].pc \in {"documents", "approve", "done"},
           Uncreated(t)' => Uncreated(t),
           gaveUp' = gaveUp, late' = late, UNCHANGED chainVars, RecordsKept,
           faults' \in 0..MaxFaults, faults <= faults'
    PROVE  OwnRecords' /\ RiskCosts' /\ CreationsGo'
<1> USE DEF IInv, chainVars, ledgerVars
<1>1. OwnRecords'
  <2>1. Uncreated(t)' => offering'[flow[t].rwa] = None
    BY DEF OwnRecords
  <2> QED BY <2>1, OwnRecordsKept DEF OwnRecords, IssueTypeOK
<1>2. RiskCosts'
  BY NotAtRisk, RiskKept, IssueConstants
<1>3. CreationsGo'
  BY CreationsKept
<1> QED BY <1>1, <1>2, <1>3

\* The uploads are over.
LEMMA UploadsSettledStep == ASSUME IInv, NEW t \in Tabs, uploadsSettled(t) PROVE IInv'
<1> USE DEF IInv
<1> DEFINE n == [flow[t] EXCEPT !.pc = "approve", !.slots = NoFlow.slots]
<1>1. /\ n \in Form /\ n.pc = "approve" /\ n.rwa = flow[t].rwa /\ n.terms = flow[t].terms
      /\ n.slots = NoFlow.slots
  BY FormTypes, NoFlowType DEF Form, Pcs
<1>2. flow' = [flow EXCEPT ![t] = n]
  BY FormTypes DEF uploadsSettled
<1> HIDE DEF n
<1>3. Moves(t) /\ flow'[t] = n
  BY <1>1, <1>2, MovesTo
<1>4. flow[t].pc = "documents" /\ flow[t].rwa # None
  BY DEF uploadsSettled, At, OwnRecords
<1>5. IssueTypeOK'
  BY <1>3 DEF uploadsSettled, Moves, IssueTypeOK, chainVars, databaseVars, ledgerVars
<1>6. RecordsKept
  BY RecordsSame DEF uploadsSettled, databaseVars
<1>7. OwnRecords' /\ RiskCosts' /\ CreationsGo'
  <2>1. faults' \in 0..MaxFaults /\ faults <= faults'
    BY IssueConstants DEF uploadsSettled, IssueTypeOK
  <2> QED BY <1>1, <1>3, <1>4, <1>6, <2>1, QuietStep DEF uploadsSettled, Uncreated
<1>8. RowsBeforeBytes'
  <2>1. \A d \in Docs : flow'[t].slots[d] # "sent"
    BY <1>1, <1>3, NoFlowType
  <2> QED BY <1>3, <1>6, <2>1, RowsKept DEF uploadsSettled, databaseVars, RowsBeforeBytes
<1> QED BY <1>5, <1>7, <1>8

\* A document slot changes, the rest of the form stays.
LEMMA SlotMoves ==
    ASSUME IssueTypeOK, NEW t \in Tabs, NEW d \in Docs, NEW state \in Slots, Slot(t, d, state)
    PROVE  /\ Moves(t) /\ flow'[t].pc = flow[t].pc /\ flow'[t].rwa = flow[t].rwa
           /\ flow'[t].terms = flow[t].terms /\ flow'[t].slots[d] = state
           /\ \A e \in Docs : e # d => flow'[t].slots[e] = flow[t].slots[e]
           /\ flow'[t].affordable = flow[t].affordable /\ flow'[t].seq = flow[t].seq
<1> DEFINE slots == [flow[t].slots EXCEPT ![d] = state]
           n == [flow[t] EXCEPT !.slots = slots]
<1>1. /\ slots \in [Docs -> Slots] /\ slots[d] = state
      /\ \A e \in Docs : e # d => slots[e] = flow[t].slots[e]
  BY FormTypes
<1>2. flow' = [flow EXCEPT ![t] = n]
  BY FormTypes DEF Slot
<1> HIDE DEF slots
<1>3. /\ n \in Form /\ n.pc = flow[t].pc /\ n.rwa = flow[t].rwa /\ n.terms = flow[t].terms
      /\ n.slots = slots /\ n.affordable = flow[t].affordable /\ n.seq = flow[t].seq
  BY <1>1, FormTypes DEF Form
<1> HIDE DEF n
<1>4. Moves(t) /\ flow'[t] = n
  BY <1>2, <1>3, MovesTo
<1> QED BY <1>1, <1>3, <1>4

\* A row's new state: an update that keeps its terms and its documents.
LEMMA RowKept ==
    ASSUME IssueTypeOK, NEW r \in Rwas, record[r] # None, NEW c \in Collateral,
           record' = [record EXCEPT ![r] = c], c.terms = record[r].terms,
           record[r].documents \subseteq c.documents
    PROVE  RecordsKept /\ record' \in [Rwas -> Collateral \union {None}] /\ record'[r] = c
BY NoneIsMissing DEF RecordsKept, IssueTypeOK

\* A document's row is written before its bytes are put.
LEMMA RequestUploadStep ==
    ASSUME IInv, NEW t \in Tabs, NEW d \in Docs, requestDocumentUpload(t, d) PROVE IInv'
<1> USE DEF IInv
<1> DEFINE r == flow[t].rwa
           c == [record[r] EXCEPT !.documents = @ \union {d}]
           added == record' = [record EXCEPT ![r] = c]
<1>1. flow[t].pc = "documents" /\ r # None /\ r \in Rwas /\ record[r] # None
  BY FormTypes DEF requestDocumentUpload, At, OwnRecords
<1>2. record[r] \in Collateral
  BY <1>1 DEF IssueTypeOK
<1>3. /\ c \in Collateral /\ c.terms = record[r].terms
      /\ c.documents = record[r].documents \union {d}
  BY <1>2 DEF Collateral
<1>4. \/ added /\ Slot(t, d, "sent") /\ faults' = faults
      \/ (added \/ record' = record) /\ Slot(t, d, "error") /\ Fault
  BY <1>1, <1>2 DEF requestDocumentUpload, Collateral
<1> HIDE DEF c
<1>5. /\ RecordsKept /\ record' \in [Rwas -> Collateral \union {None}]
      /\ Slot(t, d, "sent") => d \in record'[r].documents
  <2>1. CASE added
    <3>1. /\ RecordsKept /\ record' \in [Rwas -> Collateral \union {None}] /\ record'[r] = c
      BY <1>1, <1>3, <2>1, RowKept
    <3> QED BY <3>1, <1>3
  <2>2. CASE record' = record /\ Slot(t, d, "error")
    <3>1. ~Slot(t, d, "sent")
      <4>1. "error" \in Slots /\ "sent" \in Slots
        BY DEF Slots
      <4> QED BY <2>2, <4>1, SlotMoves
    <3> QED BY <2>2, <3>1, RecordsSame DEF IssueTypeOK
  <2> QED BY <1>4, <2>1, <2>2
<1>6. /\ Moves(t) /\ flow'[t].pc = "documents" /\ flow'[t].rwa = r
      /\ flow'[t].terms = flow[t].terms
      /\ \A e \in Docs : flow'[t].slots[e] = "sent" => e \in record'[r].documents
  <2>1. "error" \in Slots /\ "sent" \in Slots
    BY DEF Slots
  <2>2. \A e \in Docs : flow[t].slots[e] = "sent" => e \in record'[r].documents
    BY <1>1, <1>5 DEF RowsBeforeBytes, RecordsKept
  <2> QED BY <1>1, <1>4, <1>5, <2>1, <2>2, SlotMoves
<1>7. faults' \in 0..MaxFaults /\ faults <= faults'
  BY <1>4, IssueConstants DEF Fault, IssueTypeOK
<1>8. IssueTypeOK'
  <2>1. ASSUME NEW s \in Rwas, stored[s] # {} PROVE stored[s] \subseteq record'[s].documents
    BY <2>1, <1>5 DEF RecordsKept, RowsBeforeBytes, IssueTypeOK
  <2> QED BY <1>5, <1>6, <1>7, <2>1
          DEF requestDocumentUpload, Moves, IssueTypeOK, chainVars, ledgerVars, signVars
<1>9. OwnRecords' /\ RiskCosts' /\ CreationsGo'
  BY <1>1, <1>5, <1>6, <1>7, QuietStep DEF requestDocumentUpload, Uncreated
<1>10. RowsBeforeBytes'
  BY <1>5, <1>6, RowsKept DEF requestDocumentUpload, RowsBeforeBytes
<1> QED BY <1>8, <1>9, <1>10

\* The bytes are put where the row is.
LEMMA PutBytesStep ==
    ASSUME IInv, NEW t \in Tabs, NEW d \in Docs, putBytes(t, d) PROVE IInv'
<1> USE DEF IInv
<1> DEFINE r == flow[t].rwa
<1>1. /\ flow[t].pc = "documents" /\ r # None /\ r \in Rwas /\ record[r] # None
      /\ d \in record[r].documents
  BY FormTypes DEF putBytes, At, OwnRecords, RowsBeforeBytes
<1>2. /\ \/ stored' = [stored EXCEPT ![r] = @ \union {d}]
         \/ stored' = stored
      /\ Slot(t, d, "done") \/ Slot(t, d, "error")
      /\ record' = record
  BY DEF putBytes
<1>3. RecordsKept
  BY <1>2, RecordsSame
<1>4. /\ Moves(t) /\ flow'[t].pc = "documents" /\ flow'[t].rwa = r
      /\ flow'[t].terms = flow[t].terms
      /\ \A e \in Docs : flow'[t].slots[e] = "sent" => e \in record[r].documents
  <2>1. "error" \in Slots /\ "done" \in Slots
    BY DEF Slots
  <2>2. \A e \in Docs : flow[t].slots[e] = "sent" => e \in record[r].documents
    BY <1>1 DEF RowsBeforeBytes
  <2> QED BY <1>1, <1>2, <2>1, <2>2, SlotMoves
<1>5. faults' \in 0..MaxFaults /\ faults <= faults'
  BY IssueConstants DEF putBytes, Fault, IssueTypeOK
<1>6. /\ stored' \in [Rwas -> SUBSET Docs]
      /\ \A s \in Rwas : stored'[s] # {} => stored'[s] \subseteq record[s].documents
      /\ \A s \in Rwas : record[s] = None => stored'[s] = {}
  <2>1. /\ stored \in [Rwas -> SUBSET Docs]
        /\ \A s \in Rwas : stored[s] # {} => stored[s] \subseteq record[s].documents
        /\ \A s \in Rwas : record[s] = None => stored[s] = {}
    BY DEF IssueTypeOK, RowsBeforeBytes
  <2> QED BY <1>1, <1>2, <2>1
<1>7. IssueTypeOK'
  BY <1>2, <1>4, <1>5, <1>6 DEF putBytes, Moves, IssueTypeOK, chainVars, ledgerVars, signVars
<1>8. OwnRecords' /\ RiskCosts' /\ CreationsGo'
  BY <1>1, <1>3, <1>4, <1>5, QuietStep DEF putBytes, Uncreated
<1>9. RowsBeforeBytes'
  BY <1>2, <1>3, <1>4, <1>6, RowsKept
<1> QED BY <1>7, <1>8, <1>9

\* The record gets its token, or not.
LEMMA UpdateStep == ASSUME IInv, NEW t \in Tabs, update(t) PROVE IInv'
<1> USE DEF IInv
<1> DEFINE r == flow[t].rwa
           c == [record[r] EXCEPT !.token = TRUE]
<1>1. flow[t].pc = "finalize" /\ r # None /\ r \in Rwas /\ record[r] # None
  BY FormTypes DEF update, At, OwnRecords
<1>2. /\ Moves(t) /\ flow'[t].pc = "done" /\ flow'[t].rwa = r
      /\ flow'[t].terms = flow[t].terms /\ flow'[t].slots = flow[t].slots
  <2>1. "done" \in Pcs
    BY DEF Pcs
  <2> QED BY <2>1, GotoMoves DEF update
<1>3. record[r] \in Collateral
  BY <1>1 DEF IssueTypeOK
<1>4. c \in Collateral /\ c.terms = record[r].terms /\ c.documents = record[r].documents
  BY <1>3 DEF Collateral
<1>5. record' = [record EXCEPT ![r] = c] \/ record' = record
  BY <1>1, <1>3 DEF update, Collateral
<1> HIDE DEF c
<1>6. /\ RecordsKept /\ record' \in [Rwas -> Collateral \union {None}]
  BY <1>1, <1>4, <1>5, RowKept, RecordsSame DEF IssueTypeOK
<1>7. faults' \in 0..MaxFaults /\ faults <= faults'
  BY IssueConstants DEF update, Fault, IssueTypeOK
<1>8. IssueTypeOK'
  <2>1. ASSUME NEW s \in Rwas, stored[s] # {} PROVE stored[s] \subseteq record'[s].documents
    BY <2>1, <1>6 DEF RecordsKept, RowsBeforeBytes, IssueTypeOK
  <2> QED BY <1>2, <1>6, <1>7, <2>1 DEF update, Moves, IssueTypeOK, chainVars, ledgerVars, signVars
<1>9. OwnRecords' /\ RiskCosts' /\ CreationsGo'
  BY <1>1, <1>2, <1>6, <1>7, QuietStep DEF update, Uncreated
<1>10. RowsBeforeBytes'
  <2>1. \A e \in Docs : flow'[t].slots[e] # "sent"
    BY <1>1, <1>2 DEF RowsBeforeBytes, At
  <2> QED BY <1>2, <1>6, <2>1, RowsKept DEF update, RowsBeforeBytes
<1> QED BY <1>8, <1>9, <1>10

\* A new record belongs to the one flow that made it.
LEMMA CreateStep == ASSUME IInv, NEW t \in Tabs, create(t) PROVE IInv'
<1> USE DEF IInv
<1> DEFINE r == generateCustomId
           c == NewRecord(flow[t].terms)
<1>1. r \in Rwas /\ record[r] = None
  BY DEF create, generateCustomId
<1>2. flow[t].pc = "create" /\ flow[t].rwa = None /\ flow[t].terms \in Terms
  BY DEF create, At, OwnRecords
<1>3. c \in Collateral /\ c.terms = flow[t].terms /\ c # None
  <2>1. c \in Collateral /\ c.terms = flow[t].terms
    BY <1>2 DEF NewRecord, Collateral
  <2> QED BY <2>1, NoneIsMissing
<1>4. /\ record' = [record EXCEPT ![r] = c]
      /\ \/ /\ flow' = [flow EXCEPT ![t].pc = "documents", ![t].rwa = r]
            /\ gaveUp' = gaveUp /\ faults' = faults
         \/ Fault /\ onError(t)
  BY DEF create
<1> HIDE DEF r, c
<1>5. /\ record' \in [Rwas -> Collateral \union {None}] /\ record'[r] = c
      /\ \A s \in Rwas : s # r => record'[s] = record[s]
  BY <1>1, <1>3, <1>4 DEF IssueTypeOK
<1>6. RecordsKept
  BY <1>1, <1>5 DEF RecordsKept
<1>7. faults' \in 0..MaxFaults /\ faults <= faults'
  BY <1>4, IssueConstants DEF Fault, IssueTypeOK
<1>8. stored' = stored /\ late' = late /\ UNCHANGED <<chainVars, indexed, skipped, sessions, refused>>
  BY DEF create, signVars
<1>9. \A s \in Rwas : stored[s] # {} => stored[s] \subseteq record'[s].documents
  BY <1>1, <1>5 DEF RowsBeforeBytes, IssueTypeOK
<1>10. CASE Fault /\ onError(t)
  <2>1. Idles(t) /\ gaveUp' = gaveUp
    BY <1>2, <1>10, OnErrorIdles DEF Idles
  <2>2. IssueTypeOK'
    BY <1>5, <1>7, <1>8, <1>9, <2>1 DEF Idles, Moves, IssueTypeOK, chainVars, ledgerVars
  <2>3. OwnRecords'
    BY <1>6, <1>8, <2>1, OwnRecordsKept DEF Idles, OwnRecords, IssueTypeOK, chainVars, ledgerVars
  <2>4. RowsBeforeBytes'
    BY <1>6, <1>8, <2>1, RowsKept DEF Idles, RowsBeforeBytes
  <2>5. RiskCosts'
    BY <1>7, <1>8, <2>1, NotAtRisk, RiskKept, IssueConstants DEF chainVars, ledgerVars
  <2>6. CreationsGo'
    BY <1>6, <1>8, <2>1, CreationsKept DEF Idles, chainVars, ledgerVars
  <2> QED BY <2>2, <2>3, <2>4, <2>5, <2>6
<1>11. CASE flow' = [flow EXCEPT ![t].pc = "documents", ![t].rwa = r] /\ gaveUp' = gaveUp
  <2> DEFINE n == [flow[t] EXCEPT !.pc = "documents", !.rwa = r]
  <2>1. /\ n \in Form /\ n.pc = "documents" /\ n.rwa = r /\ n.terms = flow[t].terms
        /\ n.slots = flow[t].slots
    BY <1>1, FormTypes DEF Form, Pcs
  <2>2. flow' = [flow EXCEPT ![t] = n]
    BY <1>11, FormTypes
  <2> HIDE DEF n
  <2>3. Moves(t) /\ flow'[t] = n
    BY <2>1, <2>2, MovesTo
  <2>4. IssueTypeOK'
    BY <1>5, <1>7, <1>8, <1>9, <1>11, <2>3 DEF Moves, IssueTypeOK, chainVars, ledgerVars
  <2>5. OwnRecords'
    <3>1. /\ r # None /\ r \notin gaveUp /\ offering[r] = None
          /\ \A u \in Tabs : flow[u].rwa # r
      BY <1>1, IssueConstants DEF OwnRecords
    <3>2. \A u \in Tabs : u # t => flow'[u] = flow[u]
      BY <2>3 DEF Moves
    <3>3. \A u \in Tabs : /\ flow'[u].rwa = None <=> flow'[u].pc \in {"idle", "create"}
                          /\ flow'[u].pc = "create" => flow'[u].terms \in Terms
      BY <2>1, <2>3, <3>1, <3>2 DEF OwnRecords
    <3>4. ASSUME NEW u \in Tabs, flow'[u].rwa # None
          PROVE  /\ record'[flow'[u].rwa] # None
                 /\ flow'[u].terms = record'[flow'[u].rwa].terms
                 /\ flow'[u].rwa \notin gaveUp
      <4>1. CASE u = t
        BY <4>1, <1>3, <1>5, <2>1, <2>3, <3>1
      <4>2. CASE u # t
        BY <4>2, <3>4, <3>2, <1>6, FormTypes DEF OwnRecords, RecordsKept, TermsOf
      <4> QED BY <4>1, <4>2
    <3>5. \A u, v \in Tabs : flow'[u].rwa # None /\ flow'[u].rwa = flow'[v].rwa => u = v
      BY <2>1, <2>3, <3>1, <3>2 DEF OwnRecords
    <3>6. \A u \in Tabs : Uncreated(u)' => offering[flow'[u].rwa] = None
      BY <2>1, <2>3, <3>1, <3>2 DEF OwnRecords, Uncreated
    <3>7. /\ \A s \in gaveUp : record'[s] # None
          /\ \A s \in Rwas : offering[s] # None => record'[s] # None
      BY <1>6 DEF OwnRecords, RecordsKept, IssueTypeOK
    <3>8. \A tx \in late : tx.rwa \in gaveUp
      BY DEF OwnRecords
    <3>9. \A u \in Tabs : flow'[u].rwa # None =>
              /\ record'[flow'[u].rwa] # None /\ flow'[u].terms = record'[flow'[u].rwa].terms
              /\ flow'[u].rwa \notin gaveUp'
      BY <1>11, <3>4
    <3>10. /\ \A u \in Tabs : Uncreated(u)' => offering'[flow'[u].rwa] = None
           /\ \A s \in gaveUp' : record'[s] # None
           /\ \A tx \in late' : tx.rwa \in gaveUp'
           /\ \A s \in Rwas : offering'[s] # None => record'[s] # None
      BY <1>8, <1>11, <3>6, <3>7, <3>8 DEF chainVars, ledgerVars
    <3> QED BY <3>3, <3>5, <3>9, <3>10 DEF OwnRecords, TermsOf
  <2>6. RowsBeforeBytes'
    <3>1. \A d \in Docs : flow'[t].slots[d] # "sent"
      BY <1>2, <2>1, <2>3 DEF RowsBeforeBytes, At
    <3> QED BY <1>6, <1>8, <2>3, <3>1, RowsKept DEF RowsBeforeBytes
  <2>7. RiskCosts'
    BY <1>7, <1>8, <1>11, NotAtRisk, RiskKept, IssueConstants DEF chainVars, ledgerVars
  <2>8. CreationsGo'
    BY <1>6, <1>8, <2>1, <2>3, CreationsKept DEF chainVars, ledgerVars
  <2> QED BY <2>4, <2>5, <2>6, <2>7, <2>8
<1> QED BY <1>4, <1>10, <1>11

\* The transaction a flow waits for.
LEMMA TxTypes ==
    ASSUME IssueTypeOK, OwnRecords, NEW t \in Tabs, Sent(t)
    PROVE  /\ TxOf(t) \in Tx /\ TxOf(t).rwa = flow[t].rwa /\ TxOf(t).step = flow[t].pc
           /\ TxOf(t).seq = flow[t].seq
           /\ flow[t].rwa \in Rwas /\ flow[t].rwa # None
           /\ record[flow[t].rwa] # None /\ offering[flow[t].rwa] = None
           /\ Uncreated(t)
BY FormTypes DEF Sent, TxOf, Tx, OwnRecords, Uncreated

\* Given up while its transaction is on the way: that fault puts the record at risk.
LEMMA GivesUpStep == ASSUME IInv, NEW t \in Tabs, givesUp(t) PROVE IInv'
<1> USE DEF IInv, chainVars, databaseVars, ledgerVars
<1>1. Idles(t)
  BY OnErrorIdles DEF givesUp
<1>2. /\ TxOf(t) \in Tx /\ TxOf(t).rwa = flow[t].rwa
      /\ flow[t].rwa \in Rwas /\ flow[t].rwa # None
  BY TxTypes DEF givesUp, Signed
<1>3. late' = late \union {TxOf(t)} /\ gaveUp' = gaveUp \union {flow[t].rwa}
  BY <1>1, <1>2 DEF givesUp, Idles
<1>4. faults' \in 0..MaxFaults /\ faults' = faults + 1
  BY IssueConstants DEF givesUp, Fault, IssueTypeOK
<1>5. RecordsKept
  BY RecordsSame DEF givesUp
<1>6. IssueTypeOK'
  BY <1>1, <1>2, <1>3, <1>4 DEF givesUp, Idles, Moves, IssueTypeOK
<1>7. OwnRecords'
  <2>1. \A s \in gaveUp' : s \in gaveUp \/ (s = flow[t].rwa /\ s # None)
    BY <1>2, <1>3
  <2>2. \A tx \in late' : tx.rwa \in gaveUp'
    BY <1>2, <1>3 DEF OwnRecords
  <2> QED BY <1>1, <1>5, <2>1, <2>2, OwnRecordsKept DEF Idles, givesUp
<1>8. RowsBeforeBytes'
  BY <1>1, <1>5, RowsKept DEF Idles, RowsBeforeBytes, givesUp
<1>9. RiskCosts'
  <2>1. AtRisk' \subseteq AtRisk \union {flow[t].rwa}
    BY <1>2, <1>3 DEF AtRisk, givesUp
  <2> QED BY <1>4, <2>1, RiskBought
<1>10. CreationsGo'
  BY <1>1, <1>5, CreationsKept DEF Idles, givesUp
<1> QED BY <1>6, <1>7, <1>8, <1>9, <1>10

\* Landed by the flow that waits for it.
LEMMA SignAndSubmitStep == ASSUME IInv, NEW t \in Tabs, signAndSubmit(t) PROVE IInv'
<1> USE DEF IInv, databaseVars
<1> DEFINE r == flow[t].rwa
           next == IF At(t, "approving") THEN "prepare" ELSE "finalize"
<1>1. /\ Sent(t) /\ TxOf(t) \in Tx /\ TxOf(t).rwa = r /\ TxOf(t).step = flow[t].pc
      /\ r \in Rwas /\ r # None /\ record[r] # None /\ offering[r] = None /\ Uncreated(t)
      /\ Land(TxOf(t))
  BY TxTypes DEF signAndSubmit, Signed
<1>2. /\ offering' \in [Rwas -> Recorded \union {None}]
      /\ vault' \in Nat /\ purse' \in [Users -> Nat] /\ allowance' \in Nat
      /\ sequence' \in Nat /\ sequence' = sequence + 1
      /\ \A s \in Rwas : s # r => offering'[s] = offering[s]
      /\ flow[t].pc = "approving" => offering' = offering
      /\ ~Succeeds(TxOf(t)) => offering' = offering
  BY <1>1, LandEffects DEF Sent, Succeeds
<1>3. UNCHANGED <<record, stored, indexed, skipped, sessions, refused, late>>
  BY DEF signAndSubmit
<1>4. faults' \in 0..MaxFaults /\ faults <= faults'
  BY IssueConstants DEF signAndSubmit, Fault, IssueTypeOK
<1>5. RecordsKept
  BY <1>3, RecordsSame
<1>6. CASE onError(t)
  <2>1. Idles(t) /\ gaveUp' = gaveUp \union {r}
    BY <1>1, <1>6, OnErrorIdles DEF Idles
  <2>2. IssueTypeOK'
    BY <1>2, <1>3, <1>4, <2>1 DEF Idles, Moves, IssueTypeOK
  <2>3. OwnRecords'
    <3>1. \A s \in gaveUp' : s \in gaveUp \/ (s = r /\ s # None)
      BY <1>1, <2>1
    <3>2. \A tx \in late' : tx.rwa \in gaveUp'
      BY <1>3, <2>1 DEF OwnRecords
    <3> QED BY <1>2, <1>5, <2>1, <3>1, <3>2, OwnRecordsKept DEF Idles
  <2>4. RowsBeforeBytes'
    BY <1>3, <1>5, <2>1, RowsKept DEF Idles, RowsBeforeBytes
  <2>5. RiskCosts'
    <3>1. CASE ~Succeeds(TxOf(t)) /\ faults' = faults
      <4>1. AtRisk' \subseteq AtRisk
        BY <1>1, <1>2, <1>3, <2>1, <3>1, NotAtRisk
      <4> QED BY <1>4, <3>1, <4>1, RiskKept
    <3>2. CASE Fault
      <4>1. AtRisk' \subseteq AtRisk \union {r}
        BY <1>2, <1>3, <2>1 DEF AtRisk, IssueTypeOK
      <4> QED BY <3>2, <4>1, RiskBought DEF Fault
    <3>3. CASE Goto(t, next)
      <4>1. flow'[t].pc = next
        <5>1. next \in Pcs
          BY DEF Pcs
        <5> QED BY <3>3, <5>1, GotoMoves
      <4> QED BY <2>1, <4>1 DEF Idles
    <3> QED BY <3>1, <3>2, <3>3 DEF signAndSubmit
  <2>6. CreationsGo'
    BY <1>2, <2>1, CreationsPassed DEF Idles
  <2> QED BY <2>2, <2>3, <2>4, <2>5, <2>6
<1>7. CASE Goto(t, next) /\ gaveUp' = gaveUp
  <2>1. next \in {"prepare", "finalize"} /\ next \in Pcs
    BY DEF Pcs
  <2>2. /\ Moves(t) /\ flow'[t].pc = next /\ flow'[t].rwa = r
        /\ flow'[t].terms = flow[t].terms /\ flow'[t].slots = flow[t].slots
    BY <1>7, <2>1, GotoMoves
  <2>3. IssueTypeOK'
    BY <1>2, <1>3, <1>4, <1>7, <2>2 DEF Moves, IssueTypeOK
  <2>4. OwnRecords'
    <3>1. Uncreated(t)' => offering'[r] = None
      BY <1>1, <1>2, <2>2 DEF Uncreated, Sent, At
    <3>2. \A s \in gaveUp' : s \in gaveUp
      BY <1>7
    <3>3. \A tx \in late' : tx.rwa \in gaveUp'
      BY <1>3, <1>7 DEF OwnRecords
    <3> QED BY <1>1, <1>2, <1>5, <1>7, <2>1, <2>2, <3>1, <3>2, <3>3, OwnRecordsKept
            DEF IssueTypeOK
  <2>5. RowsBeforeBytes'
    <3>1. \A d \in Docs : flow'[t].slots[d] # "sent"
      BY <1>1, <2>2 DEF RowsBeforeBytes, Sent, At
    <3> QED BY <1>3, <1>5, <2>2, <3>1, RowsKept DEF RowsBeforeBytes
  <2>6. RiskCosts'
    <3>1. r \notin gaveUp
      BY <1>1 DEF OwnRecords
    <3>2. AtRisk' \subseteq AtRisk
      BY <1>2, <1>3, <1>7, <3>1 DEF AtRisk, IssueTypeOK
    <3> QED BY <1>4, <3>2, RiskKept, IssueConstants
  <2>7. CreationsGo'
    BY <1>2, <2>1, <2>2, CreationsPassed
  <2> QED BY <2>3, <2>4, <2>5, <2>6, <2>7
<1> QED BY <1>6, <1>7 DEF signAndSubmit

\* Landed after its flow gave it up: it was at risk then.
LEMMA AppliedLateStep == ASSUME IInv, AppliedLate PROVE IInv'
<1> USE DEF IInv, databaseVars
<1>1. PICK tx \in late :
         /\ late' = late \ {tx}
         /\ IF InSequence(tx) THEN Land(tx) ELSE UNCHANGED chainVars
  BY DEF AppliedLate
<1>2. tx \in Tx /\ tx.rwa \in gaveUp /\ tx.rwa \in Rwas /\ record[tx.rwa] # None
  BY DEF OwnRecords, IssueTypeOK
<1>3. UNCHANGED <<record, stored, indexed, skipped, sessions, refused, flow, gaveUp, faults>>
  BY DEF AppliedLate
<1>4. /\ offering' \in [Rwas -> Recorded \union {None}]
      /\ vault' \in Nat /\ purse' \in [Users -> Nat] /\ allowance' \in Nat
      /\ sequence' \in Nat
      /\ \A s \in Rwas : s # tx.rwa => offering'[s] = offering[s]
      /\ tx.step = "approving" => offering' = offering
      /\ \/ sequence' = sequence + 1
         \/ sequence' = sequence /\ purse' = purse /\ allowance' = allowance
  <2>1. CASE Land(tx)
    BY <1>2, <2>1, LandEffects
  <2>2. CASE UNCHANGED chainVars
    BY <2>2 DEF chainVars, ledgerVars, IssueTypeOK
  <2> QED BY <1>1, <2>1, <2>2
<1>5. IssueTypeOK'
  BY <1>1, <1>3, <1>4 DEF IssueTypeOK
<1>6. OwnRecords'
  <2>1. \A u \in Tabs : Uncreated(u) => offering'[flow[u].rwa] = None
    <3> SUFFICES ASSUME NEW u \in Tabs, Uncreated(u) PROVE offering'[flow[u].rwa] = None
      OBVIOUS
    <3>1. /\ flow[u].rwa \in Rwas /\ flow[u].rwa \notin gaveUp /\ offering[flow[u].rwa] = None
      BY FormTypes DEF OwnRecords, Uncreated
    <3> QED BY <1>2, <1>4, <3>1
  <2>2. \A s \in Rwas : offering'[s] # None => record[s] # None
    BY <1>2, <1>4 DEF OwnRecords
  <2> QED BY <1>1, <1>3, <2>1, <2>2 DEF OwnRecords, Uncreated, TermsOf
<1>7. RowsBeforeBytes'
  BY <1>3 DEF RowsBeforeBytes, At
<1>8. RiskCosts'
  <2>1. AtRisk' \subseteq AtRisk
    <3> SUFFICES ASSUME NEW s \in gaveUp,
                        offering'[s] # None \/ \E x \in late' : x.rwa = s /\ x.step = "creating"
                 PROVE  s \in AtRisk
      BY <1>3 DEF AtRisk
    <3>1. s \in Rwas
      BY DEF IssueTypeOK
    <3>2. CASE s # tx.rwa \/ offering' = offering
      BY <1>1, <1>4, <3>1, <3>2 DEF AtRisk
    <3>3. CASE s = tx.rwa /\ offering' # offering
      <4>1. tx.step = "creating"
        BY <1>2, <1>4, <3>3 DEF Tx
      <4> QED BY <4>1, <3>3 DEF AtRisk
    <3> QED BY <3>2, <3>3
  <2>2. faults' \in Nat /\ faults <= faults'
    BY <1>3, IssueConstants DEF IssueTypeOK
  <2> QED BY <2>1, <2>2, RiskKept
<1>9. CreationsGo'
  <2> SUFFICES ASSUME NEW u \in Tabs PROVE CreationGoes(u)'
    BY DEF CreationsGo
  <2>1. flow[u].seq \in Nat /\ sequence \in Nat
    BY FormTypes DEF IssueTypeOK
  <2> QED BY <1>3, <1>4, <2>1 DEF CreationsGo, CreationGoes, Creates, TermsOf
<1> QED BY <1>5, <1>6, <1>7, <1>8, <1>9

\* The poller promotes the record of an offering on chain.
LEMMA MarkStep == ASSUME IInv, markCollateralOnChain PROVE IInv'
<1> USE DEF IInv
<1>1. PICK r \in Rwas \ indexed :
         /\ offering[r] # None /\ indexed' = indexed \union {r}
         /\ \/ OnChain(r) /\ UNCHANGED skipped
            \/ skipped' = skipped \union {r} /\ UNCHANGED record
  BY DEF markCollateralOnChain
<1> DEFINE c == [record[r] EXCEPT !.status = "ON_CHAIN", !.token = TRUE]
<1>2. record[r] # None /\ record[r] \in Collateral
  BY <1>1 DEF OwnRecords, IssueTypeOK
<1>3. c \in Collateral /\ c.terms = record[r].terms /\ c.documents = record[r].documents
  BY <1>2 DEF Collateral
<1>4. record' = [record EXCEPT ![r] = c] \/ record' = record
  BY <1>1, <1>2 DEF OnChain, Collateral
<1> HIDE DEF c
<1>5. /\ RecordsKept /\ record' \in [Rwas -> Collateral \union {None}]
  BY <1>2, <1>3, <1>4, RowKept, RecordsSame DEF IssueTypeOK
<1>6. faults' \in 0..MaxFaults /\ faults <= faults'
  BY IssueConstants DEF markCollateralOnChain, IssueTypeOK
<1>7. UNCHANGED <<chainVars, stored, sessions, refused, flow, late, gaveUp, faults>>
  BY DEF markCollateralOnChain, signVars
<1>8. IssueTypeOK'
  <2>1. ASSUME NEW s \in Rwas, stored[s] # {} PROVE stored[s] \subseteq record'[s].documents
    BY <2>1, <1>5 DEF RecordsKept, RowsBeforeBytes, IssueTypeOK
  <2>2. skipped' \subseteq indexed' /\ indexed' \subseteq Rwas
    BY <1>1 DEF IssueTypeOK
  <2> QED BY <1>5, <1>6, <1>7, <2>1, <2>2 DEF IssueTypeOK, chainVars, ledgerVars
<1>9. \A s \in Rwas : record'[s] = None => record[s] = None
  BY <1>5 DEF RecordsKept
<1>10. OwnRecords'
  <2>1. ASSUME NEW u \in Tabs, flow[u].rwa # None
        PROVE  /\ record'[flow[u].rwa] # None
               /\ flow[u].terms = record'[flow[u].rwa].terms
    BY <1>5, <2>1, FormTypes DEF OwnRecords, RecordsKept, TermsOf
  <2>2. \A s \in gaveUp : record'[s] # None
    BY <1>5 DEF OwnRecords, RecordsKept, IssueTypeOK
  <2> QED BY <1>7, <1>9, <2>1, <2>2 DEF OwnRecords, Uncreated, TermsOf, chainVars, ledgerVars
<1>11. RowsBeforeBytes'
  <2>1. ASSUME NEW u \in Tabs, NEW d \in Docs, flow[u].slots[d] = "sent"
        PROVE  flow[u].pc = "documents" /\ d \in record'[flow[u].rwa].documents
    BY <1>5, <2>1, FormTypes DEF OwnRecords, RecordsKept, RowsBeforeBytes, At
  <2> QED BY <1>7, <1>9, <2>1 DEF RowsBeforeBytes, At
<1>12. RiskCosts'
  <2>1. AtRisk' = AtRisk
    BY <1>7 DEF AtRisk, chainVars, ledgerVars
  <2> QED BY <1>6, <2>1, RiskKept, IssueConstants
<1>13. CreationsGo'
  <2>1. ASSUME NEW u \in Tabs PROVE CreationGoes(u)'
    BY <1>5, <1>7, FormTypes
       DEF CreationsGo, CreationGoes, Creates, TermsOf, OwnRecords, RecordsKept, chainVars,
           ledgerVars
  <2> QED BY <2>1 DEF CreationsGo
<1> QED BY <1>8, <1>10, <1>11, <1>12, <1>13

\* Every step keeps the invariant.
LEMMA NextKeepsIInv == ASSUME IInv, [IssueNext]_issueVars PROVE IInv'
<1>1. ASSUME NEW t \in Tabs, Advance(t) PROVE IInv'
  BY <1>1, CreateStep, UploadsSettledStep, RequestUploadStep, PutBytesStep, PrepareApproveStep,
     PrepareCreateStep, SignInitStep, SignCompleteStep, SignAndSubmitStep, OutOfSequenceStep, UpdateStep DEF Advance
<1>2. CASE UNCHANGED issueVars
  BY <1>2 DEF issueVars, chainVars, ledgerVars, databaseVars, IInv, IssueTypeOK, OwnRecords,
     RowsBeforeBytes, RiskCosts, AtRisk, CreationsGo, CreationGoes, Creates, TermsOf, At, Uncreated
<1> QED BY <1>1, <1>2, AppliedLateStep, MarkStep, IssueStep, FailStep, GivesUpStep DEF IssueNext

\* The initial state satisfies it.
LEMMA InitIInv == IssueInit => IInv
<1> SUFFICES ASSUME IssueInit PROVE IInv
  OBVIOUS
<1> USE DEF IssueInit, LedgerInit
<1>1. \A t \in Tabs : flow[t] = NoFlow
  OBVIOUS
<1>2. IssueTypeOK
  <2>1. sessions \in Seq({"initiated", "completed"})
    OBVIOUS
  <2>2. flow \in [Tabs -> Form] /\ refused \in BOOLEAN
    BY NoFlowType
  <2>3. /\ offering \in [Rwas -> Recorded \union {None}]
        /\ record \in [Rwas -> Collateral \union {None}]
        /\ stored \in [Rwas -> SUBSET Docs] /\ \A r \in Rwas : stored[r] = {}
    OBVIOUS
  <2>4. /\ vault \in Nat /\ purse \in [Users -> Nat] /\ faults \in 0..MaxFaults
        /\ allowance \in Nat /\ sequence \in Nat /\ late \subseteq Tx
    BY IssueConstants
  <2>5. skipped \subseteq indexed /\ indexed \subseteq Rwas /\ gaveUp \subseteq Rwas
    OBVIOUS
  <2> HIDE DEF IssueInit, LedgerInit
  <2> QED BY <2>1, <2>2, <2>3, <2>4, <2>5 DEF IssueTypeOK
<1>3. OwnRecords
  BY <1>1 DEF OwnRecords, Uncreated, NoFlow
<1>4. RowsBeforeBytes
  BY <1>1, NoFlowType DEF RowsBeforeBytes
<1>5. RiskCosts
  <2>1. AtRisk = {}
    BY DEF AtRisk
  <2> QED BY <2>1, FS_EmptySet DEF RiskCosts
<1>6. CreationsGo
  BY <1>1 DEF CreationsGo, CreationGoes, NoFlow
<1> QED BY <1>2, <1>3, <1>4, <1>5, <1>6 DEF IInv

\* The invariant holds: a record belongs to one attempt, what was created though its
\* flow failed is paid for by faults, and a creation that has its turn goes through
\* (IssueFlow.signAndSubmit, .givesUp).
THEOREM IssueInvariant == IssueSpec => []IInv
BY InitIInv, NextKeepsIInv, PTL DEF IssueSpec

\* However many tabs and retries, at most as many offerings are created whose shipper
\* was told of an error as calls have failed (issueFlow, signAndSubmit).
THEOREM UntoldCostsFaults == IssueSpec => []UntoldOnlyByFaults
<1>1. IInv => UntoldOnlyByFaults
  <2> SUFFICES ASSUME IInv PROVE UntoldOnlyByFaults
    OBVIOUS
  <2> DEFINE untold == {r \in gaveUp : offering[r] # None}
  <2>1. untold \subseteq AtRisk
    BY DEF AtRisk
  <2>2. IsFiniteSet(AtRisk) /\ Cardinality(AtRisk) <= faults /\ faults \in Nat
    BY IssueConstants DEF IInv, RiskCosts, IssueTypeOK
  <2>3. IsFiniteSet(untold) /\ Cardinality(untold) <= Cardinality(AtRisk)
    BY <2>1, <2>2, FS_Subset
  <2>4. Cardinality(untold) \in Nat /\ Cardinality(AtRisk) \in Nat
    BY <2>2, <2>3, FS_CardinalityType
  <2> QED BY <2>2, <2>3, <2>4 DEF UntoldOnlyByFaults
<1> QED BY <1>1, IssueInvariant, PTL

\* The fee the form estimates with is the factory's, or more.  They are two constants,
\* both 50 where they are written down (frontend/docs/frontend.md:230,
\* contract/.env.example:12); nothing in the code compares them.
FormKnowsTheFee == ProtocolFeeBps <= PROTOCOL_FEE_BPS

\* A balance the form accepts pays the upfront, whose parts are rounded down.
LEMMA AffordableCovers ==
    ASSUME FormKnowsTheFee, NEW terms \in Terms, NEW balance \in Nat,
           useEstimatedAllowance(balance, terms)
    PROVE  Pulled(terms) <= balance
<1>1. /\ terms.raise \in Nat /\ terms.rate \in Nat /\ ProtocolFeeBps \in Nat
      /\ PROTOCOL_FEE_BPS \in Nat /\ ProtocolFeeBps <= PROTOCOL_FEE_BPS
  BY IssueConstants DEF FormKnowsTheFee
<1> DEFINE due == terms.raise * (terms.rate + ProtocolFeeBps)
           estimate == terms.raise * (terms.rate + PROTOCOL_FEE_BPS)
<1>2. estimate <= balance * 10000
  <2>1. balance * BpsScale >= estimate
    BY DEF useEstimatedAllowance
  <2> QED BY <2>1, <1>1 DEF BpsScale
<1>3. due \in Nat /\ estimate \in Nat /\ due <= estimate
  <2>1. \A n, p, q \in Nat : p <= q => n * p \in Nat /\ n * q \in Nat /\ n * p <= n * q
    OBVIOUS
  <2>2. terms.rate + ProtocolFeeBps \in Nat /\ terms.rate + PROTOCOL_FEE_BPS \in Nat
        /\ terms.rate + ProtocolFeeBps <= terms.rate + PROTOCOL_FEE_BPS
    BY <1>1
  <2> QED BY <1>1, <2>1, <2>2
<1>4. \A n, m \in Nat : n <= m * 10000 => n \div 10000 <= m
  OBVIOUS
<1>5. upfront(terms) = due \div 10000
  BY DEF upfront, Fee, BpsScale
<1>6. Pulled(terms) <= upfront(terms) /\ Pulled(terms) \in Nat /\ upfront(terms) \in Nat
  BY UpfrontTypes
<1> HIDE DEF due, estimate
<1>7. due <= balance * 10000
  BY <1>2, <1>3
<1>8. upfront(terms) <= balance
  BY <1>3, <1>4, <1>5, <1>7
<1> QED BY <1>6, <1>8

\* Clean runs were always clean.
LEMMA CleanBefore ==
    ASSUME IInv, Clean', faults' \in Nat, faults <= faults', gaveUp \subseteq gaveUp', RecordsKept,
           refused => refused',
           \A r \in Rwas : offering'[r] = None => offering[r] = None
    PROVE  Clean
<1>1. faults = 0
  <2>1. faults' = 0 /\ faults \in Nat
    BY IssueConstants DEF Clean, IInv, IssueTypeOK
  <2> QED BY <2>1
<1>2. ASSUME NEW r \in gaveUp PROVE Acceptable(TermsOf(r))
  <2>1. r \in Rwas /\ record[r] # None
    BY DEF IInv, OwnRecords, IssueTypeOK
  <2>2. record'[r].terms = record[r].terms
    BY <2>1 DEF RecordsKept
  <2>3. Acceptable(TermsOf(r))'
    BY DEF Clean
  <2> QED BY <2>2, <2>3 DEF Acceptable, TermsOf
<1> QED BY <1>1, <1>2 DEF Clean

\* A step of one flow keeps the leader, if that flow leads after it or did not before.
LEMMA LeaderKept ==
    ASSUME IInv, Led, Clean, NEW t \in Tabs, Moves(t),
           UNCHANGED <<late, purse, sequence, allowance>>,
           Pending(t)' /\ flow'[t].affordable =>
               useEstimatedAllowance(InitialPurse[Shipper], flow'[t].terms),
           Leads(t)' \/ (~NobodyYet /\ ~Leads(t))
    PROVE  Led'
<1>1. \A u \in Tabs : u # t => flow'[u] = flow[u]
  BY DEF Moves
<1>2. late' = {} /\ purse' = InitialPurse
  BY DEF Led
<1>3. ASSUME NEW u \in Tabs, Pending(u)', flow'[u].affordable
      PROVE  useEstimatedAllowance(InitialPurse[Shipper], flow'[u].terms)
  <2>1. CASE u = t
    BY <1>3, <2>1
  <2>2. CASE u # t
    BY <1>1, <1>3, <2>2 DEF Led, Pending
  <2> QED BY <2>1, <2>2
<1>4. \E u \in Tabs : Leads(u)'
  <2>1. CASE Leads(t)'
    BY <2>1
  <2>2. CASE ~NobodyYet /\ ~Leads(t)
    <3>1. PICK u \in Tabs : Leads(u) /\ u # t
      BY <2>2 DEF Led
    <3>2. flow'[u] = flow[u]
      BY <1>1, <3>1
    <3>3. Leads(u)'
      BY <3>1, <3>2 DEF Leads, At
    <3> QED BY <3>3
  <2> QED BY <2>1, <2>2
<1> QED BY <1>2, <1>3, <1>4 DEF Led, useEstimatedAllowance

\* A flow that keeps its terms can pay as before.
LEMMA AffordableStays ==
    ASSUME Led, Clean, NEW t \in Tabs, Pending(t), flow'[t].terms = flow[t].terms,
           flow'[t].affordable = flow[t].affordable
    PROVE  Pending(t)' /\ flow'[t].affordable =>
               useEstimatedAllowance(InitialPurse[Shipper], flow'[t].terms)
BY DEF Led

\* A step that breaks nothing a clean run rests on, by a flow that then leads.
LEMMA LeadTaken ==
    ASSUME IInv, Led, Clean', NEW t \in Tabs, Pending(t),
           UNCHANGED <<chainVars, late, gaveUp, refused>>,
           RecordsKept, faults' \in Nat, faults <= faults', Moves(t), Leads(t)',
           flow'[t].terms = flow[t].terms, flow'[t].affordable = flow[t].affordable
    PROVE  Led'
<1> USE DEF chainVars, ledgerVars
<1>1. Clean
  BY CleanBefore
<1> QED BY <1>1, AffordableStays, LeaderKept

\* A new attempt leads until another has come far; its form knows whether it can pay.
LEMMA LedIssue == ASSUME IInv, Led, Clean', NEW t \in Tabs, issue(t) PROVE Led'
<1> USE DEF chainVars, ledgerVars, databaseVars
<1>1. PICK terms \in Terms, attached \in SUBSET Docs :
         flow' = [flow EXCEPT ![t] =
              [NoFlow EXCEPT !.pc = "create", !.terms = terms,
                  !.slots = [d \in Docs |-> IF d \in attached THEN "uploading" ELSE "none"],
                  !.affordable = useEstimatedAllowance(purse[Shipper], terms)]]
  BY DEF issue
<1> DEFINE n == [NoFlow EXCEPT !.pc = "create", !.terms = terms,
                  !.slots = [d \in Docs |-> IF d \in attached THEN "uploading" ELSE "none"],
                  !.affordable = useEstimatedAllowance(purse[Shipper], terms)]
<1>2. useEstimatedAllowance(purse[Shipper], terms) \in BOOLEAN
  BY DEF useEstimatedAllowance
<1>3. /\ n \in Form /\ n.pc = "create" /\ n.terms = terms
      /\ n.affordable = useEstimatedAllowance(purse[Shipper], terms)
  BY <1>2 DEF NoFlow, Form, Pcs, Slots
<1>4. flow' = [flow EXCEPT ![t] = n]
  BY <1>1
<1> HIDE DEF n
<1>5. Moves(t) /\ flow'[t] = n
  BY <1>3, <1>4, MovesTo DEF IInv
<1>6. Clean
  <2>1. faults' \in Nat /\ faults <= faults' /\ RecordsKept
    BY IssueConstants, RecordsSame DEF issue, IInv, IssueTypeOK
  <2> QED BY <2>1, CleanBefore DEF issue
<1>7. flow'[t].affordable => useEstimatedAllowance(InitialPurse[Shipper], flow'[t].terms)
  BY <1>3, <1>5, <1>6 DEF Led
<1>8. Leads(t)'
  BY <1>3, <1>5 DEF Leads
<1> QED BY <1>5, <1>6, <1>7, <1>8, LeaderKept DEF issue

\* In a clean run the answer to the creation of the record arrives.
LEMMA LedCreate == ASSUME IInv, Led, Clean', NEW t \in Tabs, create(t) PROVE Led'
<1> USE DEF IInv
<1> DEFINE r == generateCustomId
           c == NewRecord(flow[t].terms)
<1>1. r \in Rwas /\ record[r] = None
  BY DEF create, generateCustomId
<1>2. record' = [record EXCEPT ![r] = c]
  BY DEF create
<1>3. /\ flow' = [flow EXCEPT ![t].pc = "documents", ![t].rwa = r]
      /\ gaveUp' = gaveUp /\ faults' = faults
  <2>1. faults' = 0 /\ faults \in Nat
    BY IssueConstants DEF Clean, IssueTypeOK
  <2> QED BY <2>1 DEF create, Fault
<1> HIDE DEF r, c
<1>4. RecordsKept
  BY <1>1, <1>2 DEF RecordsKept, IssueTypeOK
<1> DEFINE n == [flow[t] EXCEPT !.pc = "documents", !.rwa = r]
<1>5. /\ n \in Form /\ n.pc = "documents" /\ n.terms = flow[t].terms
      /\ n.affordable = flow[t].affordable
  BY <1>1, FormTypes DEF Form, Pcs
<1>6. flow' = [flow EXCEPT ![t] = n]
  BY <1>3, FormTypes
<1> HIDE DEF n
<1>7. Moves(t) /\ flow'[t] = n
  BY <1>5, <1>6, MovesTo
<1>8. Leads(t)'
  BY <1>5, <1>7 DEF Leads
<1>9. faults' \in Nat /\ faults <= faults'
  BY <1>3, IssueConstants DEF IssueTypeOK
<1> QED BY <1>3, <1>4, <1>5, <1>7, <1>8, <1>9, LeadTaken DEF create, Pending, At, signVars

\* Documents neither help nor hinder.
LEMMA LedDocuments ==
    ASSUME IInv, Led, Clean', NEW t \in Tabs,
           \/ uploadsSettled(t)
           \/ \E d \in Docs : requestDocumentUpload(t, d) \/ putBytes(t, d)
    PROVE  Led'
<1> USE DEF IInv
<1>0. faults' = 0 /\ faults \in Nat /\ ~Fault
  <2>1. faults' = 0 /\ faults \in Nat
    BY IssueConstants DEF Clean, IssueTypeOK
  <2> QED BY <2>1 DEF Fault
<1>1. flow[t].pc = "documents" /\ flow[t].rwa \in Rwas /\ record[flow[t].rwa] # None
  BY FormTypes DEF uploadsSettled, requestDocumentUpload, putBytes, At, OwnRecords
<1>2. UNCHANGED <<chainVars, late, gaveUp, refused>> /\ faults' \in Nat /\ faults <= faults'
  <2>1. UNCHANGED <<chainVars, late, gaveUp, refused>>
    BY DEF uploadsSettled, requestDocumentUpload, putBytes, databaseVars, signVars
  <2>2. faults' = faults
    BY <1>0 DEF uploadsSettled, requestDocumentUpload, putBytes
  <2> QED BY <1>0, <2>1, <2>2
<1>3. RecordsKept
  <2>1. CASE record' = record
    BY <2>1, RecordsSame
  <2>2. ASSUME NEW d \in Docs,
               record' = [record EXCEPT ![flow[t].rwa].documents = @ \union {d}]
        PROVE  RecordsKept
    <3> DEFINE c == [record[flow[t].rwa] EXCEPT !.documents = @ \union {d}]
    <3>1. record[flow[t].rwa] \in Collateral
      BY <1>1 DEF IssueTypeOK
    <3>2. /\ c \in Collateral /\ c.terms = record[flow[t].rwa].terms
          /\ c.documents = record[flow[t].rwa].documents \union {d}
      BY <3>1 DEF Collateral
    <3>3. record' = [record EXCEPT ![flow[t].rwa] = c]
      BY <2>2, <3>1 DEF Collateral
    <3> HIDE DEF c
    <3> QED BY <1>1, <3>2, <3>3, RowKept
  <2> QED BY <1>0, <2>1, <2>2 DEF uploadsSettled, requestDocumentUpload, putBytes, databaseVars
<1>4. /\ Moves(t) /\ flow'[t].pc \in {"documents", "approve"}
      /\ flow'[t].terms = flow[t].terms /\ flow'[t].affordable = flow[t].affordable
  <2>1. CASE uploadsSettled(t)
    <3> DEFINE n == [flow[t] EXCEPT !.pc = "approve", !.slots = NoFlow.slots]
    <3>1. /\ n \in Form /\ n.pc = "approve" /\ n.terms = flow[t].terms
          /\ n.affordable = flow[t].affordable
      BY FormTypes, NoFlowType DEF Form, Pcs
    <3>2. flow' = [flow EXCEPT ![t] = n]
      BY <2>1, FormTypes DEF uploadsSettled
    <3> HIDE DEF n
    <3> QED BY <3>1, <3>2, MovesTo
  <2>2. ASSUME NEW d \in Docs, NEW state \in {"sent", "done", "error"}, Slot(t, d, state)
        PROVE  /\ Moves(t) /\ flow'[t].pc = "documents"
               /\ flow'[t].terms = flow[t].terms /\ flow'[t].affordable = flow[t].affordable
    <3>1. state \in Slots
      BY DEF Slots
    <3> QED BY <1>1, <2>2, <3>1, SlotMoves
  <2> QED BY <2>1, <2>2 DEF requestDocumentUpload, putBytes
<1>5. Leads(t)'
  BY <1>4 DEF Leads
<1> QED BY <1>1, <1>2, <1>3, <1>4, <1>5, LeadTaken DEF Pending

\* A transaction built at the sequence number of the moment has its turn.
LEMMA LedPrepared ==
    ASSUME IInv, Led, Clean', NEW t \in Tabs, NEW step \in {"approving", "creating"},
           Prepared(t, step), Pending(t), gaveUp' = gaveUp,
           UNCHANGED <<chainVars, databaseVars, late, faults>>
    PROVE  Led'
<1> USE DEF IInv
<1>1. step \in Pcs
  BY DEF Pcs
<1>2. /\ Moves(t) /\ flow'[t].pc = step /\ flow'[t].terms = flow[t].terms
      /\ flow'[t].affordable = flow[t].affordable /\ flow'[t].seq = sequence + 1
  BY <1>1, PreparedMoves
<1>3. Leads(t)'
  BY <1>2 DEF Leads, chainVars
<1>4. faults' \in Nat /\ faults <= faults' /\ RecordsKept /\ refused' = refused
  BY IssueConstants, RecordsSame DEF IssueTypeOK, databaseVars
<1> QED BY <1>2, <1>3, <1>4, LeadTaken

\* A flow that fails where no call failed did not lead, or could not pay.
LEMMA LeadFails ==
    ASSUME IInv, Led, Clean', NEW t \in Tabs, onError(t),
           UNCHANGED <<chainVars, databaseVars, late, faults>>,
           ~NobodyYet, Leads(t) => ~flow[t].affordable
    PROVE  Led'
<1> USE DEF IInv, chainVars, ledgerVars, databaseVars
<1>1. Idles(t)
  BY OnErrorIdles
<1>2. Clean
  <2>1. faults' \in Nat /\ faults <= faults' /\ RecordsKept /\ gaveUp \subseteq gaveUp'
    BY <1>1, IssueConstants, RecordsSame DEF IssueTypeOK, Idles
  <2> QED BY <2>1, CleanBefore
<1>3. ~Pending(t)'
  BY <1>1 DEF Idles, Pending
<1>4. Leads(t) => Leads(t)'
  BY <1>1 DEF Leads, Idles, At
<1> QED BY <1>1, <1>2, <1>3, <1>4, LeaderKept DEF Idles

\* The approval is refused only for a rate the factory would refuse.
LEMMA LedPrepareApprove ==
    ASSUME IInv, Led, Clean', NEW t \in Tabs, prepareApproveFactory(t) PROVE Led'
<1> USE DEF IInv
<1>1. flow[t].pc = "approve" /\ UNCHANGED <<chainVars, databaseVars, late, faults>>
  BY DEF prepareApproveFactory, At
<1>2. CASE flow[t].terms.rate > 0
  <2>1. Prepared(t, "approving") /\ gaveUp' = gaveUp
    BY <1>2 DEF prepareApproveFactory
  <2> QED BY <1>1, <2>1, LedPrepared DEF Pending
<1>3. CASE ~(flow[t].terms.rate > 0)
  <2>1. onError(t)
    BY <1>3 DEF prepareApproveFactory
  <2>2. flow[t].rwa \in Rwas /\ flow[t].rwa # None /\ flow[t].terms = TermsOf(flow[t].rwa)
    BY <1>1, FormTypes DEF OwnRecords
  <2>3. flow[t].rwa \in gaveUp'
    BY <2>1, <2>2, OnErrorIdles DEF Idles
  <2>4. Acceptable(TermsOf(flow[t].rwa))
    BY <1>1, <2>3 DEF Clean, Acceptable, TermsOf, databaseVars
  <2> QED BY <1>3, <2>2, <2>4 DEF Acceptable
<1> QED BY <1>2, <1>3

\* The simulation fails for a leader only if it could not pay.
LEMMA LedPrepareCreate ==
    ASSUME FormKnowsTheFee, IInv, Led, Clean', NEW t \in Tabs, prepareCreateRwaToken(t)
    PROVE  Led'
<1> USE DEF IInv
<1> DEFINE r == flow[t].rwa
<1>1. flow[t].pc = "prepare" /\ UNCHANGED <<chainVars, databaseVars, late, faults>>
  BY DEF prepareCreateRwaToken, At
<1>2. CASE Creates(r)
  <2>1. Prepared(t, "creating") /\ gaveUp' = gaveUp
    BY <1>2 DEF prepareCreateRwaToken
  <2> QED BY <1>1, <2>1, LedPrepared DEF Pending
<1>3. CASE ~Creates(r)
  <2>1. onError(t)
    BY <1>3 DEF prepareCreateRwaToken
  <2>2. /\ r \in Rwas /\ r # None /\ flow[t].terms = TermsOf(r)
        /\ record[r] # None
    BY <1>1, FormTypes DEF OwnRecords
  <2>3. flow[t].terms \in Terms
    BY <2>2 DEF IssueTypeOK, Collateral, TermsOf
  <2>4. Idles(t) /\ r \in gaveUp'
    BY <2>1, <2>2, OnErrorIdles DEF Idles
  <2>5. Acceptable(TermsOf(r))
    BY <1>1, <2>4 DEF Clean, Acceptable, TermsOf, databaseVars
  <2>6. ~NobodyYet
    BY <1>1 DEF NobodyYet
  <2>7. Clean
    <3>1. faults' \in Nat /\ faults <= faults' /\ RecordsKept /\ gaveUp \subseteq gaveUp'
      BY <1>1, <2>4, IssueConstants, RecordsSame DEF IssueTypeOK, Idles, databaseVars
    <3> QED BY <1>1, <3>1, CleanBefore DEF chainVars, ledgerVars, databaseVars
  <2>8. ASSUME Leads(t), flow[t].affordable PROVE FALSE
    <3>1. allowance = upfront(flow[t].terms)
      BY <1>1, <2>8 DEF Leads, At
    <3>2. purse[Shipper] = InitialPurse[Shipper] /\ InitialPurse[Shipper] \in Nat
      BY <2>7, IssueConstants DEF Led
    <3>3. useEstimatedAllowance(InitialPurse[Shipper], flow[t].terms)
      BY <1>1, <2>7, <2>8 DEF Led, Pending
    <3>4. Pulled(flow[t].terms) <= purse[Shipper]
      BY <2>3, <3>2, <3>3, AffordableCovers
    <3>5. Pulled(flow[t].terms) <= allowance
      BY <2>3, <3>1, UpfrontTypes
    <3> QED BY <1>3, <2>2, <2>5, <3>4, <3>5 DEF Creates
  <2> QED BY <1>1, <2>1, <2>6, <2>8, LeadFails
<1> QED BY <1>2, <1>3

\* Who lost its turn had lost it to a leader.
LEMMA LedOutOfSequence ==
    ASSUME IInv, Led, Clean', NEW t \in Tabs, outOfSequence(t) PROVE Led'
<1> USE DEF IInv
<1>1. /\ flow[t].pc \in {"approving", "creating"} /\ flow[t].seq # sequence + 1
      /\ onError(t) /\ UNCHANGED <<chainVars, databaseVars, late, faults>>
  BY DEF outOfSequence, Signed, Sent, InSequence, TxOf
<1>2. ~Leads(t) /\ ~NobodyYet
  BY <1>1 DEF Leads, NobodyYet, At
<1> QED BY <1>1, <1>2, LeadFails

\* Signing keeps the lead; a refused signature leaves no clean run.
LEMMA LedSigning ==
    ASSUME IInv, Led, Clean', NEW t \in Tabs, signInit(t) \/ signComplete(t) PROVE Led'
<1> USE DEF IInv
<1>1. /\ Sent(t) /\ UNCHANGED <<chainVars, record, refused, late, gaveUp, faults>>
      /\ \/ flow' = [flow EXCEPT ![t].session = Len(sessions) + 1]
         \/ flow' = [flow EXCEPT ![t].session = 0, ![t].signed = TRUE]
  <2>1. ~refused'
    BY DEF Clean
  <2> QED BY <2>1 DEF signInit, signComplete
<1>2. Len(sessions) + 1 \in Nat
  BY DEF IssueTypeOK
<1>3. /\ Moves(t) /\ flow'[t].pc = flow[t].pc /\ flow'[t].rwa = flow[t].rwa
      /\ flow'[t].terms = flow[t].terms
      /\ flow'[t].affordable = flow[t].affordable /\ flow'[t].seq = flow[t].seq
  BY <1>1, <1>2, FormTypes, SignMoves
<1>4. Clean
  <2>1. faults' \in Nat /\ faults <= faults' /\ RecordsKept
    BY <1>1, IssueConstants, RecordsSame DEF IssueTypeOK
  <2> QED BY <1>1, <2>1, CleanBefore DEF chainVars, ledgerVars
<1>5. Pending(t)' /\ flow'[t].affordable =>
          useEstimatedAllowance(InitialPurse[Shipper], flow'[t].terms)
  BY <1>1, <1>3, <1>4, AffordableStays DEF Pending, Sent
<1>6. Leads(t) => Leads(t)'
  BY <1>1, <1>3 DEF Leads, At, Sent, chainVars
<1>7. CASE Leads(t) \/ ~NobodyYet
  BY <1>1, <1>3, <1>4, <1>5, <1>6, <1>7, LeaderKept DEF chainVars, ledgerVars
<1>8. CASE NobodyYet /\ ~Leads(t)
  BY <1>1, <1>8 DEF NobodyYet, Leads, At, Sent
<1> QED BY <1>7, <1>8

\* An approval that lands makes its flow the leader; a creation ends the search.
LEMMA LedSignAndSubmit ==
    ASSUME IInv, Led, Clean', NEW t \in Tabs, signAndSubmit(t) PROVE Led'
<1> USE DEF IInv
<1> DEFINE r == flow[t].rwa
<1>1. /\ Sent(t) /\ TxOf(t) \in Tx /\ TxOf(t).rwa = r /\ TxOf(t).step = flow[t].pc
      /\ TxOf(t).seq = flow[t].seq /\ r \in Rwas /\ r # None /\ record[r] # None
      /\ Land(TxOf(t))
  BY TxTypes DEF signAndSubmit, Signed
<1>2. /\ flow[t].seq = sequence + 1 /\ UNCHANGED <<databaseVars, late>>
  BY <1>1, LandEffects DEF signAndSubmit
<1>3. Succeeds(TxOf(t))
  BY <1>1, <1>2 DEF Succeeds, Sent, CreationsGo, CreationGoes
<1>4. faults' = faults /\ gaveUp' = gaveUp
      /\ Goto(t, IF At(t, "approving") THEN "prepare" ELSE "finalize")
  <2>1. faults' = 0 /\ faults \in Nat
    BY IssueConstants DEF Clean, IssueTypeOK
  <2>2. ~Fault
    BY <2>1 DEF Fault
  <2> QED BY <1>3, <2>2 DEF signAndSubmit
<1>5. flow[t].pc = "approving"
  <2>1. SUFFICES ASSUME flow[t].pc = "creating" PROVE FALSE
    BY <1>1 DEF Sent
  <2>2. offering'[r] # None
    BY <1>1, <1>3, <2>1, LandEffects
  <2> QED BY <1>1, <2>2 DEF Clean
<1>6. offering' = offering /\ purse' = purse /\ allowance' = upfront(TermsOf(r))
  BY <1>1, <1>5, LandEffects
<1>7. /\ Moves(t) /\ flow'[t].pc = "prepare" /\ flow'[t].terms = flow[t].terms
      /\ flow'[t].affordable = flow[t].affordable
  <2>1. "prepare" \in Pcs
    BY DEF Pcs
  <2> QED BY <1>4, <1>5, <2>1, GotoMoves DEF At
<1>8. Clean
  <2>1. /\ faults' \in Nat /\ faults <= faults' /\ RecordsKept /\ gaveUp \subseteq gaveUp'
        /\ refused' = refused
    BY <1>2, <1>4, IssueConstants, RecordsSame DEF IssueTypeOK, databaseVars
  <2> QED BY <1>6, <2>1, CleanBefore
<1>9. Leads(t)'
  <2>1. flow[t].terms = TermsOf(r)
    BY <1>1 DEF OwnRecords
  <2> QED BY <1>6, <1>7, <2>1 DEF Leads, At, upfront
<1>10. ASSUME NEW u \in Tabs, Pending(u)', flow'[u].affordable
       PROVE  useEstimatedAllowance(InitialPurse[Shipper], flow'[u].terms)
  <2>1. CASE u = t
    BY <1>5, <1>7, <1>8, <1>10, <2>1 DEF Led, Pending
  <2>2. CASE u # t
    BY <1>7, <1>8, <1>10, <2>2 DEF Led, Pending, Moves
  <2> QED BY <2>1, <2>2
<1>11. late' = {} /\ purse' = InitialPurse
  BY <1>2, <1>6, <1>8 DEF Led
<1> QED BY <1>9, <1>10, <1>11 DEF Led, useEstimatedAllowance

\* A flow that is done does not lead.
LEMMA LedUpdate == ASSUME IInv, Led, Clean', NEW t \in Tabs, update(t) PROVE Led'
<1> USE DEF IInv
<1> DEFINE r == flow[t].rwa
           c == [record[r] EXCEPT !.token = TRUE]
<1>1. flow[t].pc = "finalize" /\ r \in Rwas /\ record[r] # None
  BY FormTypes DEF update, At, OwnRecords
<1>2. Moves(t) /\ flow'[t].pc = "done"
  <2>1. "done" \in Pcs
    BY DEF Pcs
  <2> QED BY <2>1, GotoMoves DEF update
<1>3. RecordsKept
  <2>1. record[r] \in Collateral
    BY <1>1 DEF IssueTypeOK
  <2>2. c \in Collateral /\ c.terms = record[r].terms /\ c.documents = record[r].documents
    BY <2>1 DEF Collateral
  <2>3. record' = [record EXCEPT ![r] = c] \/ record' = record
    BY <2>1 DEF update, Collateral
  <2> HIDE DEF c
  <2> QED BY <1>1, <2>2, <2>3, RowKept, RecordsSame
<1>4. Clean
  <2>1. faults' \in Nat /\ faults <= faults' /\ gaveUp \subseteq gaveUp'
    BY IssueConstants DEF update, Fault, IssueTypeOK
  <2> QED BY <1>3, <2>1, CleanBefore DEF update, chainVars, ledgerVars, signVars
<1>5. ~Leads(t) /\ ~NobodyYet /\ ~Pending(t)'
  BY <1>1, <1>2 DEF Leads, NobodyYet, At, Pending
<1> QED BY <1>2, <1>4, <1>5, LeaderKept DEF update, chainVars, ledgerVars

\* These steps leave no clean run: failed calls, and what follows a creation.
LEMMA NotClean ==
    ASSUME IInv, Led, Clean',
           \/ AppliedLate \/ markCollateralOnChain
           \/ \E t \in Tabs : Fail(t) \/ givesUp(t)
    PROVE  FALSE
<1>1. faults' = 0 /\ faults \in Nat /\ ~Fault
  <2>1. faults' = 0 /\ faults \in Nat
    BY IssueConstants DEF Clean, IInv, IssueTypeOK
  <2> QED BY <2>1 DEF Fault
<1>2. ASSUME NEW t \in Tabs, Fail(t) \/ givesUp(t) PROVE FALSE
  BY <1>1, <1>2 DEF Fail, givesUp
<1>3. CASE markCollateralOnChain
  BY <1>3 DEF markCollateralOnChain, chainVars, ledgerVars, Clean
<1>4. CASE AppliedLate
  <2>1. PICK tx \in late :
           /\ late' = late \ {tx}
           /\ IF InSequence(tx) THEN Land(tx) ELSE UNCHANGED chainVars
    BY <1>4 DEF AppliedLate
  <2>2. tx \in Tx /\ tx.rwa \in Rwas /\ record[tx.rwa] # None
    BY DEF IInv, OwnRecords, IssueTypeOK, Tx
  <2>3. \A q \in Rwas : offering'[q] = None => offering[q] = None
    <3>1. CASE Land(tx)
      <4>1. \/ offering' = offering
            \/ offering'[tx.rwa] # None /\ \A q \in Rwas : q # tx.rwa => offering'[q] = offering[q]
        BY <2>2, <3>1, LandEffects DEF IInv, Tx
      <4> QED BY <4>1
    <3>2. CASE UNCHANGED chainVars
      BY <3>2 DEF chainVars, ledgerVars
    <3> QED BY <2>1, <3>1, <3>2
  <2>4. Clean
    <3>1. /\ faults' \in Nat /\ faults <= faults' /\ gaveUp \subseteq gaveUp' /\ RecordsKept
          /\ refused' = refused
      BY <1>1, <1>4, RecordsSame DEF AppliedLate, databaseVars
    <3> QED BY <2>3, <3>1, CleanBefore
  <2> QED BY <2>4 DEF Led
<1> QED BY <1>2, <1>3, <1>4

\* Every step keeps a leader.
LEMMA NextKeepsLed == FormKnowsTheFee => (IInv /\ Led /\ [IssueNext]_issueVars => Led')
<1> SUFFICES ASSUME FormKnowsTheFee, IInv, Led, [IssueNext]_issueVars, Clean' PROVE Led'
  BY DEF Led
<1>1. ASSUME NEW t \in Tabs, Advance(t) PROVE Led'
  <2>1. CASE uploadsSettled(t) \/ \E d \in Docs : requestDocumentUpload(t, d) \/ putBytes(t, d)
    BY <2>1, LedDocuments
  <2> QED BY <1>1, <2>1, LedCreate, LedPrepareApprove, LedPrepareCreate, LedSigning, LedSignAndSubmit,
             LedOutOfSequence, LedUpdate DEF Advance
<1>2. CASE UNCHANGED issueVars
  <2>1. UNCHANGED <<faults, offering, gaveUp, record, refused, late, purse, flow, sequence, allowance>>
    BY <1>2 DEF issueVars, chainVars, ledgerVars, databaseVars
  <2>2. Clean
    BY <2>1 DEF Clean, Acceptable, TermsOf
  <2>3. \/ NobodyYet' \/ \E t \in Tabs : Leads(t)'
    BY <2>1, <2>2 DEF Led, NobodyYet, Leads, At, upfront
  <2> QED BY <2>1, <2>2, <2>3 DEF Led, Pending, useEstimatedAllowance
<1>3. ASSUME NEW t \in Tabs, issue(t) PROVE Led'
  BY <1>3, LedIssue
<1> QED BY <1>1, <1>2, <1>3, NotClean DEF IssueNext

\* Initially nobody has come far.
LEMMA InitLed == IssueInit => Led
<1> SUFFICES ASSUME IssueInit PROVE Led
  OBVIOUS
<1>1. \A t \in Tabs : flow[t] = NoFlow
  BY DEF IssueInit
<1> QED BY <1>1 DEF IssueInit, LedgerInit, Led, NobodyYet, NoFlow, Pending, At

\* Tabs may make each other fail, but not all of them: with no failed call, terms the
\* factory accepts and a balance that pays, some flow creates its offering (issueFlow,
\* prepareApproveFactory).  A form that assumes less than the factory's fee lets all
\* of them fail.
THEOREM NotEveryFlowFails == FormKnowsTheFee => (IssueSpec => []SomeoneSucceeds)
<1>1. IInv /\ Led => SomeoneSucceeds
  <2> SUFFICES ASSUME IInv, Led, faults = 0, gaveUp # {}, \A t \in Tabs : ~Pending(t), ~refused,
                      \A r \in gaveUp : Acceptable(TermsOf(r)),
                      \A t \in Tabs : flow[t].affordable,
                      ~ \E r \in Rwas : offering[r] # None
               PROVE  FALSE
    BY DEF SomeoneSucceeds
  <2>1. Clean /\ ~NobodyYet
    BY DEF Clean, NobodyYet
  <2>2. PICK t \in Tabs : Leads(t)
    BY <2>1 DEF Led
  <2> QED BY <2>2 DEF Leads, Pending, At
<1>2. SUFFICES ASSUME FormKnowsTheFee PROVE IssueSpec => []SomeoneSucceeds
  OBVIOUS
<1>3. IInv /\ Led /\ [IssueNext]_issueVars => Led'
  BY <1>2, NextKeepsLed
<1> QED BY <1>1, <1>3, InitLed, IssueInvariant, PTL DEF IssueSpec

-----------------------------------------------------------------------------
(*****************************************************************************)
(* The forms, for anything that may be typed: what they let through is wider *)
(* than what the contract takes, by exactly what SchemaIsWider names.        *)
(*****************************************************************************)

\* What may be typed: any numbers to a tenth, any symbol.
Submission == [raise : Nat, rate : Nat, days : Nat, symbol : Seq(STRING)]

\* A whole number of units that is not zero is one at least.
LEMMA TenthsOf == \A n \in Nat : (n % 10 = 0 /\ n > 0) => n \div 10 >= 1
OBVIOUS

\* A rate the contract takes, in the form's units: whole basis points up to its limit.
WholePoints(n) == n % Tenths = 0 /\ n >= Tenths /\ n > 0 /\ n <= MaxInterestBps * Tenths

LEMMA PointsOfRate ==
    \A n \in Nat : WholePoints(n) <=> \E bps \in 1..MaxInterestBps : n = bps * Tenths
<1> SUFFICES ASSUME NEW n \in Nat
             PROVE  WholePoints(n) <=> \E bps \in 1..MaxInterestBps : n = bps * Tenths
  OBVIOUS
<1> DEFINE Points == \E bps \in 1..MaxInterestBps : n = bps * Tenths
<1>1. ASSUME WholePoints(n) PROVE Points
  <2>1. n \div 10 \in 1..950 /\ n = (n \div 10) * 10
    BY <1>1 DEF WholePoints, Tenths, MaxInterestBps
  <2>2. n \div 10 \in 1..MaxInterestBps /\ n = (n \div 10) * Tenths
    BY <2>1 DEF Tenths, MaxInterestBps
  <2> QED BY <2>2
<1>2. ASSUME Points PROVE WholePoints(n)
  <2>1. PICK bps \in 1..MaxInterestBps : n = bps * Tenths
    BY <1>2
  <2> QED BY <2>1 DEF WholePoints, Tenths, MaxInterestBps
<1> HIDE DEF Points
<1>3. WholePoints(n) <=> Points
  BY <1>1, <1>2
<1> QED BY <1>3 DEF Points

\* The fields of what is sent.
LEMMA SubmissionTypes ==
    ASSUME NEW v \in Submission
    PROVE  /\ v.raise \in Nat /\ v.rate \in Nat /\ v.days \in Nat
           /\ createTokenPayload(v).raise = v.raise \div 10
           /\ createTokenPayload(v).rate = v.rate /\ createTokenPayload(v).days = v.days
BY DEF Submission, createTokenPayload, Tenths

\* Whatever is typed, what is issued has a whole positive raise, a whole rate of 1
\* to 950 basis points and a term of a day or more, and every such submission that
\* the form shows as valid is issued, given the means (issueCollateralSchema,
\* create-rwa-token.dto.ts, create_rwa_token).
THEOREM OnlyTheContractsDomainIsIssued ==
    \A v \in Submission :
        Ends(v) = "issued" <=>
            /\ issueCollateralSchema(v) /\ v.days >= Tenths
            /\ \E bps \in 1..MaxInterestBps : v.rate = bps * Tenths
<1> SUFFICES ASSUME NEW v \in Submission
             PROVE  Ends(v) = "issued" <=>
                        /\ issueCollateralSchema(v) /\ v.days >= Tenths
                        /\ \E bps \in 1..MaxInterestBps : v.rate = bps * Tenths
  OBVIOUS
<1> DEFINE payload == createTokenPayload(v)
<1>1. /\ v.raise \in Nat /\ v.rate \in Nat /\ v.days \in Nat
      /\ payload.raise = v.raise \div 10 /\ payload.rate = v.rate /\ payload.days = v.days
  BY SubmissionTypes
<1> HIDE DEF payload
<1>2. Ends(v) = "issued" <=>
          /\ issueCollateralSchema(v)
          /\ CreateRwaTokenDTO(payload) /\ Convertible(payload) /\ factoryAccepts(payload)
  BY DEF Ends, payload
<1>3. issueCollateralSchema(v) => v.raise \div 10 >= 1 /\ v.raise \div 10 > 0
  <2>1. issueCollateralSchema(v) => v.raise > 0 /\ v.raise % 10 = 0
    BY DEF issueCollateralSchema, Whole, Tenths
  <2> QED BY <1>1, <2>1, TenthsOf
<1>4. WholePoints(v.rate) <=> \E bps \in 1..MaxInterestBps : v.rate = bps * Tenths
  BY <1>1, PointsOfRate
<1>5. CreateRwaTokenDTO(payload) <=> v.raise \div 10 >= 1 /\ v.rate >= 10 /\ v.days >= 10
  BY <1>1 DEF CreateRwaTokenDTO, Tenths
<1>6. Convertible(payload) <=> v.rate % 10 = 0
  BY <1>1 DEF Convertible, Whole, Tenths
<1>7. factoryAccepts(payload) <=> v.raise \div 10 > 0 /\ v.rate > 0 /\ v.rate <= 9500
  BY <1>1 DEF factoryAccepts, MaxInterestBps, Tenths
<1>8. issueCollateralSchema(v) =>
          (CreateRwaTokenDTO(payload) /\ Convertible(payload) /\ factoryAccepts(payload)
             <=> WholePoints(v.rate) /\ v.days >= Tenths)
  BY <1>1, <1>3, <1>5, <1>6, <1>7 DEF WholePoints, MaxInterestBps, Tenths
<1> QED BY <1>2, <1>4, <1>8

\* Whatever is typed, a submission that leaves a record behind has a rate below a
\* basis point or with a fraction of one, or less than a day; one that leaves an
\* approval behind as well, a rate above the factory's limit.
THEOREM LeftBehindOnlyBySchema ==
    \A v \in Submission :
        /\ Ends(v) = "approve" => v.rate < Tenths \/ ~Whole(v.rate) \/ v.days < Tenths
        /\ Ends(v) = "create" => v.rate > MaxInterestBps * Tenths
<1> SUFFICES ASSUME NEW v \in Submission
             PROVE  /\ Ends(v) = "approve" =>
                          v.rate < Tenths \/ ~Whole(v.rate) \/ v.days < Tenths
                    /\ Ends(v) = "create" => v.rate > MaxInterestBps * Tenths
  OBVIOUS
<1> DEFINE payload == createTokenPayload(v)
<1>1. /\ v.raise \in Nat /\ v.rate \in Nat /\ v.days \in Nat
      /\ payload.raise = v.raise \div 10 /\ payload.rate = v.rate /\ payload.days = v.days
  BY SubmissionTypes
<1> HIDE DEF payload
<1>2. issueCollateralSchema(v) => payload.raise >= 1 /\ payload.raise > 0
  <2>1. issueCollateralSchema(v) => v.raise > 0 /\ v.raise % 10 = 0
    BY DEF issueCollateralSchema, Whole, Tenths
  <2> QED BY <1>1, <2>1, TenthsOf
<1>3. /\ Ends(v) = "approve" => /\ issueCollateralSchema(v)
                                /\ ~CreateRwaTokenDTO(payload) \/ ~Convertible(payload)
      /\ Ends(v) = "create" => /\ issueCollateralSchema(v) /\ CreateRwaTokenDTO(payload)
                               /\ ~factoryAccepts(payload)
  BY DEF Ends, payload
<1>4. ASSUME Ends(v) = "approve"
      PROVE  v.rate < Tenths \/ ~Whole(v.rate) \/ v.days < Tenths
  BY <1>1, <1>2, <1>3, <1>4 DEF CreateRwaTokenDTO, Convertible, Tenths
<1>5. ASSUME Ends(v) = "create" PROVE v.rate > MaxInterestBps * Tenths
  BY <1>1, <1>2, <1>3, <1>5 DEF CreateRwaTokenDTO, factoryAccepts, Tenths, MaxInterestBps
<1> QED BY <1>4, <1>5

\* A percentage of any balance is at most the balance, so that rounding half up
\* never sends more than there is; "Max" of the native asset never leaves the fee
\* (setPercent, use-transfer).
THEOREM PercentWithinAnyBalance ==
    \A balance \in Nat :
        /\ \A pct \in 0..100 :
              LET amount == setPercent(balance, pct)
              IN  /\ amount \in 0..balance
                  /\ Sendable("USDC", amount, balance, 0)
                  /\ transferSchema(amount) => TransferInitDTO(amount)
        /\ \A reserve \in Nat : ~Sendable("native", setPercent(balance, 100), balance, reserve)
<1> SUFFICES ASSUME NEW balance \in Nat
             PROVE  /\ \A pct \in 0..100 :
                          LET amount == setPercent(balance, pct)
                          IN  /\ amount \in 0..balance
                              /\ Sendable("USDC", amount, balance, 0)
                              /\ transferSchema(amount) => TransferInitDTO(amount)
                    /\ \A reserve \in Nat :
                          ~Sendable("native", setPercent(balance, 100), balance, reserve)
  OBVIOUS
<1>1. \A n \in Nat : n <= 200 * balance + 100 => n \div 200 \in 0..balance
  OBVIOUS
<1>2. ASSUME NEW pct \in 0..100 PROVE setPercent(balance, pct) \in 0..balance
  <2>1. \A n, p \in Nat : p <= 100 => n * p \in Nat /\ n * p <= n * 100
    OBVIOUS
  <2> DEFINE part == balance * pct
  <2>2. part \in Nat /\ part <= balance * 100
    BY <2>1
  <2>3. setPercent(balance, pct) = (2 * part + 100) \div 200
    <3>1. 2 * balance * pct = 2 * (balance * pct)
      OBVIOUS
    <3> QED BY <3>1 DEF setPercent
  <2> HIDE DEF part
  <2>4. 2 * part + 100 \in Nat /\ 2 * part + 100 <= 200 * balance + 100
    BY <2>2
  <2> QED BY <1>1, <2>3, <2>4
<1>3. setPercent(balance, 100) = balance
  <2>1. \A n \in Nat : (200 * n + 100) \div 200 = n
    OBVIOUS
  <2>2. 2 * balance * 100 = 200 * balance
    OBVIOUS
  <2> QED BY <2>1, <2>2 DEF setPercent
<1>4. ASSUME NEW pct \in 0..100
      PROVE  /\ Sendable("USDC", setPercent(balance, pct), balance, 0)
             /\ transferSchema(setPercent(balance, pct))
                  => TransferInitDTO(setPercent(balance, pct))
  BY <1>2 DEF Sendable, transferSchema, TransferInitDTO
<1>5. ASSUME NEW reserve \in Nat
      PROVE  ~Sendable("native", setPercent(balance, 100), balance, reserve)
  BY <1>3 DEF Sendable, BaseFee
<1> QED BY <1>2, <1>4, <1>5
=============================================================================
