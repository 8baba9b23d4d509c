------------------------------ MODULE Onboarding ------------------------------
(***************************************************************************)
(* The verification of one user as the browser sees it: the KYC and KYB    *)
(* pages (questionnaire, then Sumsub's SDK), the banner, the cached `me`   *)
(* query they share, and the backend's endpoints behind them.  KycSync has *)
(* what a review does on the chain; here a review is only the status its   *)
(* webhook writes.                                                         *)
(*                                                                         *)
(* A page shows what it last read: the cached answer of /auth/me or, until *)
(* one arrived, what the session was given at login.  The cache is filled  *)
(* on a mount and by the polls that a message of the SDK starts.           *)
(***************************************************************************)
EXTENDS Naturals

CONSTANTS
    Missing,     \* no answer in the cache, no request under way
    Asked,       \* a request under way
    Attempts,    \* polls after a message of the SDK (the code has 6)
    Timers,      \* bound: the intervals that may run at once
    MaxMounts,   \* bound: pages opened, reloads and logins
    MaxReviews,  \* bound: reviews by Sumsub
    MaxTokens,   \* bound: SDK tokens asked for
    MaxFailures  \* bound: requests that fail or whose answer is lost

ASSUME OnboardingBounds ==
    /\ Attempts \in Nat \ {0}
    /\ MaxMounts \in Nat /\ MaxReviews \in Nat /\ MaxTokens \in Nat /\ MaxFailures \in Nat

Flows == {"KYC", "KYB"}
Statuses == {"NOT_STARTED", "INIT", "PENDING", "ON_HOLD", "COMPLETED", "REJECTED"}
Readings == [Flows -> Statuses]

ASSUME AnswersDiffer == Missing # Asked /\ Missing \notin Statuses /\ Asked \notin Statuses

VARIABLES
    role,      \* User.role
    status,    \* User.kycStatus and User.kybStatus
    profile,   \* whether the InvestmentProfile and the BusinessProfile row exist
    call,      \* token endpoint, per flow: no request, one, or the status it read
    review,    \* external: what Sumsub last said of the user's flow
    hook,      \* external: whether its webhook is still to come
    told,      \* external: whether the SDK is still to be told
    session,   \* the statuses the session was given at login
    me,        \* the cached answer of /auth/me
    fetch,     \* the request that will replace it: missing, sent, or its answer
    page,      \* the flow whose page is open, or "elsewhere"
    phase,     \* of that page
    submit,    \* its questionnaire: not sent, sent, or waiting for `me`
    token,     \* the cached token query of each flow
    timers,    \* polls left of each interval
    recalled,  \* localStorage: the banner was dismissed
    dismissed, \* the banner's own copy of it
    seen,      \* history: COMPLETED was shown since it was dismissed
    ended,     \* history: seen, when the page was last loaded
    mounts, reviews, tokens, failures  \* bounds

dbVars == <<role, status, profile>>
sumsubVars == <<review, hook, told, reviews>>
meVars == <<me, fetch>>
pageVars == <<page, phase, submit>>
tokenVars == <<call, token, tokens>>
bannerVars == <<recalled, dismissed, seen, ended>>
onboardingVars == <<dbVars, sumsubVars, session, meVars, pageVars, tokenVars, timers,
                    bannerVars, mounts, failures>>

OnboardingTypeOK ==
    /\ role \in {"INVESTOR", "SHIPPING_COMPANY"}
    /\ status \in Readings /\ profile \in [Flows -> BOOLEAN]
    /\ call \in [Flows -> {Missing, Asked} \cup Statuses]
    /\ review \in Statuses /\ hook \in BOOLEAN /\ told \in BOOLEAN
    /\ session \in Readings
    /\ me \in Readings \cup {Missing} /\ fetch \in Readings \cup {Missing, Asked}
    /\ page \in Flows \cup {"elsewhere"}
    /\ phase \in {"questionnaire", "transition", "verification"}
    /\ submit \in {"none", "sent", "refetch"}
    /\ token \in [Flows -> {"none", "loading", "ready", "error"}]
    /\ timers \in [Timers -> 0..Attempts]
    /\ {recalled, dismissed, seen, ended} \subseteq BOOLEAN
    /\ mounts \in 0..MaxMounts /\ reviews \in 0..MaxReviews
    /\ tokens \in 0..MaxTokens /\ failures \in 0..MaxFailures

OnboardingInit ==
    /\ role \in {"INVESTOR", "SHIPPING_COMPANY"}
    /\ status = [f \in Flows |-> "NOT_STARTED"] /\ profile = [f \in Flows |-> FALSE]
    /\ call = [f \in Flows |-> Missing] /\ token = [f \in Flows |-> "none"]
    /\ review = "INIT" /\ hook = FALSE /\ told = FALSE
    /\ session = status /\ me = Missing /\ fetch = Asked
    /\ page = "elsewhere" /\ phase = "questionnaire" /\ submit = "none"
    /\ timers = [i \in Timers |-> 0]
    /\ recalled = FALSE /\ dismissed = FALSE /\ seen = FALSE /\ ended = FALSE
    /\ mounts = 0 /\ reviews = 0 /\ tokens = 0 /\ failures = 0

Failure == failures < MaxFailures /\ failures' = failures + 1

\* Shipping companies skip KYC, everyone else has no KYB.
own == IF role = "SHIPPING_COMPANY" THEN "KYB" ELSE "KYC"

\* kycStatus and kybStatus of the pages, the profile and the banner:
\* meQuery.data ?? session.user ?? "NOT_STARTED".
Shown(flow) == IF me = Missing THEN session[flow] ELSE me[flow]

\* The page shows the SDK unless it shows the verified state.
SdkOpen ==
    /\ page \in Flows /\ Shown(page) # "COMPLETED"
    /\ phase = "verification" /\ token[page] = "ready"
-----------------------------------------------------------------------------
(* The `me` query *)

\* Mutant: a refetch waits for the request under way.
RefetchJoins == fetch' = IF fetch # Missing THEN fetch ELSE Asked

\* meQuery.refetch: it replaces a request under way once there is an answer in
\* the cache, and waits for it before.
Refetch == fetch' = IF me = Missing /\ fetch # Missing THEN fetch ELSE Asked

\* A mount of useQuery(["me"]): fetches if nothing is cached, or it is stale (30 s).
Mounted ==
    \/ fetch' = IF fetch = Missing THEN Asked ELSE fetch
    \/ me # Missing /\ UNCHANGED fetch

\* The await of the questionnaire ends with its request, answered or not.
Resume ==
    IF submit = "refetch" THEN phase' = "transition" /\ submit' = "none"
                          ELSE UNCHANGED <<phase, submit>>

\* What the next render shows.
NowVerified == (IF me' = Missing THEN session' ELSE me')[own] = "COMPLETED"

\* Mutant: the dismissal is never forgotten.
effectKeeps(dismissal) ==
    /\ recalled' = dismissal
    /\ seen' = (seen \/ NowVerified)

\* The banner's effect: COMPLETED forgets that it was dismissed.
effect(dismissal) ==
    /\ recalled' = (dismissal /\ ~NowVerified)
    /\ seen' = (seen \/ NowVerified)

\* GET /auth/me reads the user.
getMe ==
    /\ fetch = Asked /\ fetch' = status
    /\ UNCHANGED <<dbVars, sumsubVars, session, me, pageVars, tokenVars, timers,
                   bannerVars, mounts, failures>>

MeArrives ==
    /\ fetch \in Readings
    /\ me' = fetch /\ fetch' = Missing
    /\ Resume
    /\ effect(recalled)
    /\ UNCHANGED <<dbVars, sumsubVars, session, page, tokenVars, timers, dismissed, ended,
                   mounts, failures>>

\* The request and its one retry fail: the cache keeps what it has.
MeFails ==
    /\ fetch # Missing /\ Failure
    /\ fetch' = Missing
    /\ Resume
    /\ UNCHANGED <<dbVars, sumsubVars, session, me, page, tokenVars, timers, bannerVars,
                   mounts>>

\* refreshStatus: one tick of an interval.  The interval outlives its page.
Poll(i) ==
    /\ timers[i] > 0
    /\ timers' = [timers EXCEPT ![i] = @ - 1]
    /\ Refetch
    /\ IF me # Missing /\ fetch # Missing THEN Resume ELSE UNCHANGED <<phase, submit>>
    /\ UNCHANGED <<dbVars, sumsubVars, session, me, page, tokenVars, bannerVars, mounts,
                   failures>>
-----------------------------------------------------------------------------
(* Opening pages *)

\* Mutant: nobody is redirected.
landingAsked(p) == p

\* The KYC page sends a shipping company to the KYB page.
landing(p) == IF p = "KYC" /\ role = "SHIPPING_COMPANY" THEN "KYB" ELSE p

\* A questionnaire that is left behind may still be saved.
LeftBehind ==
    IF submit = "sent" THEN profile' \in {profile, [profile EXCEPT ![page] = TRUE]}
                       ELSE UNCHANGED profile

\* A link of the profile or the banner, or an address typed in: a page of either
\* flow, or one that has nothing to do with them.
Visit(p) ==
    /\ mounts < MaxMounts /\ mounts' = mounts + 1
    /\ LeftBehind
    /\ page' = landing(p) /\ phase' = "questionnaire" /\ submit' = "none"
    /\ Mounted
    /\ UNCHANGED <<role, status, sumsubVars, session, me, tokenVars, timers, bannerVars,
                   failures>>

\* The session of a login has the KYC status, and no KYB status.
completeLogin == session' = [KYC |-> status["KYC"], KYB |-> "NOT_STARTED"]

\* The banner is rendered anew: what was dismissed is read from localStorage.
BannerMounts ==
    /\ dismissed' = (recalled /\ ~NowVerified)
    /\ ended' = seen
    /\ effect(recalled)

\* The page loads anew, as it does after a logout: the cache, the intervals and
\* every component's state go.
Load(login) ==
    /\ mounts < MaxMounts /\ mounts' = mounts + 1
    /\ LeftBehind
    /\ IF login THEN completeLogin ELSE UNCHANGED session
    /\ me' = Missing /\ fetch' = Asked
    /\ page' = "elsewhere" /\ phase' = "questionnaire" /\ submit' = "none"
    /\ token' = [f \in Flows |-> "none"] /\ timers' = [i \in Timers |-> 0]
    /\ BannerMounts
    /\ UNCHANGED <<role, status, sumsubVars, call, tokens, failures>>

\* The session is gone and the shell leads to the login page and back: the pages
\* and the banner go, the cache and the intervals stay.
Login ==
    /\ mounts < MaxMounts /\ mounts' = mounts + 1
    /\ LeftBehind
    /\ completeLogin
    /\ Mounted /\ UNCHANGED me
    /\ page' = "elsewhere" /\ phase' = "questionnaire" /\ submit' = "none"
    /\ BannerMounts
    /\ UNCHANGED <<role, status, sumsubVars, tokenVars, timers, failures>>

\* The banner's close button.
Dismiss ==
    /\ Shown(own) # "COMPLETED" /\ ~dismissed
    /\ recalled' = TRUE /\ dismissed' = TRUE /\ seen' = FALSE /\ ended' = FALSE
    /\ UNCHANGED <<dbVars, sumsubVars, session, meVars, pageVars, tokenVars, timers, mounts,
                   failures>>
-----------------------------------------------------------------------------
(* The questionnaire *)

onComplete ==
    /\ page \in Flows /\ Shown(page) # "COMPLETED"
    /\ phase = "questionnaire" /\ submit = "none"
    /\ submit' = "sent"
    /\ UNCHANGED <<dbVars, sumsubVars, session, meVars, page, phase, tokenVars, timers,
                   bannerVars, mounts, failures>>

\* upsertInvestmentProfile or upsertBusinessProfile, by the page and not the role.
submitQuestionnaire ==
    /\ submit = "sent"
    /\ profile' = [profile EXCEPT ![page] = TRUE]
    /\ submit' = "refetch"
    /\ Refetch
    /\ UNCHANGED <<role, status, sumsubVars, session, me, page, phase, tokenVars, timers,
                   bannerVars, mounts, failures>>

\* Mutant: the error is reported and the page goes on.
submitFailsGoesOn ==
    /\ submit = "sent" /\ Failure
    /\ LeftBehind
    /\ submit' = "none" /\ phase' = "transition"
    /\ UNCHANGED <<role, status, sumsubVars, session, meVars, page, tokenVars, timers,
                   bannerVars, mounts>>

\* The error is reported and the questionnaire stays, saved or not.
submitFails ==
    /\ submit = "sent" /\ Failure
    /\ LeftBehind
    /\ submit' = "none"
    /\ UNCHANGED <<role, status, sumsubVars, session, meVars, page, phase, tokenVars, timers,
                   bannerVars, mounts>>

\* The timeout of 1.5 s behind "profile saved".
StartVerification ==
    /\ page \in Flows /\ phase = "transition"
    /\ phase' = "verification"
    /\ UNCHANGED <<dbVars, sumsubVars, session, meVars, page, submit, tokenVars, timers,
                   bannerVars, mounts, failures>>
-----------------------------------------------------------------------------
(* The SDK's token *)

\* tokenQuery, its Retry button, or the SDK's expirationHandler.
getAccessToken ==
    /\ page \in Flows /\ phase = "verification" /\ call[page] = Missing
    /\ tokens < MaxTokens /\ tokens' = tokens + 1
    /\ call' = [call EXCEPT ![page] = Asked]
    /\ token' = IF token[page] = "ready" THEN token ELSE [token EXCEPT ![page] = "loading"]
    /\ UNCHANGED <<dbVars, sumsubVars, session, meVars, pageVars, timers, bannerVars, mounts,
                   failures>>

\* Only the KYB endpoint looks at the role and at a finished verification.
Refused(flow) ==
    flow = "KYB" /\ (role # "SHIPPING_COMPANY" \/ status["KYB"] = "COMPLETED")

Answered(flow, state) ==
    /\ call' = [call EXCEPT ![flow] = Missing]
    /\ token' = IF token[flow] = "loading" THEN [token EXCEPT ![flow] = state] ELSE token

ReadUser(flow) ==
    /\ call[flow] = Asked
    /\ IF Refused(flow) THEN Answered(flow, "error")
       ELSE call' = [call EXCEPT ![flow] = status[flow]] /\ UNCHANGED token
    /\ UNCHANGED <<dbVars, sumsubVars, session, meVars, pageVars, tokens, timers, bannerVars,
                   mounts, failures>>

\* The first token starts the flow, by the status read before Sumsub was asked.
Started(flow) ==
    IF call[flow] = "NOT_STARTED" THEN [status EXCEPT ![flow] = "INIT"] ELSE status

generateAccessToken(flow) ==
    /\ call[flow] \in Statuses
    /\ status' = Started(flow)
    /\ Answered(flow, "ready")
    /\ UNCHANGED <<role, profile, sumsubVars, session, meVars, pageVars, tokens, timers,
                   bannerVars, mounts, failures>>

\* Sumsub fails, or the answer is lost behind the write.
tokenFails(flow) ==
    /\ call[flow] # Missing /\ Failure
    /\ status' \in {status, Started(flow)}
    /\ Answered(flow, "error")
    /\ UNCHANGED <<role, profile, sumsubVars, session, meVars, pageVars, tokens, timers,
                   bannerVars, mounts>>
-----------------------------------------------------------------------------
(* Sumsub *)

\* External: as KycSync!Follows; documents are submitted in the open SDK.
Follows(old, new) ==
    \/ old \in {"INIT", "ON_HOLD", "REJECTED"} /\ new = "PENDING" /\ SdkOpen
    \/ old = "PENDING" /\ new \in {"ON_HOLD", "COMPLETED", "REJECTED"}
    \/ old = "COMPLETED" /\ new = "REJECTED"

Review(new) ==
    /\ reviews < MaxReviews /\ reviews' = reviews + 1
    /\ status[own] # "NOT_STARTED" /\ ~hook
    /\ Follows(review, new)
    /\ review' = new /\ hook' = TRUE /\ told' = TRUE
    /\ UNCHANGED <<dbVars, session, meVars, pageVars, tokenVars, timers, bannerVars, mounts,
                   failures>>

\* handleWebhook overwrites the status.
handleWebhook ==
    /\ hook /\ hook' = FALSE
    /\ status' = [status EXCEPT ![own] = review]
    /\ UNCHANGED <<role, profile, review, told, reviews, session, meVars, pageVars,
                   tokenVars, timers, bannerVars, mounts, failures>>

\* The SDK's message starts refreshStatus, before the webhook or after it.
onMessage(i) ==
    /\ told /\ told' = FALSE
    /\ SdkOpen
    /\ timers[i] = 0 /\ timers' = [timers EXCEPT ![i] = Attempts]
    /\ UNCHANGED <<dbVars, review, hook, reviews, session, meVars, pageVars, tokenVars,
                   bannerVars, mounts, failures>>
-----------------------------------------------------------------------------
OnboardingNext ==
    \/ getMe \/ MeArrives \/ MeFails
    \/ \E i \in Timers : Poll(i) \/ onMessage(i)
    \/ \E p \in Flows \cup {"elsewhere"} : Visit(p)
    \/ \E login \in BOOLEAN : Load(login)
    \/ Login \/ Dismiss
    \/ onComplete \/ submitQuestionnaire \/ submitFails \/ StartVerification
    \/ getAccessToken
    \/ \E f \in Flows : ReadUser(f) \/ generateAccessToken(f) \/ tokenFails(f)
    \/ \E new \in Statuses : Review(new)
    \/ handleWebhook

\* Timers fire, and requests are served and answered; users and Sumsub owe nothing.
Fairness ==
    /\ WF_onboardingVars(getMe) /\ WF_onboardingVars(MeArrives)
    /\ \A i \in Timers : WF_onboardingVars(Poll(i))

OnboardingSpec == OnboardingInit /\ [][OnboardingNext]_onboardingVars /\ Fairness
-----------------------------------------------------------------------------
(* Properties *)

\* investment-questionnaire.tsx:32 "Presented before KYC verification": whatever
\* is lost, reloaded or left, a flow the backend has started has its profile saved.
ProfileBeforeVerification ==
    \A f \in Flows : status[f] # "NOT_STARTED" => profile[f]

\* Shipping companies skip KYC and nobody else has a KYB, although the KYC
\* endpoint asks no role and the KYB page sends no one away.
FlowOfRole == \A f \in Flows : status[f] # "NOT_STARTED" => f = own

\* An approval the webhook delivers while the page still polls reaches the page,
\* in whatever order requests and answers overlap, unless a request fails or the
\* approval is taken back.
ApprovalReachesPage ==
    (\E i \in Timers : timers[i] > 0) /\ status[own] = "COMPLETED"
        ~> Shown(own) = "COMPLETED" \/ status[own] # "COMPLETED" \/ failures > 0

\* kyc-banner.tsx:81-95: a banner closed before the browser showed the user as
\* verified is open again after the next load, for a verification that was taken
\* back since, although the session still has the status of the login.
DismissalExpires == dismissed => ~ended

\* collateral/page.tsx:10 "CTA is disabled until KYB is completed": the page reads
\* the session's KYB status, which no login and no refresh ever sets.
IssueOfferedOnceVerified ==
    role = "SHIPPING_COMPANY" /\ Shown("KYB") = "COMPLETED" => session["KYB"] = "COMPLETED"
=============================================================================
