------------------------------- MODULE KycSync -------------------------------
(***************************************************************************)
(* backend/src/sumsub with BlockchainService.syncIdentity: one user's KYC  *)
(* and KYB verification, from Sumsub's reviews through the webhooks and    *)
(* the database to the identity-verifier contract (IdentityVerifier).      *)
(*                                                                         *)
(* Sumsub is external: it emits the events of a flow in order and delivers *)
(* each at least once, perhaps late or again.  A webhook handler runs in   *)
(* three steps, with awaits between them: it writes the status; re-reads   *)
(* the user; sends set_identity.  Handlers run concurrently.               *)
(***************************************************************************)
EXTENDS IdentityVerifier, Sequences

CONSTANTS
    User,        \* the address of the user's wallet
    Admin,       \* the backend's admin address
    MaxEvents,   \* bound: events Sumsub emits
    MaxTokens,   \* bound: access tokens the user asks for
    MaxFaults    \* bound: redeliveries, reorderings, failed calls

ASSUME KycAddresses == User \in Users /\ Admin \in Users
ASSUME KycBounds == MaxEvents \in Nat /\ MaxTokens \in Nat /\ MaxFaults \in Nat

Flows == {"KYC", "KYB"}
Statuses == {"NOT_STARTED", "INIT", "PENDING", "ON_HOLD", "COMPLETED", "REJECTED"}
Final == {"COMPLETED", "REJECTED"}
UserRoles == {"INVESTOR", "SHIPPING_COMPANY"}

\* An event, by the status the handler's switch maps it to.
Reviewed == Statuses \ {"NOT_STARTED"}
Event == [flow : Flows, status : Reviewed]

\* A handler that synchronises a final status: what it read, and how far it is.
Handler == [event : 1..MaxEvents, pc : {"refetch", "send"}]
\* A token request between its read of the user and its write of the status.
TokenCall == [id : 1..MaxTokens, flow : Flows, read : Statuses]

VARIABLES
    role,      \* User.role
    status,    \* User.kycStatus and User.kybStatus
    wallet,    \* whether the user has a wallet
    tokens,    \* bound: tokens asked for
    calls,     \* token requests in flight
    events,    \* what Sumsub has emitted
    handled,   \* history: the events the backend has handled
    lastFinal, \* history: the final one it handled last, 0 before there is one
    handlers,  \* handlers synchronising the chain
    faults,    \* bound
    missed     \* history: the last review's sync was skipped, failed or overlapped

dbVars == <<role, status, wallet>>
history == <<handled, lastFinal>>
vars == <<sequence, verifierVars, dbVars, tokens, calls, events, history, handlers,
          faults, missed>>

TypeOK ==
    /\ VerifierType
    /\ role \in UserRoles /\ status \in [Flows -> Statuses] /\ wallet \in BOOLEAN
    /\ tokens \in 0..MaxTokens /\ calls \subseteq TokenCall
    /\ events \in Seq(Event) /\ Len(events) <= MaxEvents
    /\ handled \subseteq 1..MaxEvents /\ lastFinal \in 0..MaxEvents
    /\ handlers \subseteq Handler
    /\ faults \in 0..MaxFaults /\ missed \in BOOLEAN

Init ==
    /\ sequence = 1
    /\ verifierAdmin = Admin
    /\ identity = [a \in Addresses |-> None]
    /\ role \in UserRoles
    /\ status = [f \in Flows |-> "NOT_STARTED"]
    /\ wallet \in BOOLEAN
    /\ tokens = 0 /\ calls = {}
    /\ events = <<>> /\ handled = {} /\ lastFinal = 0 /\ handlers = {}
    /\ faults = 0 /\ missed = FALSE

Fault == faults < MaxFaults /\ faults' = faults + 1

\* What Sumsub last said of a flow.
LastStatus(flow) ==
    LET of == {i \in DOMAIN events : events[i].flow = flow}
    IN  IF of = {} THEN "NOT_STARTED"
        ELSE events[CHOOSE i \in of : \A j \in of : j <= i].status
-----------------------------------------------------------------------------
(* The user and Sumsub *)

\* The token endpoints read the user before they call Sumsub.  The KYC one
\* asks for no role; the KYB one for a shipping company that has not finished.
MayStart(flow) ==
    flow = "KYB" => role = "SHIPPING_COMPANY" /\ status["KYB"] # "COMPLETED"

RequestToken(flow) ==
    /\ tokens < MaxTokens
    /\ MayStart(flow)
    /\ tokens' = tokens + 1
    /\ calls' = calls \cup {[id |-> tokens', flow |-> flow, read |-> status[flow]]}
    /\ UNCHANGED <<sequence, verifierVars, dbVars, events, history, handlers, faults,
                   missed>>

\* Sumsub's answer: the first token marks the flow INIT, by the status read
\* before the call.
GrantToken(call) ==
    /\ call \in calls
    /\ calls' = calls \ {call}
    /\ status' = IF call.read = "NOT_STARTED"
                 THEN [status EXCEPT ![call.flow] = "INIT"] ELSE status
    /\ UNCHANGED <<sequence, verifierVars, role, wallet, tokens, events, history,
                   handlers, faults, missed>>

\* External: the order in which reviews go (sumsub.md 3), and a later review
\* that takes an approval back.
Follows(old, new) ==
    \/ old = "NOT_STARTED" /\ new = "INIT"
    \/ old \in {"INIT", "ON_HOLD", "REJECTED"} /\ new = "PENDING"
    \/ old = "PENDING" /\ new \in {"ON_HOLD", "COMPLETED", "REJECTED"}
    \/ old = "COMPLETED" /\ new = "REJECTED"

Emit(flow, new) ==
    /\ Len(events) < MaxEvents
    /\ status[flow] # "NOT_STARTED"   \* an applicant exists once a token does
    /\ Follows(LastStatus(flow), new)
    /\ events' = Append(events, [flow |-> flow, status |-> new])
    /\ UNCHANGED <<sequence, verifierVars, dbVars, tokens, calls, history, handlers,
                   faults, missed>>

\* createWallet: at registration, or by a later request when that one failed.
ProvisionWallet ==
    /\ ~wallet
    /\ wallet' = TRUE
    /\ UNCHANGED <<sequence, verifierVars, role, status, tokens, calls, events, history,
                   handlers, faults, missed>>
-----------------------------------------------------------------------------
(* The webhook *)

Handled(i) == i \in handled
InOrder(i) ==
    /\ ~Handled(i)
    /\ \A j \in 1..i - 1 : events[j].flow = events[i].flow => Handled(j)

\* Delivery in order is Sumsub's normal behaviour, any other is a fault.
Delivered(i) ==
    \/ InOrder(i) /\ UNCHANGED faults
    \/ ~InOrder(i) /\ Fault

\* Mutant: a final status of the database is not overwritten.
StatusWrittenOnce(i) ==
    status' = IF status[events[i].flow] \in Final THEN status
              ELSE [status EXCEPT ![events[i].flow] = events[i].status]

\* handleWebhook and handleKybWebhook overwrite the status of the flow.
StatusWritten(i) == status' = [status EXCEPT ![events[i].flow] = events[i].status]

Webhook(i) ==
    /\ Delivered(i)
    /\ StatusWritten(i)
    /\ handled' = handled \cup {i}
    /\ IF events[i].status \in Final
       THEN /\ lastFinal' = i
            /\ handlers' = handlers \cup {[event |-> i, pc |-> "refetch"]}
            /\ missed' = (handlers # {})
       ELSE UNCHANGED <<lastFinal, handlers, missed>>
    /\ UNCHANGED <<sequence, verifierVars, role, wallet, tokens, calls, events>>

\* Mutant: rejections are not sent to the chain.
RefetchApprovals(h) ==
    /\ h \in handlers /\ h.pc = "refetch"
    /\ handlers' = IF wallet /\ events[h.event].status = "COMPLETED"
                   THEN (handlers \ {h}) \cup {[h EXCEPT !.pc = "send"]}
                   ELSE handlers \ {h}
    /\ missed' = (missed \/ ~wallet)
    /\ UNCHANGED <<sequence, verifierVars, dbVars, tokens, calls, events, history, faults>>

\* users.get, and syncIdentity's first check: without a wallet nothing is sent.
Refetch(h) ==
    /\ h \in handlers /\ h.pc = "refetch"
    /\ handlers' = IF wallet THEN (handlers \ {h}) \cup {[h EXCEPT !.pc = "send"]}
                   ELSE handlers \ {h}
    /\ missed' = (missed \/ ~wallet)
    /\ UNCHANGED <<sequence, verifierVars, dbVars, tokens, calls, events, history, faults>>

\* Mutant: every final review verifies.
AlwaysVerified(i) == TRUE

\* verified and role of the set_identity call.
VerifiedOf(i) == events[i].status = "COMPLETED"
RoleOf(i) ==
    IF events[i].flow = "KYB" \/ role = "SHIPPING_COMPANY" THEN "KYB" ELSE "KYC"

\* An error is logged and swallowed, and nothing sends the status again.
Send(h) ==
    /\ h \in handlers /\ h.pc = "send"
    /\ handlers' = handlers \ {h}
    /\ \/ /\ SetIdentity(Admin, User, VerifiedOf(h.event), RoleOf(h.event))
          /\ UNCHANGED <<faults, missed>>
       \/ Fault /\ missed' = TRUE /\ UNCHANGED verifierVars
    /\ UNCHANGED <<sequence, dbVars, tokens, calls, events, history>>
-----------------------------------------------------------------------------
Next ==
    \/ \E flow \in Flows : RequestToken(flow)
    \/ \E call \in calls : GrantToken(call)
    \/ \E flow \in Flows, new \in Reviewed : Emit(flow, new)
    \/ ProvisionWallet
    \/ \E i \in DOMAIN events : Webhook(i)
    \/ \E h \in handlers : Refetch(h) \/ Send(h)

Spec == Init /\ [][Next]_vars
-----------------------------------------------------------------------------
(* Properties *)

OnChain == identity[User]

\* The chain verifies nobody Sumsub did not approve: whatever is redelivered,
\* reordered or sent late, a verified identity has a GREEN review behind it, and
\* it has the KYB role exactly if the user is a shipping company.
VerifiedWasApproved ==
    OnChain # None /\ OnChain.verified =>
        /\ \E i \in DOMAIN events : events[i].status = "COMPLETED"
        /\ (OnChain.role = "KYB") = (role = "SHIPPING_COMPANY")

\* With no handler under way the chain says what the last review handled said, of
\* either flow, unless the synchronisation of that very review was skipped, failed
\* or overlapped another: whatever went wrong before is repaired by the next one.
ChainFollowsReviews ==
    handlers = {} /\ ~missed =>
        IF lastFinal = 0 THEN OnChain = None
        ELSE OnChain = [verified |-> VerifiedOf(lastFinal), role |-> RoleOf(lastFinal)]

\* The database and the chain agree on the flow decided last: as long as the
\* database shows a decision there, the chain has that decision, although late and
\* repeated events overwrite the status, token requests reset it, and the two
\* flows share the record on chain.
DecisionsAgree ==
    LET flow == events[lastFinal].flow
    IN  handlers = {} /\ ~missed /\ lastFinal # 0 /\ status[flow] \in Final =>
            OnChain = [verified |-> status[flow] = "COMPLETED", role |-> RoleOf(lastFinal)]

\* sumsub.md:308 "Webhook handlers are idempotent -- receiving the same event twice
\* does not corrupt state": an event that is handled again does not take a
\* decision back.
RedeliveryIsIdempotent ==
    [][\A i \in DOMAIN events :
          Webhook(i) /\ Handled(i) /\ status[events[i].flow] \in Final
          => UNCHANGED status]_vars

\* blockchain.service.ts:343 "REJECTED triggers verified = false so any existing
\* on-chain identity record is revoked": with every handler done, a user whose
\* every started flow is REJECTED is not verified on chain.
RejectionRevokes ==
    /\ handlers = {}
    /\ \A f \in Flows : status[f] \in {"NOT_STARTED", "REJECTED"}
    => OnChain = None \/ ~OnChain.verified
=============================================================================
