---------------------------- MODULE KycSyncProofs ----------------------------
(***************************************************************************)
(* Verification, for any number of reviews, redeliveries, overlapping      *)
(* handlers and failed calls: the chain verifies only who was approved, it *)
(* follows the last review unless that one's synchronisation was missed,   *)
(* and then agrees with the decision the database shows.                   *)
(***************************************************************************)
EXTENDS KycSync, SequenceTheorems, TLAPS

Company == role = "SHIPPING_COMPANY"

\* What was handled, and what is being handled, was emitted.
Known ==
    /\ lastFinal # 0 => lastFinal \in DOMAIN events
    /\ \A h \in handlers : h.event \in DOMAIN events /\ events[h.event].status \in Final

\* Only a shipping company gets anywhere in the KYB flow.
Companies ==
    /\ \A c \in calls : c.flow = "KYB" => Company
    /\ status["KYB"] # "NOT_STARTED" => Company
    /\ \A i \in DOMAIN events : events[i].flow = "KYB" => Company

\* Unless the last synchronisation was missed there is at most one handler, with the
\* last final review, and the chain has that one's when it is done.
Synced ==
    ~missed =>
        IF handlers = {}
        THEN IF lastFinal = 0 THEN OnChain = None
             ELSE OnChain = [verified |-> VerifiedOf(lastFinal), role |-> RoleOf(lastFinal)]
        ELSE lastFinal # 0 /\ \E h \in handlers : handlers = {h} /\ h.event = lastFinal

\* A decision the database shows for the flow decided last is that decision: no
\* other event writes one, nor does a token request.
DecisionShown ==
    LET flow == events[lastFinal].flow
    IN  lastFinal # 0 /\ status[flow] \in Final => status[flow] = events[lastFinal].status

KInv ==
    /\ TypeOK /\ Known /\ Companies /\ VerifiedWasApproved /\ Synced
    /\ DecisionShown
-----------------------------------------------------------------------------
(* The reviews handled. *)

\* What is known of the state.
LEMMA Facts ==
    ASSUME TypeOK
    PROVE  /\ events \in Seq(Event) /\ Len(events) \in Nat /\ DOMAIN events = 1..Len(events)
           /\ Len(events) <= MaxEvents /\ MaxEvents \in Nat
           /\ handled \subseteq 1..MaxEvents /\ lastFinal \in 0..MaxEvents
           /\ status \in [Flows -> Statuses] /\ tokens \in 0..MaxTokens /\ MaxTokens \in Nat
           /\ handlers \subseteq Handler /\ calls \subseteq TokenCall
           /\ faults \in 0..MaxFaults /\ MaxFaults \in Nat /\ missed \in BOOLEAN
           /\ identity \in [Addresses -> Identity \cup {None}] /\ User \in Addresses
           /\ role \in UserRoles
BY LenProperties, KycBounds, KycAddresses DEF TypeOK, VerifierType, Addresses

\* The events so far are kept, whatever is emitted.
Grown == \A i \in DOMAIN events : i \in DOMAIN events' /\ events'[i] = events[i]

\* While nothing is handled the last review is what it was.
LEMMA ReviewsStay ==
    ASSUME KInv, UNCHANGED <<handled, lastFinal>>, Grown
    PROVE  /\ lastFinal' = lastFinal
           /\ lastFinal # 0 => /\ lastFinal \in DOMAIN events
                              /\ events'[lastFinal] = events[lastFinal]
                              /\ events[lastFinal].flow \in Flows
<1>1. ASSUME lastFinal # 0 PROVE lastFinal \in DOMAIN events /\ events[lastFinal] \in Event
  <2>1. lastFinal \in DOMAIN events
    BY <1>1 DEF KInv, Known
  <2> QED BY <2>1, Facts, ElementOfSeq DEF KInv
<1> QED BY <1>1 DEF Grown, Event

\* A step that handles no review keeps what depends on the reviews alone.
LEMMA Quiet ==
    ASSUME KInv, UNCHANGED <<handled, lastFinal>>, Grown, UNCHANGED role
    PROVE  /\ UNCHANGED <<missed, handlers, identity>> => Synced'
           /\ UNCHANGED identity => VerifiedWasApproved'
           /\ (\A f \in Flows : status'[f] \in Final => status'[f] = status[f])
                 => DecisionShown'
<1>1. /\ lastFinal' = lastFinal
      /\ lastFinal # 0 => /\ events'[lastFinal] = events[lastFinal]
                         /\ events[lastFinal].flow \in Flows
  BY ReviewsStay
<1>2. ASSUME UNCHANGED <<missed, handlers, identity>> PROVE Synced'
  <2>1. lastFinal # 0 => /\ VerifiedOf(lastFinal)' = VerifiedOf(lastFinal)
                         /\ RoleOf(lastFinal)' = RoleOf(lastFinal)
    BY <1>1 DEF VerifiedOf, RoleOf
  <2> QED BY <1>1, <1>2, <2>1 DEF KInv, Synced, OnChain
<1>3. ASSUME UNCHANGED identity PROVE VerifiedWasApproved'
  BY <1>3 DEF KInv, VerifiedWasApproved, OnChain, Grown
<1>4. ASSUME \A f \in Flows : status'[f] \in Final => status'[f] = status[f]
      PROVE  DecisionShown'
  BY <1>1, <1>4 DEF KInv, DecisionShown
<1> QED BY <1>2, <1>3, <1>4
-----------------------------------------------------------------------------
(* The user, Sumsub and the wallet. *)

\* A token is asked for, with the status read at that moment.
LEMMA RequestTokenKeeps ==
    ASSUME KInv, NEW f \in Flows, RequestToken(f)
    PROVE  KInv'
<1> DEFINE call == [id |-> tokens', flow |-> f, read |-> status[f]]
<1>1. /\ tokens < MaxTokens /\ MayStart(f) /\ tokens' = tokens + 1
      /\ calls' = calls \cup {call}
      /\ UNCHANGED <<sequence, verifierVars, dbVars, events, handled, lastFinal,
                     handlers, faults, missed>>
  BY DEF RequestToken, history
<1>2. /\ Grown /\ UNCHANGED <<handled, lastFinal>>
      /\ UNCHANGED <<role, status, wallet, events, missed, handlers, identity, verifierAdmin>>
  BY <1>1 DEF Grown, dbVars, verifierVars
<1>3. /\ Synced' /\ VerifiedWasApproved' /\ DecisionShown'
  BY <1>2, Quiet
<1>4. tokens' \in 0..MaxTokens /\ tokens' \in 1..MaxTokens
  BY <1>1, Facts DEF KInv
<1>5. TypeOK'
  <2>1. call \in TokenCall
    BY <1>4, Facts DEF KInv, TokenCall
  <2> HIDE DEF call
  <2>2. calls' \subseteq TokenCall
    BY <1>1, <2>1, Facts DEF KInv
  <2> QED BY <1>1, <1>2, <1>4, <2>2 DEF KInv, TypeOK, VerifierType
<1>6. Known'
  BY <1>2 DEF KInv, Known
<1>7. Companies'
  <2>1. call.flow = "KYB" => Company
    BY <1>1 DEF MayStart, Company
  <2> HIDE DEF call
  <2> QED BY <1>1, <1>2, <2>1 DEF KInv, Companies, Company
<1> QED BY <1>3, <1>5, <1>6, <1>7 DEF KInv

\* Sumsub answers: the first token marks the flow.
LEMMA GrantTokenKeeps ==
    ASSUME KInv, NEW call \in calls, GrantToken(call)
    PROVE  KInv'
<1>1. /\ calls' = calls \ {call}
      /\ status' = IF call.read = "NOT_STARTED"
                   THEN [status EXCEPT ![call.flow] = "INIT"] ELSE status
      /\ UNCHANGED <<sequence, verifierVars, role, wallet, tokens, events, handled,
                     lastFinal, handlers, faults, missed>>
  BY DEF GrantToken, history
<1>2. /\ Grown /\ UNCHANGED <<handled, lastFinal>>
      /\ UNCHANGED <<role, tokens, events, missed, handlers, identity, verifierAdmin>>
  BY <1>1 DEF Grown, verifierVars
<1>3. /\ Synced' /\ VerifiedWasApproved'
  BY <1>2, Quiet
<1>4. /\ call \in TokenCall /\ call.flow \in Flows
      /\ status \in [Flows -> Statuses] /\ tokens \in Nat
  <2>1. call \in TokenCall
    BY Facts DEF KInv
  <2> QED BY <2>1, Facts DEF KInv, TokenCall
<1>5. TypeOK'
  <2>1. status' \in [Flows -> Statuses] /\ calls' \subseteq TokenCall
    BY <1>1, <1>4, Facts DEF KInv, Statuses
  <2> QED BY <1>1, <1>2, <2>1 DEF KInv, TypeOK, VerifierType
<1>6. Known'
  BY <1>2 DEF KInv, Known
<1>7. Companies'
  <2>1. status'["KYB"] # "NOT_STARTED" => Company
    BY <1>1, <1>4 DEF KInv, Companies
  <2> QED BY <1>1, <1>2, <2>1 DEF KInv, Companies, Company
<1>8. DecisionShown'
  <2>1. \A f \in Flows : status'[f] \in Final => status'[f] = status[f]
    BY <1>1, <1>4 DEF Final
  <2> QED BY <1>2, <2>1, Quiet
<1> QED BY <1>3, <1>5, <1>6, <1>7, <1>8 DEF KInv

\* Sumsub reviews.
LEMMA EmitKeeps ==
    ASSUME KInv, NEW f \in Flows, NEW new \in Reviewed, Emit(f, new)
    PROVE  KInv'
<1> DEFINE e == [flow |-> f, status |-> new]
<1>1. /\ Len(events) < MaxEvents /\ status[f] # "NOT_STARTED"
      /\ events' = Append(events, e)
      /\ UNCHANGED <<sequence, verifierVars, dbVars, tokens, calls, handled, lastFinal,
                     handlers, faults, missed>>
  BY DEF Emit, history
<1>2. e \in Event /\ e.flow = f
  BY DEF Event
<1> HIDE DEF e
<1>3. /\ events' \in Seq(Event) /\ Len(events') = Len(events) + 1
      /\ events'[Len(events) + 1] = e
      /\ \A i \in 1..Len(events) : events'[i] = events[i]
  BY <1>1, <1>2, Facts, AppendProperties DEF KInv
<1>4. DOMAIN events' = 1..Len(events) + 1 /\ DOMAIN events = 1..Len(events)
      /\ Len(events) \in Nat /\ MaxEvents \in Nat
  BY <1>3, Facts, LenProperties DEF KInv
<1>5. /\ Grown /\ UNCHANGED <<handled, lastFinal>>
      /\ UNCHANGED <<role, status, wallet, tokens, calls, missed, handlers, identity,
                     verifierAdmin>>
  BY <1>1, <1>3, <1>4 DEF Grown, dbVars, verifierVars
<1>6. /\ Synced' /\ VerifiedWasApproved' /\ DecisionShown'
  BY <1>5, Quiet
<1>7. TypeOK'
  <2>1. Len(events') <= MaxEvents
    BY <1>1, <1>3, <1>4
  <2> QED BY <1>1, <1>3, <1>5, <2>1 DEF KInv, TypeOK, VerifierType, Event
<1>8. Known'
  BY <1>5 DEF KInv, Known, Grown
<1>9. Companies'
  <2>1. f = "KYB" => Company
    BY <1>1 DEF KInv, Companies
  <2>2. ASSUME NEW i \in DOMAIN events', events'[i].flow = "KYB" PROVE Company
    <3>1. CASE i = Len(events) + 1
      BY <1>2, <1>3, <2>1, <2>2, <3>1
    <3>2. CASE i \in DOMAIN events
      BY <1>3, <1>4, <2>2, <3>2 DEF KInv, Companies
    <3> QED BY <1>4, <3>1, <3>2
  <2> QED BY <1>5, <2>2 DEF KInv, Companies, Company
<1> QED BY <1>6, <1>7, <1>8, <1>9 DEF KInv

\* The wallet appears.
LEMMA ProvisionWalletKeeps ==
    ASSUME KInv, ProvisionWallet
    PROVE  KInv'
<1>1. /\ Grown /\ UNCHANGED <<handled, lastFinal>> /\ wallet' = TRUE
      /\ UNCHANGED <<role, status, tokens, calls, events, missed, handlers, faults,
                     identity, verifierAdmin>>
  BY DEF ProvisionWallet, Grown, history, verifierVars
<1>2. /\ Synced' /\ VerifiedWasApproved' /\ DecisionShown'
  BY <1>1, Quiet
<1>3. TypeOK' /\ Known' /\ Companies'
  BY <1>1 DEF KInv, TypeOK, VerifierType, Known, Companies, Company
<1> QED BY <1>2, <1>3 DEF KInv
-----------------------------------------------------------------------------
(* The webhook. *)

\* The status is written; a final one starts a handler.
LEMMA WebhookKeeps ==
    ASSUME KInv, NEW i \in DOMAIN events, Webhook(i)
    PROVE  KInv'
<1> DEFINE flow == events[i].flow
           h == [event |-> i, pc |-> "refetch"]
<1>1. /\ Delivered(i)
      /\ status' = [status EXCEPT ![flow] = events[i].status]
      /\ handled' = handled \cup {i}
      /\ UNCHANGED <<sequence, identity, verifierAdmin, role, wallet, tokens, calls, events>>
  BY DEF Webhook, StatusWritten, verifierVars
<1>2. /\ events[i] \in Event /\ flow \in Flows /\ events[i].status \in Reviewed
      /\ i \in 1..MaxEvents /\ i # 0 /\ status \in [Flows -> Statuses]
      /\ handlers \subseteq Handler /\ missed \in BOOLEAN /\ tokens \in Nat
      /\ faults \in 0..MaxFaults /\ MaxFaults \in Nat
  <2>1. events[i] \in Event
    BY Facts, ElementOfSeq DEF KInv
  <2> QED BY <2>1, Facts DEF KInv, Event
<1>3. faults' \in 0..MaxFaults
  BY <1>1, <1>2 DEF Delivered, Fault
<1>4. handled' \subseteq 1..MaxEvents /\ i \in 0..MaxEvents
  BY <1>1, <1>2, Facts DEF KInv
<1>5. Companies'
  <2>1. status'["KYB"] # "NOT_STARTED" => Company
    BY <1>1, <1>2 DEF KInv, Companies
  <2> QED BY <1>1, <2>1 DEF KInv, Companies, Company
<1>6. VerifiedWasApproved'
  BY <1>1 DEF KInv, VerifiedWasApproved, OnChain
<1>7. status' \in [Flows -> Statuses]
  BY <1>1, <1>2 DEF Reviewed
<1>8. CASE events[i].status \in Final
  <2>1. lastFinal' = i /\ handlers' = handlers \cup {h} /\ missed' = (handlers # {})
    BY <1>8 DEF Webhook
  <2>2. h \in Handler /\ h.event = i
    BY <1>2 DEF Handler
  <2> HIDE DEF h
  <2>3. TypeOK'
    <3>1. missed' \in BOOLEAN /\ handlers' \subseteq Handler
      BY <1>2, <2>1, <2>2
    <3> QED BY <1>1, <1>3, <1>4, <1>7, <2>1, <3>1 DEF KInv, TypeOK, VerifierType
  <2>4. Known'
    BY <1>1, <1>8, <2>1, <2>2 DEF KInv, Known
  <2>5. Synced'
    BY <1>2, <2>1, <2>2 DEF Synced
  <2>6. DecisionShown'
    BY <1>1, <1>2, <2>1 DEF DecisionShown
  <2> QED BY <1>5, <1>6, <2>3, <2>4, <2>5, <2>6 DEF KInv
<1>9. CASE events[i].status \notin Final
  <2>1. UNCHANGED <<lastFinal, handlers, missed>>
    BY <1>9 DEF Webhook
  <2>2. TypeOK'
    BY <1>1, <1>3, <1>4, <1>7, <2>1 DEF KInv, TypeOK, VerifierType
  <2>3. Known'
    BY <1>1, <2>1 DEF KInv, Known
  <2>4. Synced'
    <3>1. lastFinal # 0 => /\ VerifiedOf(lastFinal)' = VerifiedOf(lastFinal)
                           /\ RoleOf(lastFinal)' = RoleOf(lastFinal)
      BY <1>1, <2>1 DEF VerifiedOf, RoleOf
    <3> QED BY <1>1, <2>1, <3>1 DEF KInv, Synced, OnChain
  <2>5. DecisionShown'
    <3> SUFFICES ASSUME lastFinal # 0, status'[events[lastFinal].flow] \in Final
                 PROVE  status'[events[lastFinal].flow] = events[lastFinal].status
      BY <1>1, <2>1 DEF DecisionShown
    <3>1. events[lastFinal].flow # flow
      BY <1>1, <1>2, <1>9
    <3> QED BY <1>1, <3>1 DEF KInv, DecisionShown
  <2> QED BY <1>5, <1>6, <2>2, <2>3, <2>4, <2>5 DEF KInv
<1> QED BY <1>8, <1>9

\* The user is read again: without a wallet nothing is sent.
LEMMA RefetchKeeps ==
    ASSUME KInv, NEW h \in handlers, Refetch(h)
    PROVE  KInv'
<1> DEFINE next == [h EXCEPT !.pc = "send"]
<1>1. /\ handlers' = IF wallet THEN (handlers \ {h}) \cup {next} ELSE handlers \ {h}
      /\ missed' = (missed \/ ~wallet)
      /\ Grown /\ UNCHANGED <<handled, lastFinal>>
      /\ UNCHANGED <<sequence, identity, verifierAdmin, role, status, wallet, tokens, calls,
                     events, handled, lastFinal, faults>>
  BY DEF Refetch, dbVars, history, verifierVars, Grown
<1>2. /\ VerifiedWasApproved' /\ DecisionShown'
  BY <1>1, Quiet
<1>3. next \in Handler /\ next.event = h.event
  <2>1. h \in Handler
    BY Facts DEF KInv
  <2> QED BY <2>1 DEF Handler
<1> HIDE DEF next
<1>4. TypeOK'
  <2>1. missed' \in BOOLEAN /\ handlers' \subseteq Handler
    BY <1>1, <1>3, Facts DEF KInv
  <2> QED BY <1>1, <2>1 DEF KInv, TypeOK, VerifierType
<1>5. Known'
  BY <1>1, <1>3 DEF KInv, Known
<1>6. Companies'
  BY <1>1 DEF KInv, Companies, Company
<1>7. Synced'
  <2> SUFFICES ASSUME ~missed'
               PROVE  handlers' = {next} /\ lastFinal' # 0 /\ next.event = lastFinal'
    BY DEF Synced
  <2>1. ~missed /\ wallet
    BY <1>1
  <2>2. handlers = {h} /\ lastFinal # 0 /\ h.event = lastFinal
    BY <2>1 DEF KInv, Synced
  <2>3. lastFinal' = lastFinal
    BY <1>1, ReviewsStay
  <2> QED BY <1>1, <1>3, <2>1, <2>2, <2>3
<1> QED BY <1>2, <1>4, <1>5, <1>6, <1>7 DEF KInv

\* The final status is sent, or an error is swallowed.
LEMMA SendKeeps ==
    ASSUME KInv, NEW h \in handlers, Send(h)
    PROVE  KInv'
<1> DEFINE i == h.event
           now == [verified |-> VerifiedOf(i), role |-> RoleOf(i)]
<1>1. /\ handlers' = handlers \ {h} /\ Grown /\ UNCHANGED <<handled, lastFinal>>
      /\ UNCHANGED <<sequence, role, status, wallet, tokens, calls, events>>
  BY DEF Send, dbVars, history, Grown
<1>2. DecisionShown'
  BY <1>1, Quiet
<1>3. /\ i \in DOMAIN events /\ events[i] \in Event /\ Event = [flow : Flows, status : Reviewed]
      /\ identity \in [Addresses -> Identity \cup {None}] /\ User \in Addresses
      /\ role \in UserRoles /\ missed \in BOOLEAN
      /\ handlers \subseteq Handler /\ faults \in 0..MaxFaults /\ MaxFaults \in Nat
  <2>1. i \in DOMAIN events
    BY DEF KInv, Known
  <2>2. events[i] \in Event
    BY <2>1, Facts, ElementOfSeq DEF KInv
  <2> QED BY <2>1, <2>2, Facts DEF KInv, Event
<1>4. Known' /\ Companies'
  BY <1>1 DEF KInv, Known, Companies, Company
<1>5. CASE /\ SetIdentity(Admin, User, VerifiedOf(i), RoleOf(i))
           /\ UNCHANGED <<faults, missed>>
  <2>1. /\ identity' = [identity EXCEPT ![User] = now] /\ UNCHANGED verifierAdmin
        /\ UNCHANGED <<faults, missed>>
    BY <1>5 DEF SetIdentity
  <2>2. now \in Identity
    BY DEF Identity, VerifiedOf, RoleOf, Roles
  <2>3. now.verified = VerifiedOf(i) /\ now.role = RoleOf(i)
    OBVIOUS
  <2> HIDE DEF now
  <2>4. OnChain' = now
    BY <1>3, <2>1 DEF OnChain
  <2>5. TypeOK'
    <3>1. identity' \in [Addresses -> Identity \cup {None}] /\ handlers' \subseteq Handler
      BY <1>1, <1>3, <2>1, <2>2
    <3> QED BY <1>1, <2>1, <3>1 DEF KInv, TypeOK, VerifierType
  <2>6. VerifiedWasApproved'
    <3> SUFFICES ASSUME VerifiedOf(i)
                 PROVE  /\ \E k \in DOMAIN events : events[k].status = "COMPLETED"
                        /\ (RoleOf(i) = "KYB") = (role = "SHIPPING_COMPANY")
      BY <1>1, <2>3, <2>4 DEF VerifiedWasApproved
    <3>1. events[i].flow = "KYB" => role = "SHIPPING_COMPANY"
      BY <1>3 DEF KInv, Companies, Company
    <3> QED BY <1>3, <3>1 DEF VerifiedOf, RoleOf
  <2>7. Synced'
    <3> SUFFICES ASSUME ~missed'
                 PROVE  /\ handlers' = {} /\ lastFinal' # 0
                        /\ OnChain' = [verified |-> VerifiedOf(lastFinal)',
                                       role |-> RoleOf(lastFinal)']
      BY DEF Synced
    <3>1. handlers = {h} /\ lastFinal # 0 /\ i = lastFinal
      BY <2>1 DEF KInv, Synced
    <3>2. lastFinal' = lastFinal
      BY <1>1, ReviewsStay
    <3>3. VerifiedOf(lastFinal)' = VerifiedOf(i) /\ RoleOf(lastFinal)' = RoleOf(i)
      BY <1>1, <3>1, <3>2 DEF VerifiedOf, RoleOf
    <3> QED BY <1>1, <2>4, <3>1, <3>2, <3>3 DEF now
  <2> QED BY <1>2, <1>4, <2>5, <2>6, <2>7 DEF KInv
<1>6. CASE Fault /\ missed' = TRUE /\ UNCHANGED verifierVars
  <2>1. UNCHANGED <<identity, verifierAdmin>> /\ missed' = TRUE /\ faults' \in 0..MaxFaults
    BY <1>3, <1>6 DEF verifierVars, Fault
  <2>2. TypeOK'
    BY <1>1, <1>3, <2>1 DEF KInv, TypeOK, VerifierType
  <2>3. VerifiedWasApproved'
    BY <1>1, <2>1, Quiet
  <2>4. Synced'
    BY <2>1 DEF Synced
  <2> QED BY <1>2, <1>4, <2>2, <2>3, <2>4 DEF KInv
<1> QED BY <1>5, <1>6 DEF Send
-----------------------------------------------------------------------------
\* The initial state.
LEMMA InitKInv == Init => KInv
<1> SUFFICES ASSUME Init PROVE KInv
  OBVIOUS
<1> USE DEF Init
<1>1. TypeOK
  <2>1. 0 \in 0..MaxTokens /\ 0 \in 0..MaxFaults /\ 0 \in 0..MaxEvents /\ Len(events) <= MaxEvents
    BY KycBounds, EmptySeq
  <2>2. events \in Seq(Event)
    BY EmptySeq
  <2>3. status \in [Flows -> Statuses]
    BY DEF Statuses
  <2> QED BY <2>1, <2>2, <2>3, KycAddresses DEF TypeOK, VerifierType
<1>2. DOMAIN events = {}
  BY EmptySeq
<1>3. OnChain = None
  BY KycAddresses DEF OnChain, Addresses
<1>4. Companies /\ Known /\ Synced /\ VerifiedWasApproved /\ DecisionShown
  <2>1. "KYB" \in Flows
    BY DEF Flows
  <2> QED BY <1>2, <1>3, <2>1
          DEF Companies, Known, Synced, VerifiedWasApproved, DecisionShown
<1> QED BY <1>1, <1>4 DEF KInv

\* Every step keeps the invariant.
LEMMA NextKInv == KInv /\ [Next]_vars => KInv'
<1> SUFFICES ASSUME KInv, [Next]_vars PROVE KInv'
  OBVIOUS
<1>1. CASE UNCHANGED vars
  <2>1. /\ Grown /\ UNCHANGED <<handled, lastFinal>>
        /\ UNCHANGED <<sequence, identity, verifierAdmin, role, status, wallet, tokens,
                       calls, events, handlers, faults, missed>>
    BY <1>1 DEF vars, verifierVars, history, dbVars, Grown
  <2>2. /\ Synced' /\ VerifiedWasApproved' /\ DecisionShown'
    BY <2>1, Quiet
  <2>3. TypeOK' /\ Known' /\ Companies'
    BY <2>1 DEF KInv, TypeOK, VerifierType, Known, Companies, Company
  <2> QED BY <2>2, <2>3 DEF KInv
<1> QED BY <1>1, RequestTokenKeeps, GrantTokenKeeps, EmitKeeps, ProvisionWalletKeeps,
       WebhookKeeps, RefetchKeeps, SendKeeps DEF Next
-----------------------------------------------------------------------------
\* The database, the handlers and the chain stay consistent with the reviews,
\* whatever is delivered late or again and whatever fails (sumsub.service,
\* syncIdentity).
THEOREM KycInvariant == Spec => []KInv
<1>1. Init => KInv
  BY InitKInv
<1>2. KInv /\ [Next]_vars => KInv'
  BY NextKInv
<1> QED BY <1>1, <1>2, PTL DEF Spec

\* Nobody is verified on chain without a GREEN review, and only a shipping
\* company with the KYB role (syncIdentity).
THEOREM ChainWasApproved == Spec => []VerifiedWasApproved
<1>1. KInv => VerifiedWasApproved
  BY DEF KInv
<1> QED BY <1>1, KycInvariant, PTL

\* The chain says what the last final review said, once every handler is done,
\* unless that review's own synchronisation was skipped, failed or overlapped
\* another (handleWebhook, handleKybWebhook, syncIdentity).
THEOREM ChainIsInStep == Spec => []ChainFollowsReviews
<1>1. KInv => ChainFollowsReviews
  BY DEF KInv, Synced, ChainFollowsReviews
<1> QED BY <1>1, KycInvariant, PTL

\* As long as the database shows a decision on the flow decided last, the chain
\* has it, whatever was redelivered or requested since (createAccessToken,
\* handleWebhook, syncIdentity).
THEOREM DatabaseAgreesWithChain == Spec => []DecisionsAgree
<1>1. KInv => DecisionsAgree
  <2> DEFINE flow == events[lastFinal].flow
  <2> SUFFICES ASSUME KInv, handlers = {}, ~missed, lastFinal # 0, status[flow] \in Final
               PROVE  OnChain = [verified |-> status[flow] = "COMPLETED",
                                 role |-> RoleOf(lastFinal)]
    BY DEF DecisionsAgree
  <2>1. OnChain = [verified |-> VerifiedOf(lastFinal), role |-> RoleOf(lastFinal)]
    BY DEF KInv, Synced
  <2>2. VerifiedOf(lastFinal) = (status[flow] = "COMPLETED")
    BY DEF KInv, DecisionShown, VerifiedOf
  <2> QED BY <2>1, <2>2
<1> QED BY <1>1, KycInvariant, PTL
==============================================================================
