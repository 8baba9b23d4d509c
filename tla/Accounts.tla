------------------------------ MODULE Accounts ------------------------------
(***************************************************************************)
(* Registration and wallet provisioning: backend/src/auth (register),      *)
(* users (the older username endpoints) and wallets (create, trust,        *)
(* delegate), for the requests of one email address.                       *)
(*                                                                         *)
(* DFNS holds the EndUsers and the wallets; the database holds one user    *)
(* row and one wallet row (both unique); the ledger takes a trustline some *)
(* time after DFNS has broadcast it.  A request is a sequence of awaits,   *)
(* so several requests (two tabs, a retry after a lost answer) interleave, *)
(* and any await may fail.                                                 *)
(***************************************************************************)
EXTENDS Integers, FiniteSets, Sequences

CONSTANTS
    Requests,     \* request handlers that can run at the same time
    None,
    Service,      \* the DFNS service account, first owner of every wallet
    UserRoles,
    DefaultRole,  \* what User.role defaults to
    MaxStarts,    \* bound: requests started
    MaxEndUsers,  \* bound: registrations at DFNS
    MaxFaults     \* bound: awaits that fail, trustlines the ledger never takes

ASSUME RolesKnown == DefaultRole \in UserRoles /\ None \notin UserRoles
ASSUME ServiceIsNoUser == Service \notin Nat /\ None \notin Nat
ASSUME AccountBounds == {MaxStarts, MaxEndUsers, MaxFaults} \subseteq Nat

VARIABLES
    user,        \* the User row, or None
    walletRow,   \* the DFNS wallet the Wallet row names, or None
    endUsers,    \* DFNS: EndUsers registered for the email
    challenges,  \* DFNS: registration challenges handed out and not used
    wallets,     \* DFNS and the ledger: wallets created for the user
    request,     \* the requests in flight
    starts,      \* bound
    faults,      \* bound
    legacy,      \* history: an endpoint outside auth/ was used
    offPage      \* history: the page of EndUsers read did not hold this one

vars == <<user, walletRow, endUsers, challenges, wallets, request,
          starts, faults, legacy, offPage>>

Apis == {"auth", "users"}
EndUser == 1..MaxEndUsers
UserRow == [role : UserRoles, dfnsUserId : EndUser \union {None}]
\* The trustline: none, broadcast and not yet on the ledger, there, or dropped.
Trust == {"no", "sent", "yes", "lost"}
Wallet == [funded : BOOLEAN, trust : Trust, owner : EndUser \union {Service}]
WalletId == 1..Cardinality(Requests) * MaxStarts
Steps == {"idle", "list", "row", "challenge", "link", "provision", "create",
          "persist", "fund", "trust", "delegate"}
Idle == [pc |-> "idle", api |-> "auth", role |-> DefaultRole, existing |-> None,
         found |-> None, wallet |-> None]

ASSUME NoneIsNoUser == None \notin UserRow

TypeOK ==
    /\ user \in UserRow \union {None}
    /\ walletRow \in (DOMAIN wallets) \union {None}
    /\ endUsers \in 0..MaxEndUsers /\ challenges \in 0..MaxStarts
    /\ wallets \in Seq(Wallet)
    /\ request \in [Requests ->
          [pc : Steps, api : Apis, role : UserRoles, existing : UserRoles \union {None},
           found : EndUser \union {None}, wallet : WalletId \union {None}]]
    /\ starts \in 0..MaxStarts /\ faults \in 0..MaxFaults /\ legacy \in BOOLEAN /\ offPage \in BOOLEAN

Init ==
    /\ user = None /\ walletRow = None
    /\ endUsers = 0 /\ challenges = 0 /\ wallets = <<>>
    /\ request = [r \in Requests |-> Idle]
    /\ starts = 0 /\ faults = 0 /\ legacy = FALSE /\ offPage = FALSE

---------------------------------------------------------------------------
(* The repositories: rows are found by email or username (equal here).     *)

dbVars == <<user, walletRow>>
dfnsVars == <<endUsers, challenges, wallets>>
boundVars == <<starts, faults, legacy, offPage>>

At(r, pc) == request[r].pc = pc
Finish(r) == request' = [request EXCEPT ![r] = Idle]
Goto(r, pc) == request' = [request EXCEPT ![r].pc = pc]
Fault == faults < MaxFaults /\ faults' = faults + 1

Linked == user # None /\ user.dfnsUserId # None
getByEmail == IF user = None THEN None ELSE user.role
getWalletByUserId == walletRow

\* The unique email makes a second create throw.
createWithProfile(role) ==
    /\ user = None
    /\ user' = [role |-> role, dfnsUserId |-> None]

update(field, value) == user' = [user EXCEPT ![field] = value]

\* The row of the older endpoints: no profile, the default role.
create == createWithProfile(DefaultRole)

---------------------------------------------------------------------------
(* Registration.                                                           *)

Start(r, api, pc, role) ==
    /\ At(r, "idle") /\ starts < MaxStarts
    /\ starts' = starts + 1
    /\ legacy' = (legacy \/ api = "users")
    /\ request' = [request EXCEPT ![r] = [Idle EXCEPT
                     !.pc = pc, !.api = api, !.role = role,
                     !.existing = getByEmail, !.wallet = walletRow]]

\* A linked account is turned away before anything is changed.
registerInit(r) ==
    /\ ~Linked
    /\ \E role \in UserRoles : Start(r, "auth", "list", role)
    /\ UNCHANGED <<dbVars, dfnsVars, faults, offPage>>

usersRegisterInit(r) ==
    /\ ~Linked
    /\ Start(r, "users", "list", DefaultRole)
    /\ UNCHANGED <<dbVars, dfnsVars, faults, offPage>>

\* Mutant: what DFNS knows is not looked at.
listUsersIgnored(r) ==
    /\ At(r, "list")
    /\ Goto(r, IF request[r].api = "auth" THEN "row" ELSE "challenge")
    /\ UNCHANGED <<dbVars, dfnsVars, boundVars>>

\* listUsers: one page of 100 EndUsers, in which this one need not be when there
\* are more; its failure is logged and taken for an empty list.
listUsers(r) ==
    /\ At(r, "list")
    /\ \E found \in (IF endUsers = 0 THEN {None} ELSE 1..endUsers) \union {None} :
        /\ \/ (found = None => endUsers = 0) /\ UNCHANGED <<faults, offPage>>
           \/ found = None /\ endUsers > 0 /\ Fault /\ UNCHANGED offPage
           \/ found = None /\ endUsers > 0 /\ offPage' = TRUE /\ UNCHANGED faults
        /\ request' = [request EXCEPT ![r].found = found,
              ![r].pc = IF request[r].api = "auth" \/ found # None
                        THEN "row" ELSE "challenge"]
    /\ UNCHANGED <<dbVars, dfnsVars, starts, legacy>>

\* auth: the row is created, or its role brought in line, before DFNS is asked.
EnsureUser(r) ==
    LET me == request[r] IN
    /\ At(r, "row") /\ me.api = "auth"
    /\ \/ /\ me.existing = None /\ createWithProfile(me.role)
          /\ Goto(r, IF me.found # None THEN "link" ELSE "challenge")
       \/ /\ me.existing = None /\ user # None
          /\ Finish(r) /\ UNCHANGED user
       \/ /\ me.existing # None
          /\ IF me.existing # me.role THEN update("role", me.role) ELSE UNCHANGED user
          /\ Goto(r, IF me.found # None THEN "link" ELSE "challenge")
    /\ UNCHANGED <<walletRow, dfnsVars, boundVars>>

\* users: the row is created when an EndUser was found, or after the challenge.
EnsureUsername(r) ==
    LET me == request[r]
        next == IF me.found # None THEN Goto(r, "link") ELSE Finish(r)
    IN
    /\ At(r, "row") /\ me.api = "users"
    /\ \/ me.existing = None /\ create /\ next
       \/ me.existing = None /\ user # None /\ Finish(r) /\ UNCHANGED user
       \/ me.existing # None /\ next /\ UNCHANGED user
    /\ UNCHANGED <<walletRow, dfnsVars, boundVars>>

Challenge(r) ==
    /\ At(r, "challenge")
    /\ challenges' = challenges + 1
    /\ IF request[r].api = "users" /\ request[r].existing = None
       THEN Goto(r, "row") ELSE Finish(r)
    /\ UNCHANGED <<dbVars, endUsers, wallets, boundVars>>

\* registerComplete: DFNS makes the EndUser first, the row learns of it later.
registerComplete(r, api) ==
    /\ challenges > 0 /\ endUsers < MaxEndUsers
    /\ At(r, "idle") /\ starts < MaxStarts
    /\ starts' = starts + 1
    /\ legacy' = (legacy \/ api = "users")
    /\ challenges' = challenges - 1 /\ endUsers' = endUsers + 1
    /\ request' = [request EXCEPT ![r] = [Idle EXCEPT
                     !.pc = "link", !.api = api, !.found = endUsers + 1]]
    /\ UNCHANGED <<dbVars, wallets, faults, offPage>>

\* Mutant: linking is the end of it.
LinkOnly(r) ==
    /\ At(r, "link")
    /\ IF user = None THEN UNCHANGED user ELSE update("dfnsUserId", request[r].found)
    /\ Finish(r)
    /\ UNCHANGED <<walletRow, dfnsVars, boundVars>>

\* Only auth/ goes on to provision; a missing row is left missing.
Link(r) ==
    /\ At(r, "link")
    /\ IF user = None THEN UNCHANGED user ELSE update("dfnsUserId", request[r].found)
    /\ IF user # None /\ request[r].api = "auth" THEN Goto(r, "provision") ELSE Finish(r)
    /\ UNCHANGED <<walletRow, dfnsVars, boundVars>>

---------------------------------------------------------------------------
(* Provisioning.                                                           *)

provisionWallet(r) ==
    /\ At(r, "provision")
    /\ IF getWalletByUserId # None THEN Finish(r) ELSE Goto(r, "create")
    /\ UNCHANGED <<dbVars, dfnsVars, boundVars>>

AfterWallet(r, wallet) ==
    request' = [request EXCEPT ![r].wallet = wallet,
                               ![r].pc = IF @ = "create" THEN "persist" ELSE "fund"]

\* createWallet: check, create at DFNS, then store; an existing wallet is
\* answered as if it had just been created.
createWallet(r) ==
    /\ At(r, "create")
    /\ \/ /\ getWalletByUserId # None
          /\ IF request[r].api = "auth"
             THEN request' = [request EXCEPT ![r].wallet = walletRow, ![r].pc = "trust"]
             ELSE Finish(r)
          /\ UNCHANGED wallets
       \/ /\ getWalletByUserId = None
          /\ wallets' = Append(wallets, [funded |-> FALSE, trust |-> "no",
                                         owner |-> Service])
          /\ AfterWallet(r, Len(wallets) + 1)
    /\ UNCHANGED <<dbVars, endUsers, challenges, boundVars>>

\* Mutant: the later of two creates replaces the row.
UpsertWallet(r) ==
    /\ At(r, "persist")
    /\ walletRow' = request[r].wallet /\ AfterWallet(r, request[r].wallet)
    /\ UNCHANGED <<user, dfnsVars, boundVars>>

\* The wallet row is unique per user: the later of two creates throws.
PersistWallet(r) ==
    /\ At(r, "persist")
    /\ IF walletRow = None
       THEN walletRow' = request[r].wallet /\ AfterWallet(r, request[r].wallet)
       ELSE Finish(r) /\ UNCHANGED walletRow
    /\ UNCHANGED <<user, dfnsVars, boundVars>>

\* friendbot: a failure here is swallowed, the next step funds again.
Fund(r) ==
    /\ At(r, "fund")
    /\ \/ wallets' = [wallets EXCEPT ![request[r].wallet].funded = TRUE] /\ UNCHANGED faults
       \/ Fault /\ UNCHANGED wallets
    /\ IF request[r].api = "auth" THEN Goto(r, "trust") ELSE Finish(r)
    /\ UNCHANGED <<dbVars, endUsers, challenges, starts, legacy, offPage>>

\* Mutant: delegated whether or not the trustline could be sent.
trustBestEffort(r) ==
    LET w == request[r].wallet IN
    /\ At(r, "trust")
    /\ \E trust \in {wallets[w].trust, "sent"} :
          wallets' = [wallets EXCEPT ![w].trust = IF @ = "yes" THEN @ ELSE trust]
    /\ Goto(r, "delegate")
    /\ UNCHANGED <<dbVars, endUsers, challenges, boundVars>>

\* A trustline the ledger shows is skipped.  Otherwise the service account signs
\* one, which it can do only while it still owns the wallet, and DFNS broadcasts
\* it: the answer comes before it is on the ledger.  A second one on its heels has
\* the sequence number of the first, and may be refused.
addUsdcTrustline(r) ==
    LET w == request[r].wallet
        there == wallets[w].trust = "yes"
        sent == wallets[w].trust = "sent"
        mine == wallets[w].owner = Service
        Ends(trust, go) ==
            /\ wallets' = [wallets EXCEPT ![w].funded = TRUE, ![w].trust = trust]
            /\ IF go THEN Goto(r, "delegate") ELSE Finish(r)
    IN
    /\ At(r, "trust")
    /\ \/ there /\ Ends("yes", TRUE)
       \/ ~there /\ mine /\ Ends("sent", TRUE)
       \/ ~there /\ (~mine \/ sent) /\ Ends(wallets[w].trust, FALSE)
    /\ UNCHANGED <<dbVars, endUsers, challenges, boundVars>>

\* The ledger takes a trustline, or drops it (its time bounds pass).
Included(w) ==
    /\ wallets[w].trust = "sent"
    /\ wallets' = [wallets EXCEPT ![w].trust = "yes"]
    /\ UNCHANGED <<dbVars, endUsers, challenges, request, boundVars>>

Dropped(w) ==
    /\ wallets[w].trust = "sent" /\ Fault
    /\ wallets' = [wallets EXCEPT ![w].trust = "lost"]
    /\ UNCHANGED <<dbVars, endUsers, challenges, request, starts, legacy, offPage>>

\* DFNS refuses a wallet that is no longer the service account's.
delegateWallet(r) ==
    LET w == request[r].wallet IN
    /\ At(r, "delegate")
    /\ IF Linked /\ wallets[w].owner = Service
       THEN wallets' = [wallets EXCEPT ![w].owner = user.dfnsUserId]
       ELSE UNCHANGED wallets
    /\ Finish(r)
    /\ UNCHANGED <<dbVars, endUsers, challenges, boundVars>>

\* POST /wallets and POST /wallets/:walletId/delegate, called on their own.
PostWallet(r) ==
    /\ user # None
    /\ Start(r, "users", "create", DefaultRole)
    /\ UNCHANGED <<dbVars, dfnsVars, faults, offPage>>

PostDelegate(r) ==
    /\ walletRow # None
    /\ Start(r, "users", "delegate", DefaultRole)
    /\ UNCHANGED <<dbVars, dfnsVars, faults, offPage>>

\* An await throws, an answer is lost, or the process stops: the request ends
\* where it is and what it did stays done.
Fail(r) ==
    /\ ~At(r, "idle") /\ Fault
    /\ Finish(r)
    /\ UNCHANGED <<dbVars, dfnsVars, starts, legacy, offPage>>

AuthController(r) == registerInit(r) \/ registerComplete(r, "auth")
UsersController(r) == usersRegisterInit(r) \/ registerComplete(r, "users")
WalletsController(r) == PostWallet(r) \/ PostDelegate(r)
Advance(r) ==
    \/ listUsers(r) \/ EnsureUser(r) \/ EnsureUsername(r) \/ Challenge(r) \/ Link(r)
    \/ provisionWallet(r) \/ createWallet(r) \/ PersistWallet(r) \/ Fund(r)
    \/ addUsdcTrustline(r) \/ delegateWallet(r)

Ledger == \E w \in DOMAIN wallets : Included(w) \/ Dropped(w)

Next ==
    \/ \E r \in Requests : AuthController(r) \/ UsersController(r) \/ WalletsController(r)
                           \/ Advance(r) \/ Fail(r)
    \/ Ledger

Spec == Init /\ [][Next]_vars

\* Node runs every handler on; faults are bounded.
FairSpec == Spec /\ \A r \in Requests : WF_vars(Advance(r))

---------------------------------------------------------------------------
\* No request is running and no trustline waits for the ledger.
Quiescent ==
    /\ \A r \in Requests : At(r, "idle")
    /\ \A w \in DOMAIN wallets : wallets[w].trust # "sent"

\* The wallet can hold USDC and has left the service account; it is the EndUser's
\* that the row names, if DFNS has one EndUser of that email only.
Usable(w) ==
    /\ wallets[w].trust = "yes" /\ wallets[w].owner # Service
    /\ endUsers = 1 => wallets[w].owner = user.dfnsUserId

\* A registration nothing interrupted leaves the account with a wallet that
\* holds USDC and answers to the user, however many tabs registered at once
\* (provisionWallet, createWallet, addUsdcTrustline, delegateWallet).
ProvisionedUnlessInterrupted ==
    Quiescent /\ Linked /\ faults = 0 /\ ~legacy
      => walletRow # None /\ Usable(walletRow)

\* The trustline is signed and broadcast before the delegation, after which the
\* service account could no longer sign it: even failures and races hand over no
\* wallet it was never sent for (as long as POST /wallets/:walletId/delegate is not
\* used).  That the ledger has taken it by then is not promised: nothing waits for it.
TrustSentBeforeDelegated ==
    \A w \in DOMAIN wallets : wallets[w].owner # Service /\ ~legacy => wallets[w].trust # "no"

\* A DFNS wallet the database does not name (the loser of two creates, or a
\* lost answer) never becomes the user's, who could not find it again.
OrphansNeverDelegated ==
    \A w \in DOMAIN wallets : wallets[w].owner # Service => w = walletRow

\* A registration cut off between DFNS and the row heals: the next registerInit
\* that finds the row finds the EndUser too, and links them (listUsers, Link), as
\* long as the organisation's EndUsers fit in the one page it asks for.
RetryLinks == \A r \in Requests :
    (At(r, "list") /\ request[r].existing # None /\ endUsers > 0 /\ faults = MaxFaults)
        ~> Linked \/ offPage
=============================================================================
