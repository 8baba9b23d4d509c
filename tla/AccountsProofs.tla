---------------------------- MODULE AccountsProofs ----------------------------
(***************************************************************************)
(* Registration and provisioning, for any number of requests, starts and   *)
(* faults: what races and failures leave behind, and that a registration   *)
(* nothing interrupted is provisioned.                                     *)
(***************************************************************************)
EXTENDS Accounts, SequenceTheorems, TLAPS

RequestRecord(n) ==
    [pc : Steps, api : Apis, role : UserRoles, existing : UserRoles \union {None},
     found : EndUser \union {None}, wallet : 1..n \union {None}]

AType ==
    /\ user \in UserRow \union {None}
    /\ walletRow \in 1..Len(wallets) \union {None}
    /\ endUsers \in 0..MaxEndUsers
    /\ wallets \in Seq(Wallet)
    /\ request \in [Requests -> RequestRecord(Len(wallets))]
    /\ faults \in Nat /\ legacy \in BOOLEAN

\* Where a request provisions: until the row names a wallet, and after.
ToWallet == {"provision", "create", "persist"}
ToUser == {"fund", "trust", "delegate"}

\* A wallet the trustline was sent for, and one that has been handed over too.
Sent(w) == w.trust # "no"
HandedOver(w) == Sent(w) /\ w.owner # Service

\* What a request m has seen to by the step it is at.
Placed(m, u, row, ws, linked, late) ==
    /\ m.existing # None => u # None
    /\ m.pc = "link" => m.found # None
    /\ m.pc = "persist" => m.wallet # None
    /\ m.pc \in ToUser => row # None /\ m.wallet = row
    /\ ~late => m.api = "auth"
    /\ m.api = "auth" /\ m.pc = "delegate" => Sent(ws[m.wallet])
    /\ m.api = "auth" /\ m.pc \in ToWallet \union ToUser => linked

RequestsPlaced ==
    \A r \in Requests : Placed(request[r], user, walletRow, wallets, Linked, legacy)

RowIsLinked == walletRow # None /\ ~legacy => Linked

\* Once the row is linked, and as long as nothing failed, some request is on its
\* way to a wallet, then to handing it over, until that is done.
UnderWay ==
    IF walletRow = None
    THEN \E r \in Requests : request[r].pc \in ToWallet
    ELSE \/ HandedOver(wallets[walletRow])
         \/ \E r \in Requests : request[r].pc = "delegate"
         \/ ~Sent(wallets[walletRow]) /\ \E r \in Requests : request[r].pc \in ToUser
Provisioning == Linked /\ faults = 0 /\ ~legacy => UnderWay

\* A trustline is only ever sent for the wallet the row names.
SentForRow == \A w \in DOMAIN wallets : Sent(wallets[w]) => w = walletRow

AInv ==
    /\ AType /\ RequestsPlaced /\ RowIsLinked /\ Provisioning /\ SentForRow
    /\ TrustSentBeforeDelegated /\ OrphansNeverDelegated
-----------------------------------------------------------------------------
(* Types, and the records of requests. *)

\* What is known of the state and of a request.
LEMMA Facts ==
    ASSUME AInv
    PROVE  /\ Len(wallets) \in Nat /\ wallets \in Seq(Wallet)
           /\ DOMAIN wallets = 1..Len(wallets)
           /\ walletRow \in 1..Len(wallets) \union {None}
           /\ request \in [Requests -> RequestRecord(Len(wallets))]
           /\ user \in UserRow \union {None} /\ endUsers \in 0..MaxEndUsers
           /\ faults \in Nat /\ legacy \in BOOLEAN
BY LenProperties DEF AInv, AType

\* One request: its record, and what its step promises of the row and the wallets.
LEMMA RequestFacts ==
    ASSUME AInv, NEW r \in Requests
    PROVE  /\ request[r] \in RequestRecord(Len(wallets))
           /\ Placed(request[r], user, walletRow, wallets, Linked, legacy)
           /\ request[r].pc \in Steps /\ request[r].api \in Apis
           /\ request[r].role \in UserRoles /\ request[r].existing \in UserRoles \union {None}
           /\ request[r].found \in EndUser \union {None}
           /\ request[r].wallet \in 1..Len(wallets) \union {None}
<1>1. request[r] \in RequestRecord(Len(wallets))
  BY Facts
<1>2. Placed(request[r], user, walletRow, wallets, Linked, legacy)
  BY DEF AInv, RequestsPlaced
<1> QED BY <1>1, <1>2 DEF RequestRecord

\* A request's record stays one when wallets are added.
LEMMA RecordsWiden ==
    ASSUME NEW n \in Nat, NEW k \in Nat, n <= k
    PROVE  RequestRecord(n) \subseteq RequestRecord(k)
<1> DEFINE few == 1..n \union {None}
           more == 1..k \union {None}
<1>1. few \subseteq more
  OBVIOUS
<1> HIDE DEF few, more
<1>2. ASSUME NEW x \in [pc : Steps, api : Apis, role : UserRoles,
                       existing : UserRoles \union {None},
                       found : EndUser \union {None}, wallet : few]
      PROVE  x \in [pc : Steps, api : Apis, role : UserRoles,
                    existing : UserRoles \union {None},
                    found : EndUser \union {None}, wallet : more]
  BY <1>1
<1> QED BY <1>2 DEF RequestRecord, few, more

\* A request that is over is idle.
LEMMA IdleRecord ==
    ASSUME NEW n \in Nat
    PROVE  /\ Idle \in RequestRecord(n) /\ Idle.pc = "idle" /\ Idle.api = "auth"
           /\ Idle.wallet = None /\ Idle.found = None /\ Idle.existing = None
<1>1. "idle" \in Steps /\ "auth" \in Apis /\ DefaultRole \in UserRoles
  BY RolesKnown DEF Steps, Apis
<1> QED BY <1>1 DEF Idle, RequestRecord

\* Going to a step changes nothing else of the request.
LEMMA GotoRecord ==
    ASSUME AInv, NEW r \in Requests, NEW pc \in Steps, Goto(r, pc)
    PROVE  \E m \in RequestRecord(Len(wallets)) :
              /\ request' = [request EXCEPT ![r] = m] /\ m.pc = pc
              /\ m.api = request[r].api /\ m.role = request[r].role
              /\ m.existing = request[r].existing /\ m.found = request[r].found
              /\ m.wallet = request[r].wallet
<1> DEFINE o == request[r]
           k == Len(wallets)
           m == [o EXCEPT !.pc = pc]
<1>1. request' = [request EXCEPT ![r] = m]
  BY DEF Goto
<1>2. o \in RequestRecord(k)
  BY RequestFacts
<1>3. /\ m \in RequestRecord(k) /\ m.pc = pc /\ m.api = o.api /\ m.role = o.role
      /\ m.existing = o.existing /\ m.found = o.found /\ m.wallet = o.wallet
  <2>1. m = [o EXCEPT !.pc = pc]
    OBVIOUS
  <2> HIDE DEF m, o, k
  <2> QED BY <1>2, <2>1 DEF RequestRecord
<1> HIDE DEF m
<1> QED BY <1>1, <1>3
-----------------------------------------------------------------------------
(* Steps of one request. *)

\* What every step keeps of the rows and the wallets: they are only added to.
Grows ==
    /\ user' \in UserRow \union {None} /\ (user # None => user' # None)
    /\ Linked => Linked'
    /\ wallets' \in Seq(Wallet) /\ Len(wallets) <= Len(wallets')
    /\ \A w \in 1..Len(wallets) : Sent(wallets[w]) => Sent(wallets'[w])
    /\ walletRow = None \/ walletRow' = walletRow
    /\ walletRow' \in 1..Len(wallets') \union {None}
    /\ endUsers' \in 0..MaxEndUsers
    /\ faults' \in Nat /\ faults' >= faults
    /\ legacy' \in BOOLEAN /\ (legacy => legacy')

\* Such a step of one request leaves the others where they are.
LEMMA OthersStay ==
    ASSUME AInv, NEW r \in Requests, NEW m \in RequestRecord(Len(wallets')),
           request' = [request EXCEPT ![r] = m], Grows,
           Placed(m, user', walletRow', wallets', Linked', legacy')
    PROVE  AType' /\ RequestsPlaced'
<1>1. /\ Len(wallets) \in Nat /\ Len(wallets') \in Nat
      /\ request \in [Requests -> RequestRecord(Len(wallets))]
  BY Facts, LenProperties DEF Grows
<1>2. RequestRecord(Len(wallets)) \subseteq RequestRecord(Len(wallets'))
  BY <1>1, RecordsWiden DEF Grows
<1>3. AType'
  BY <1>1, <1>2 DEF AType, Grows
<1>4. RequestsPlaced'
  <2> SUFFICES ASSUME NEW q \in Requests
               PROVE  Placed(request'[q], user', walletRow', wallets', Linked', legacy')
    BY DEF RequestsPlaced, Placed
  <2>1. CASE q = r
    BY <1>1, <2>1
  <2>2. CASE q # r
    <3>1. /\ Placed(request[q], user, walletRow, wallets, Linked, legacy)
          /\ request[q].wallet \in 1..Len(wallets) \union {None}
          /\ request'[q] = request[q]
      BY <1>1, <2>2, RequestFacts
    <3>2. walletRow # None => walletRow' = walletRow
      BY DEF Grows
    <3>3. request[q].api = "auth" /\ request[q].pc = "delegate"
             => Sent(wallets'[request[q].wallet])
      BY <3>1 DEF Placed, Grows, ToUser
    <3> QED BY <3>1, <3>2, <3>3 DEF Placed, Grows
  <2> QED BY <2>1, <2>2
<1> QED BY <1>3, <1>4

\* Where a request's step to m leaves the provisioning of a linked row.
KeepsUnderWay(r, m) ==
    Linked' /\ faults' = 0 /\ ~legacy' =>
        /\ ~Linked => m.pc = "provision"
        /\ request[r].pc \in ToWallet => m.pc \in ToWallet \/ walletRow # None
        /\ request[r].pc \in ToUser => m.pc \in ToUser
        /\ request[r].pc = "delegate" => m.pc = "delegate"

\* A step of one request that leaves the wallets alone keeps the invariant.
LEMMA WalletsStay ==
    ASSUME AInv, NEW r \in Requests, NEW m \in RequestRecord(Len(wallets)),
           request' = [request EXCEPT ![r] = m], Grows,
           UNCHANGED <<walletRow, wallets>>,
           Placed(m, user', walletRow, wallets, Linked', legacy'), KeepsUnderWay(r, m)
    PROVE  AInv'
<1>1. AType' /\ RequestsPlaced'
  BY OthersStay
<1>2. /\ request \in [Requests -> RequestRecord(Len(wallets))] /\ faults \in Nat
      /\ legacy \in BOOLEAN
  BY Facts
<1>3. RowIsLinked'
  BY <1>2 DEF AInv, RowIsLinked, Grows
<1>4. Provisioning'
  <2> SUFFICES ASSUME Linked', faults' = 0, ~legacy'
               PROVE  UnderWay'
    BY DEF Provisioning
  <2>1. faults = 0 /\ ~legacy
    BY <1>2 DEF Grows
  <2>2. request'[r] = m /\ \A q \in Requests \ {r} : request'[q] = request[q]
    BY <1>2
  <2>3. CASE Linked
    <3>1. UnderWay
      BY <2>1, <2>3 DEF AInv, Provisioning
    <3>2. CASE walletRow = None
      BY <2>2, <3>1, <3>2 DEF UnderWay, KeepsUnderWay
    <3>3. CASE walletRow # None
      BY <2>2, <3>1, <3>3 DEF UnderWay, KeepsUnderWay
    <3> QED BY <3>2, <3>3
  <2>4. CASE ~Linked
    <3>1. walletRow = None /\ m.pc = "provision"
      BY <2>1, <2>4 DEF AInv, RowIsLinked, KeepsUnderWay
    <3> QED BY <2>2, <3>1 DEF UnderWay, ToWallet
  <2> QED BY <2>3, <2>4
<1>5. TrustSentBeforeDelegated' /\ OrphansNeverDelegated' /\ SentForRow'
  BY <1>2 DEF AInv, TrustSentBeforeDelegated, OrphansNeverDelegated, SentForRow, Grows, Sent
<1> QED BY <1>1, <1>3, <1>4, <1>5 DEF AInv

\* A request that fails, or ends before it provisions, changes nothing else.
LEMMA Ends ==
    ASSUME AInv, NEW r \in Requests, Finish(r), Grows, UNCHANGED <<walletRow, wallets>>,
           Linked' => Linked,
           \/ faults' # 0
           \/ request[r].pc \notin ToWallet \union ToUser
           \/ request[r].pc \in ToWallet /\ walletRow # None
    PROVE  AInv'
<1>1. /\ Idle \in RequestRecord(Len(wallets)) /\ Idle.pc = "idle" /\ Idle.api = "auth"
      /\ Idle.existing = None
  BY Facts, IdleRecord
<1>2. request' = [request EXCEPT ![r] = Idle]
  BY DEF Finish
<1>3. Placed(Idle, user', walletRow, wallets, Linked', legacy')
  BY <1>1 DEF Placed, ToWallet, ToUser
<1>4. KeepsUnderWay(r, Idle)
  BY DEF KeepsUnderWay, ToWallet, ToUser
<1> QED BY <1>1, <1>2, <1>3, <1>4, WalletsStay

\* A step that changes neither row nor wallet.
LEMMA QuietGrows ==
    ASSUME AInv, UNCHANGED <<user, walletRow, wallets>>, endUsers' \in 0..MaxEndUsers,
           UNCHANGED faults \/ Fault,
           legacy' \in BOOLEAN, legacy => legacy'
    PROVE  Grows /\ (Linked' <=> Linked)
<1>1. faults' \in Nat /\ faults' >= faults
  BY Facts DEF Fault
<1>2. (Linked' <=> Linked)
  BY DEF Linked
<1> QED BY <1>1, <1>2, Facts DEF Grows

\* A fault is counted.
LEMMA FaultCounts ==
    ASSUME AInv, Fault
    PROVE  faults' # 0
BY Facts DEF Fault

\* A change of the row's role, or its EndUser, leaves a row.
LEMMA UpdatedRow ==
    ASSUME AInv, user # None, NEW role \in UserRoles, NEW found \in EndUser
    PROVE  /\ [user EXCEPT !["role"] = role] \in UserRow
           /\ [user EXCEPT !["role"] = role].dfnsUserId = user.dfnsUserId
           /\ [user EXCEPT !["dfnsUserId"] = found] \in UserRow
           /\ [user EXCEPT !["dfnsUserId"] = found].dfnsUserId = found
<1>1. user \in UserRow
  BY Facts
<1> QED BY <1>1 DEF UserRow
-----------------------------------------------------------------------------
(* Registration. *)

\* A request that starts at the list, or a wallet endpoint's.
LEMMA StartKeeps ==
    ASSUME AInv, NEW r \in Requests, NEW api \in Apis, NEW pc, NEW role \in UserRoles,
           Start(r, api, pc, role),
           pc \in {"list", "create", "delegate"}, api = "auth" => pc = "list",
           pc = "delegate" => walletRow # None,
           UNCHANGED <<user, walletRow, endUsers, wallets, faults>>
    PROVE  AInv'
<1> DEFINE k == Len(wallets)
           known == getByEmail
           m == [Idle EXCEPT !.pc = pc, !.api = api, !.role = role,
                             !.existing = known, !.wallet = walletRow]
<1>1. /\ request[r].pc = "idle" /\ request' = [request EXCEPT ![r] = m]
      /\ legacy' = (legacy \/ api = "users")
  BY DEF Start, At
<1>2. known \in UserRoles \union {None}
  BY Facts DEF getByEmail, UserRow
<1>3. /\ m \in RequestRecord(k) /\ m.pc = pc /\ m.api = api /\ m.wallet = walletRow
      /\ m.existing = known
  <2>1. m = [Idle EXCEPT !.pc = pc, !.api = api, !.role = role,
                         !.existing = known, !.wallet = walletRow]
    OBVIOUS
  <2>2. Idle \in RequestRecord(k) /\ pc \in Steps /\ walletRow \in 1..k \union {None}
    BY Facts, IdleRecord DEF Steps
  <2> HIDE DEF m, k, known
  <2> QED BY <1>2, <2>1, <2>2 DEF RequestRecord
<1> HIDE DEF m
<1>4. legacy' \in BOOLEAN /\ (legacy => legacy')
  BY <1>1, Facts
<1>5. Grows /\ (Linked' <=> Linked)
  BY <1>4, QuietGrows, Facts
<1>6. Placed(m, user', walletRow, wallets, Linked', legacy')
  <2>1. ~legacy' => api = "auth"
    BY <1>1 DEF Apis
  <2>2. m.existing # None => user' # None
    BY <1>3 DEF getByEmail
  <2> QED BY <1>3, <2>1, <2>2 DEF Placed, ToWallet, ToUser
<1>7. KeepsUnderWay(r, m)
  BY <1>1, <1>5 DEF KeepsUnderWay, ToWallet, ToUser
<1> QED BY <1>1, <1>3, <1>5, <1>6, <1>7, WalletsStay

\* Registrations and wallet requests start.
LEMMA StartsKeep ==
    ASSUME AInv, NEW r \in Requests,
           registerInit(r) \/ usersRegisterInit(r) \/ WalletsController(r)
    PROVE  AInv'
<1>1. {"auth", "users"} \subseteq Apis /\ DefaultRole \in UserRoles
  BY RolesKnown DEF Apis
<1>2. CASE registerInit(r)
  <2>1. PICK role \in UserRoles : Start(r, "auth", "list", role)
    BY <1>2 DEF registerInit
  <2> QED BY <1>1, <1>2, <2>1, StartKeeps DEF registerInit, dbVars, dfnsVars
<1>3. CASE usersRegisterInit(r)
  BY <1>1, <1>3, StartKeeps DEF usersRegisterInit, dbVars, dfnsVars
<1>4. CASE PostWallet(r)
  BY <1>1, <1>4, StartKeeps DEF PostWallet, dbVars, dfnsVars
<1>5. CASE PostDelegate(r)
  BY <1>1, <1>5, StartKeeps DEF PostDelegate, dbVars, dfnsVars
<1> QED BY <1>2, <1>3, <1>4, <1>5 DEF WalletsController

\* DFNS makes an EndUser.
LEMMA registerCompleteKeeps ==
    ASSUME AInv, NEW r \in Requests, NEW api \in Apis, registerComplete(r, api)
    PROVE  AInv'
<1> DEFINE k == Len(wallets)
           n == endUsers + 1
           m == [Idle EXCEPT !.pc = "link", !.api = api, !.found = n]
<1>1. /\ request[r].pc = "idle" /\ request' = [request EXCEPT ![r] = m]
      /\ legacy' = (legacy \/ api = "users") /\ endUsers < MaxEndUsers /\ endUsers' = n
      /\ UNCHANGED <<user, walletRow, wallets, faults>>
  BY DEF registerComplete, At, dbVars
<1>2. n \in EndUser /\ n \in 0..MaxEndUsers /\ n # None
  <2>1. endUsers \in 0..MaxEndUsers /\ MaxEndUsers \in Nat /\ None \notin Nat
    BY Facts, AccountBounds, ServiceIsNoUser
  <2> QED BY <1>1, <2>1 DEF EndUser
<1>3. /\ m \in RequestRecord(k) /\ m.pc = "link" /\ m.api = api /\ m.found = n
      /\ m.existing = None
  <2>1. m = [Idle EXCEPT !.pc = "link", !.api = api, !.found = n]
    OBVIOUS
  <2>2. Idle \in RequestRecord(k) /\ "link" \in Steps /\ Idle.existing = None
    BY Facts, IdleRecord DEF Steps
  <2> HIDE DEF m, k, n
  <2> QED BY <1>2, <2>1, <2>2 DEF RequestRecord
<1> HIDE DEF m
<1>4. legacy' \in BOOLEAN /\ (legacy => legacy')
  BY <1>1, Facts
<1>5. Grows /\ (Linked' <=> Linked)
  BY <1>1, <1>2, <1>4, QuietGrows
<1>6. Placed(m, user', walletRow, wallets, Linked', legacy')
  <2>1. ~legacy' => api = "auth"
    BY <1>1 DEF Apis
  <2> QED BY <1>2, <1>3, <2>1 DEF Placed, ToWallet, ToUser
<1>7. KeepsUnderWay(r, m)
  BY <1>1, <1>5 DEF KeepsUnderWay, ToWallet, ToUser
<1> QED BY <1>1, <1>3, <1>5, <1>6, <1>7, WalletsStay

\* A request's step between those of registration changes no row.
LEMMA StepKeeps ==
    ASSUME AInv, NEW r \in Requests, NEW m \in RequestRecord(Len(wallets)),
           request' = [request EXCEPT ![r] = m],
           request[r].pc \in {"list", "row", "challenge"},
           m.pc \in {"row", "challenge", "link"}, m.api = request[r].api,
           m.existing = request[r].existing,
           m.pc = "link" => m.found # None,
           Grows, UNCHANGED <<walletRow, wallets, legacy>>, (Linked' <=> Linked)
    PROVE  AInv'
<1>1. Placed(request[r], user, walletRow, wallets, Linked, legacy)
  BY RequestFacts
<1>2. Placed(m, user', walletRow, wallets, Linked', legacy')
  BY <1>1 DEF Placed, ToWallet, ToUser, Grows
<1>3. KeepsUnderWay(r, m)
  BY DEF KeepsUnderWay, ToWallet, ToUser
<1> QED BY <1>2, <1>3, WalletsStay

\* listUsers finds an EndUser that exists, or none, and the request goes on.
LEMMA listUsersKeeps ==
    ASSUME AInv, NEW r \in Requests, listUsers(r)
    PROVE  AInv'
<1> DEFINE o == request[r]
           k == Len(wallets)
<1>1. /\ o.pc = "list" /\ UNCHANGED <<user, walletRow, endUsers, wallets, legacy>>
      /\ UNCHANGED faults \/ Fault
  BY DEF listUsers, At, dbVars, dfnsVars
<1>2. Grows /\ (Linked' <=> Linked)
  BY <1>1, QuietGrows, Facts
<1>3. PICK found \in (IF endUsers = 0 THEN {None} ELSE 1..endUsers) \union {None} :
        request' = [request EXCEPT ![r].found = found,
              ![r].pc = IF o.api = "auth" \/ found # None THEN "row" ELSE "challenge"]
  BY DEF listUsers
<1> DEFINE pc == IF o.api = "auth" \/ found # None THEN "row" ELSE "challenge"
           m == [o EXCEPT !.found = found, !.pc = pc]
<1>4. request' = [request EXCEPT ![r] = m]
  BY <1>3
<1>5. found \in EndUser \union {None} /\ pc \in {"row", "challenge"} /\ pc \in Steps
  <2>1. endUsers \in 0..MaxEndUsers /\ MaxEndUsers \in Nat
    BY Facts, AccountBounds
  <2>2. 1..endUsers \subseteq EndUser
    BY <2>1 DEF EndUser
  <2>3. found \in EndUser \union {None}
    BY <2>2
  <2>4. pc \in {"row", "challenge"} /\ pc \in Steps
    BY DEF Steps
  <2> QED BY <2>3, <2>4
<1>6. m \in RequestRecord(k) /\ m.pc = pc /\ m.api = o.api /\ m.existing = o.existing
  <2>1. m = [o EXCEPT !.found = found, !.pc = pc]
    OBVIOUS
  <2>2. o \in RequestRecord(k)
    BY RequestFacts
  <2> HIDE DEF m, o, k, pc
  <2> QED BY <1>5, <2>1, <2>2 DEF RequestRecord
<1> HIDE DEF m, pc
<1>7. m.pc \in {"row", "challenge", "link"} /\ (m.pc = "link" => m.found # None)
  BY <1>5, <1>6
<1> QED BY <1>1, <1>2, <1>4, <1>6, <1>7, StepKeeps

\* The row is created or its role updated: neither links nor unlinks it.
LEMMA RowGrows ==
    ASSUME AInv, UNCHANGED <<walletRow, wallets, endUsers, faults, legacy>>,
           \/ UNCHANGED user
           \/ \E role \in UserRoles : createWithProfile(role)
           \/ \E role \in UserRoles : user # None /\ update("role", role)
    PROVE  Grows /\ (Linked' <=> Linked)
<1>1. CASE UNCHANGED user
  BY <1>1, QuietGrows, Facts
<1>2. ASSUME NEW role \in UserRoles, createWithProfile(role)
      PROVE  Grows /\ (Linked' <=> Linked)
  <2>1. user' = [role |-> role, dfnsUserId |-> None] /\ user = None
    BY <1>2 DEF createWithProfile
  <2>2. user' \in UserRow /\ user'.dfnsUserId = None
    BY <2>1 DEF UserRow
  <2>3. ~Linked' /\ ~Linked
    BY <2>1, <2>2 DEF Linked
  <2>4. user # None => user' # None
    BY <2>1
  <2> QED BY <2>2, <2>3, <2>4, Facts DEF Grows
<1>3. ASSUME NEW role \in UserRoles, user # None, update("role", role)
      PROVE  Grows /\ (Linked' <=> Linked)
  <2>1. user' \in UserRow /\ user'.dfnsUserId = user.dfnsUserId
    <3>1. user' = [user EXCEPT !["role"] = role]
      BY <1>3 DEF update
    <3>2. user \in UserRow
      BY <1>3, Facts
    <3> QED BY <3>1, <3>2 DEF UserRow
  <2>2. user' # None
    BY <2>1, NoneIsNoUser
  <2>3. (Linked' <=> Linked)
    BY <1>3, <2>1, <2>2 DEF Linked
  <2> QED BY <2>1, <2>2, <2>3, Facts DEF Grows
<1> QED BY <1>1, <1>2, <1>3

\* The row is there before DFNS is asked, in auth's registrations.
LEMMA EnsureUserKeeps ==
    ASSUME AInv, NEW r \in Requests, EnsureUser(r)
    PROVE  AInv'
<1>1. /\ request[r].pc = "row"
      /\ UNCHANGED <<walletRow, endUsers, wallets, faults, legacy>>
  BY DEF EnsureUser, At, dfnsVars, boundVars
<1>2. /\ request[r].role \in UserRoles /\ {"link", "challenge"} \subseteq Steps
      /\ request[r].existing # None => user # None
  BY RequestFacts DEF Steps, Placed
<1>3. CASE Finish(r) /\ UNCHANGED user
  <2>1. Grows /\ (Linked' <=> Linked)
    BY <1>1, <1>3, RowGrows
  <2> QED BY <1>1, <1>3, <2>1, Ends DEF ToWallet, ToUser
<1>4. CASE /\ Goto(r, IF request[r].found # None THEN "link" ELSE "challenge")
           /\ \/ UNCHANGED user
              \/ createWithProfile(request[r].role)
              \/ user # None /\ update("role", request[r].role)
  <2>1. Grows /\ (Linked' <=> Linked)
    BY <1>1, <1>2, <1>4, RowGrows
  <2> DEFINE pc == IF request[r].found # None THEN "link" ELSE "challenge"
  <2>2. pc \in Steps /\ Goto(r, pc)
    BY <1>2, <1>4
  <2>3. pc \in {"link", "challenge"} /\ (pc = "link" => request[r].found # None)
    OBVIOUS
  <2> HIDE DEF pc
  <2>4. PICK m \in RequestRecord(Len(wallets)) :
          /\ request' = [request EXCEPT ![r] = m] /\ m.pc = pc
          /\ m.api = request[r].api /\ m.found = request[r].found
          /\ m.existing = request[r].existing
    BY <2>2, GotoRecord
  <2>5. m.pc \in {"row", "challenge", "link"} /\ (m.pc = "link" => m.found # None)
    BY <2>3, <2>4
  <2> QED BY <1>1, <2>1, <2>4, <2>5, StepKeeps
<1> QED BY <1>2, <1>3, <1>4 DEF EnsureUser

\* The older endpoints' row, of the default role.
LEMMA EnsureUsernameKeeps ==
    ASSUME AInv, NEW r \in Requests, EnsureUsername(r)
    PROVE  AInv'
<1>1. /\ request[r].pc = "row"
      /\ UNCHANGED <<walletRow, endUsers, wallets, faults, legacy>>
  BY DEF EnsureUsername, At, dfnsVars, boundVars
<1>2. UNCHANGED user \/ createWithProfile(DefaultRole)
  BY DEF EnsureUsername, create
<1>3. Grows /\ (Linked' <=> Linked)
  BY <1>1, <1>2, RolesKnown, RowGrows
<1>4. CASE Finish(r)
  BY <1>1, <1>3, <1>4, Ends DEF ToWallet, ToUser
<1>5. CASE Goto(r, "link") /\ request[r].found # None
  <2>1. "link" \in Steps
    BY DEF Steps
  <2>2. PICK m \in RequestRecord(Len(wallets)) :
          /\ request' = [request EXCEPT ![r] = m] /\ m.pc = "link"
          /\ m.api = request[r].api /\ m.found = request[r].found
          /\ m.existing = request[r].existing
    BY <1>5, <2>1, GotoRecord
  <2> QED BY <1>1, <1>3, <1>5, <2>2, StepKeeps
<1> QED BY <1>4, <1>5 DEF EnsureUsername

\* A challenge is handed out.
LEMMA ChallengeKeeps ==
    ASSUME AInv, NEW r \in Requests, Challenge(r)
    PROVE  AInv'
<1>1. /\ request[r].pc = "challenge"
      /\ UNCHANGED <<user, walletRow, endUsers, wallets, faults, legacy>>
  BY DEF Challenge, At, dbVars, boundVars
<1>2. Grows /\ (Linked' <=> Linked)
  BY <1>1, QuietGrows, Facts
<1>3. CASE Finish(r)
  BY <1>1, <1>2, <1>3, Ends DEF ToWallet, ToUser
<1>4. CASE Goto(r, "row")
  <2>1. "row" \in Steps
    BY DEF Steps
  <2>2. PICK m \in RequestRecord(Len(wallets)) :
          /\ request' = [request EXCEPT ![r] = m] /\ m.pc = "row"
          /\ m.api = request[r].api /\ m.existing = request[r].existing
    BY <1>4, <2>1, GotoRecord
  <2> QED BY <1>1, <1>2, <2>2, StepKeeps
<1> QED BY <1>3, <1>4 DEF Challenge

\* The row learns of its EndUser; auth goes on to provision.
LEMMA LinkKeeps ==
    ASSUME AInv, NEW r \in Requests, Link(r)
    PROVE  AInv'
<1>1. /\ request[r].pc = "link"
      /\ UNCHANGED <<walletRow, endUsers, wallets, faults, legacy>>
  BY DEF Link, At, dfnsVars, boundVars
<1>2. /\ Placed(request[r], user, walletRow, wallets, Linked, legacy)
      /\ request[r].found \in EndUser /\ request[r].api \in Apis
  BY <1>1, RequestFacts DEF Placed
<1>3. CASE user = None
  <2>1. Finish(r) /\ UNCHANGED user
    BY <1>3 DEF Link
  <2>2. Grows /\ (Linked' <=> Linked)
    BY <1>1, <2>1, RowGrows
  <2> QED BY <1>1, <2>1, <2>2, Ends DEF ToWallet, ToUser
<1>4. CASE user # None
  <2>1. user' = [user EXCEPT !["dfnsUserId"] = request[r].found]
    BY <1>4 DEF Link, update
  <2>2. user' \in UserRow /\ user'.dfnsUserId = request[r].found
    BY <1>2, <1>4, <2>1, UpdatedRow, RolesKnown
  <2>3. user' # None /\ request[r].found # None
    BY <1>1, <1>2, <2>2, NoneIsNoUser DEF Placed
  <2>4. Linked'
    BY <2>2, <2>3 DEF Linked
  <2>5. Grows
    BY <1>1, <2>2, <2>3, <2>4, Facts DEF Grows
  <2>6. CASE request[r].api = "auth"
    <3>1. Goto(r, "provision") /\ "provision" \in Steps
      BY <1>4, <2>6 DEF Link, Steps
    <3>2. PICK m \in RequestRecord(Len(wallets)) :
            /\ request' = [request EXCEPT ![r] = m] /\ m.pc = "provision"
            /\ m.api = request[r].api /\ m.existing = request[r].existing
      BY <3>1, GotoRecord
    <3>3. Placed(m, user', walletRow, wallets, Linked', legacy')
      BY <1>1, <1>2, <2>3, <2>4, <3>2 DEF Placed, ToUser
    <3>4. KeepsUnderWay(r, m)
      BY <1>1, <3>2 DEF KeepsUnderWay, ToWallet, ToUser
    <3> QED BY <1>1, <2>5, <3>2, <3>3, <3>4, WalletsStay
  <2>7. CASE request[r].api # "auth"
    <3>1. request' = [request EXCEPT ![r] = Idle] /\ legacy'
      BY <1>1, <1>2, <2>7 DEF Link, Finish, Placed
    <3>2. /\ Idle \in RequestRecord(Len(wallets)) /\ Idle.pc = "idle" /\ Idle.api = "auth"
          /\ Idle.existing = None
      BY Facts, IdleRecord
    <3>3. Placed(Idle, user', walletRow, wallets, Linked', legacy')
      BY <3>2 DEF Placed, ToWallet, ToUser
    <3>4. KeepsUnderWay(r, Idle)
      BY <3>1 DEF KeepsUnderWay
    <3> QED BY <1>1, <2>5, <3>1, <3>2, <3>3, <3>4, WalletsStay
  <2> QED BY <2>6, <2>7
<1> QED BY <1>3, <1>4

\* A request fails.
LEMMA FailKeeps ==
    ASSUME AInv, NEW r \in Requests, Fail(r)
    PROVE  AInv'
<1>1. /\ Fault /\ Finish(r)
      /\ UNCHANGED <<user, walletRow, endUsers, wallets, legacy>>
  BY DEF Fail, dbVars, dfnsVars
<1>2. Grows /\ (Linked' <=> Linked)
  BY <1>1, QuietGrows, Facts
<1> QED BY <1>1, <1>2, FaultCounts, Ends
-----------------------------------------------------------------------------
(* Provisioning. *)

\* A wallet there already needs no second one.
LEMMA provisionWalletKeeps ==
    ASSUME AInv, NEW r \in Requests, provisionWallet(r)
    PROVE  AInv'
<1>1. /\ request[r].pc = "provision"
      /\ UNCHANGED <<user, walletRow, endUsers, wallets, faults, legacy>>
  BY DEF provisionWallet, At, dbVars, dfnsVars, boundVars
<1>2. Grows /\ (Linked' <=> Linked)
  BY <1>1, QuietGrows, Facts
<1>3. CASE walletRow # None
  <2>1. Finish(r)
    BY <1>3 DEF provisionWallet, getWalletByUserId
  <2> QED BY <1>1, <1>2, <1>3, <2>1, Ends DEF ToWallet
<1>4. CASE walletRow = None
  <2>1. Goto(r, "create") /\ "create" \in Steps
    BY <1>4 DEF provisionWallet, getWalletByUserId, Steps
  <2>2. PICK m \in RequestRecord(Len(wallets)) :
          /\ request' = [request EXCEPT ![r] = m] /\ m.pc = "create"
          /\ m.api = request[r].api /\ m.existing = request[r].existing
    BY <2>1, GotoRecord
  <2>3. Placed(m, user', walletRow, wallets, Linked', legacy')
    BY <1>1, <1>2, <2>2, RequestFacts DEF Placed, ToWallet, ToUser
  <2>4. KeepsUnderWay(r, m)
    BY <1>1, <1>2, <2>2 DEF KeepsUnderWay, ToWallet, ToUser
  <2> QED BY <1>1, <1>2, <2>2, <2>3, <2>4, WalletsStay
<1> QED BY <1>3, <1>4

\* A request that learns of its wallet.
TakesWallet(r, w, pc) == request' = [request EXCEPT ![r].wallet = w, ![r].pc = pc]

\* Its record then has that wallet and step, and is otherwise as before.
LEMMA WalletRecord ==
    ASSUME AInv, NEW r \in Requests, NEW n \in Nat, Len(wallets) <= n,
           NEW w \in 1..n \union {None}, NEW pc \in Steps,
           TakesWallet(r, w, pc)
    PROVE  \E m \in RequestRecord(n) :
              /\ request' = [request EXCEPT ![r] = m] /\ m.pc = pc /\ m.wallet = w
              /\ m.api = request[r].api /\ m.existing = request[r].existing
<1> DEFINE o == request[r]
           m == [o EXCEPT !.wallet = w, !.pc = pc]
<1>1. request' = [request EXCEPT ![r] = m]
  BY DEF TakesWallet
<1>2. o \in RequestRecord(n)
  BY RequestFacts, Facts, RecordsWiden
<1>3. /\ m \in RequestRecord(n) /\ m.pc = pc /\ m.wallet = w
      /\ m.api = o.api /\ m.existing = o.existing
  <2>1. m = [o EXCEPT !.wallet = w, !.pc = pc]
    OBVIOUS
  <2> HIDE DEF m, o
  <2> QED BY <1>2, <2>1 DEF RequestRecord
<1> HIDE DEF m
<1> QED BY <1>1, <1>3

\* A new wallet is the service account's.
LEMMA createWalletKeeps ==
    ASSUME AInv, NEW r \in Requests, createWallet(r)
    PROVE  AInv'
<1>1. /\ request[r].pc = "create"
      /\ UNCHANGED <<user, walletRow, endUsers, faults, legacy>>
  BY DEF createWallet, At, dbVars, boundVars
<1>2. /\ Placed(request[r], user, walletRow, wallets, Linked, legacy)
      /\ Len(wallets) \in Nat /\ walletRow \in 1..Len(wallets) \union {None}
      /\ {"trust", "persist"} \subseteq Steps
  BY RequestFacts, Facts DEF Steps
<1>3. CASE walletRow # None /\ UNCHANGED wallets
  <2>1. Grows /\ (Linked' <=> Linked)
    BY <1>1, <1>3, QuietGrows, Facts
  <2>2. CASE Finish(r)
    BY <1>1, <1>3, <2>1, <2>2, Ends DEF ToWallet
  <2>3. CASE TakesWallet(r, walletRow, "trust")
    <3>1. PICK m \in RequestRecord(Len(wallets)) :
            /\ request' = [request EXCEPT ![r] = m] /\ m.pc = "trust"
            /\ m.wallet = walletRow
            /\ m.api = request[r].api /\ m.existing = request[r].existing
      BY <1>2, <2>3, WalletRecord
    <3>2. Placed(m, user', walletRow, wallets, Linked', legacy')
      BY <1>1, <1>2, <1>3, <2>1, <3>1 DEF Placed, ToWallet, ToUser
    <3>3. KeepsUnderWay(r, m)
      BY <1>1, <1>3, <2>1 DEF KeepsUnderWay, ToUser
    <3> QED BY <1>1, <1>3, <2>1, <3>1, <3>2, <3>3, WalletsStay
  <2> QED BY <1>3, <2>2, <2>3 DEF createWallet, getWalletByUserId, TakesWallet
<1>4. CASE /\ walletRow = None /\ AfterWallet(r, Len(wallets) + 1)
           /\ wallets' = Append(wallets, [funded |-> FALSE, trust |-> "no",
                                          owner |-> Service])
  <2> DEFINE n == Len(wallets) + 1
             new == [funded |-> FALSE, trust |-> "no", owner |-> Service]
  <2>1. new \in Wallet /\ new.owner = Service /\ new.trust = "no"
    BY DEF Wallet, Trust
  <2>2. /\ wallets' \in Seq(Wallet) /\ Len(wallets') = n /\ wallets'[n] = new
        /\ \A w \in 1..Len(wallets) : wallets'[w] = wallets[w]
    <3>1. wallets \in Seq(Wallet) /\ wallets' = Append(wallets, new)
      BY <1>4, Facts
    <3> HIDE DEF new
    <3> QED BY <2>1, <3>1, AppendProperties
  <2>3. n \in Nat /\ n \in 1..n /\ n # None /\ Len(wallets) <= n
        /\ 1..n = 1..Len(wallets) \union {n}
    BY <1>2, ServiceIsNoUser
  <2> HIDE DEF new
  <2>4. DOMAIN wallets' = 1..n /\ DOMAIN wallets = 1..Len(wallets)
    BY <2>2, LenProperties, Facts
  <2>5. TakesWallet(r, n, "persist")
    BY <1>1, <1>4 DEF AfterWallet, TakesWallet
  <2> HIDE DEF n
  <2>6. PICK m \in RequestRecord(n) :
          /\ request' = [request EXCEPT ![r] = m] /\ m.pc = "persist"
          /\ m.wallet = n
          /\ m.api = request[r].api /\ m.existing = request[r].existing
    BY <1>2, <2>3, <2>5, WalletRecord
  <2>7. Linked' <=> Linked
    BY <1>1 DEF Linked
  <2>8. Grows
    BY <1>1, <1>4, <2>2, <2>3, <2>7, Facts DEF Grows
  <2>9. Placed(m, user', walletRow', wallets', Linked', legacy')
    BY <1>1, <1>2, <2>3, <2>6, <2>7 DEF Placed, ToWallet, ToUser
  <2>10. AType' /\ RequestsPlaced'
    BY <2>2, <2>6, <2>8, <2>9, OthersStay
  <2>11. RowIsLinked'
    BY <1>1, <1>4 DEF RowIsLinked
  <2>12. UnderWay'
    <3>1. request'[r] = m
      BY <2>6, Facts
    <3> QED BY <1>1, <1>4, <2>6, <3>1 DEF UnderWay, ToWallet
  <2>13. TrustSentBeforeDelegated' /\ OrphansNeverDelegated' /\ SentForRow'
    BY <1>1, <2>1, <2>2, <2>3, <2>4
    DEF AInv, TrustSentBeforeDelegated, OrphansNeverDelegated, SentForRow, Sent
  <2> QED BY <2>10, <2>11, <2>12, <2>13 DEF AInv, Provisioning
<1> QED BY <1>3, <1>4 DEF createWallet, getWalletByUserId

\* The row takes the first wallet that comes.
LEMMA PersistWalletKeeps ==
    ASSUME AInv, NEW r \in Requests, PersistWallet(r)
    PROVE  AInv'
<1>1. /\ request[r].pc = "persist"
      /\ UNCHANGED <<user, endUsers, wallets, faults, legacy>>
  BY DEF PersistWallet, At, dfnsVars, boundVars
<1>2. /\ Placed(request[r], user, walletRow, wallets, Linked, legacy)
      /\ Len(wallets) \in Nat /\ DOMAIN wallets = 1..Len(wallets)
      /\ request[r].wallet \in 1..Len(wallets) \union {None}
  BY RequestFacts, Facts
<1>3. CASE walletRow # None
  <2>1. Finish(r) /\ UNCHANGED walletRow
    BY <1>3 DEF PersistWallet
  <2>2. Grows /\ (Linked' <=> Linked)
    BY <1>1, <2>1, QuietGrows, Facts
  <2> QED BY <1>1, <1>3, <2>1, <2>2, Ends DEF ToWallet
<1>4. CASE walletRow = None
  <2> DEFINE w == request[r].wallet
  <2>1. walletRow' = w /\ AfterWallet(r, w)
    BY <1>4 DEF PersistWallet
  <2>2. w \in 1..Len(wallets) /\ w # None /\ "fund" \in Steps
    BY <1>1, <1>2 DEF Placed, Steps
  <2>3. TakesWallet(r, w, "fund")
    BY <1>1, <2>1 DEF AfterWallet, TakesWallet
  <2> HIDE DEF w
  <2>4. PICK m \in RequestRecord(Len(wallets)) :
          /\ request' = [request EXCEPT ![r] = m] /\ m.pc = "fund" /\ m.wallet = w
          /\ m.api = request[r].api /\ m.existing = request[r].existing
    BY <1>2, <2>2, <2>3, WalletRecord
  <2>5. Linked' <=> Linked
    BY <1>1 DEF Linked
  <2>6. Grows
    BY <1>1, <1>4, <2>1, <2>2, <2>5, Facts DEF Grows
  <2>7. Placed(m, user', walletRow', wallets', Linked', legacy')
    BY <1>1, <1>2, <2>1, <2>2, <2>4, <2>5 DEF Placed, ToWallet, ToUser
  <2>8. AType' /\ RequestsPlaced'
    BY <1>1, <2>4, <2>6, <2>7, OthersStay
  <2>9. RowIsLinked'
    BY <1>1, <1>2, <2>5 DEF RowIsLinked, Placed, ToWallet
  <2>10. \A x \in DOMAIN wallets : wallets[x].owner = Service /\ ~Sent(wallets[x])
    <3>1. None \notin 1..Len(wallets)
      BY <1>2, ServiceIsNoUser
    <3> QED BY <1>2, <1>4, <3>1 DEF AInv, OrphansNeverDelegated, SentForRow
  <2>11. UnderWay'
    <3>1. request'[r] = m
      BY <2>4, Facts
    <3> QED BY <1>1, <1>2, <2>1, <2>2, <2>4, <2>10, <3>1 DEF UnderWay, ToUser
  <2>12. TrustSentBeforeDelegated' /\ OrphansNeverDelegated' /\ SentForRow'
    BY <1>1, <2>10 DEF TrustSentBeforeDelegated, OrphansNeverDelegated, SentForRow
  <2> QED BY <2>8, <2>9, <2>11, <2>12 DEF AInv, Provisioning
<1> QED BY <1>3, <1>4
-----------------------------------------------------------------------------
(* Handing the wallet over. *)

\* A request at the row's wallet goes on as m, with the same wallet, or is over.
MovesOn(r, m) ==
    /\ request[r].pc \in ToUser
    /\ request' = [request EXCEPT ![r] = m]
    /\ m.existing # None => user # None
    /\ \/ /\ m.pc \in ToUser
          /\ m.wallet = request[r].wallet /\ m.api = request[r].api
       \/ m.pc = "idle" /\ m.api = "auth"

\* Such a step that makes row of the row's wallet.
HandsOver(r, m, row) ==
    /\ MovesOn(r, m)
    /\ wallets' = [wallets EXCEPT ![walletRow] = row]
    /\ UNCHANGED <<user, walletRow, endUsers, legacy>> /\ (UNCHANGED faults \/ Fault)

\* Such a step keeps the invariant if it leaves the trustline, sends it before
\* it hands the wallet over, and stops only once it did or another will.
LEMMA HandsOverKeeps ==
    ASSUME AInv, NEW r \in Requests, NEW m \in RequestRecord(Len(wallets)),
           NEW row \in Wallet, HandsOver(r, m, row),
           Sent(wallets[walletRow]) => Sent(row),
           row.owner # Service /\ ~legacy => Sent(row),
           m.api = "auth" /\ m.pc = "delegate" => Sent(row),
           Linked /\ faults' = 0 /\ ~legacy
              => \/ HandedOver(row) \/ m.pc = "delegate"
                 \/ ~Sent(row) /\ m.pc \in ToUser
                 \/ /\ Sent(wallets[walletRow]) /\ row.owner = wallets[walletRow].owner
                    /\ request[r].pc # "delegate"
    PROVE  AInv'
<1>1. /\ Placed(request[r], user, walletRow, wallets, Linked, legacy)
      /\ Len(wallets) \in Nat /\ DOMAIN wallets = 1..Len(wallets)
      /\ wallets \in Seq(Wallet) /\ faults \in Nat /\ legacy \in BOOLEAN
      /\ walletRow \in 1..Len(wallets) \union {None}
      /\ request \in [Requests -> RequestRecord(Len(wallets))]
  BY RequestFacts, Facts
<1>2. /\ walletRow # None /\ walletRow \in 1..Len(wallets)
      /\ request[r].wallet = walletRow
  BY <1>1 DEF Placed, HandsOver, MovesOn
<1>3. /\ wallets' \in Seq(Wallet) /\ Len(wallets') = Len(wallets)
      /\ DOMAIN wallets' = DOMAIN wallets /\ wallets'[walletRow] = row
      /\ \A w \in 1..Len(wallets) \ {walletRow} : wallets'[w] = wallets[w]
  <2>1. wallets' = [wallets EXCEPT ![walletRow] = row]
    BY DEF HandsOver
  <2>2. wallets' \in Seq(Wallet) /\ Len(wallets') = Len(wallets)
    BY <1>1, <1>2, <2>1, ExceptSeq
  <2> QED BY <1>1, <1>2, <2>1, <2>2
<1>4. Linked' <=> Linked
  BY DEF Linked, HandsOver
<1>5. faults' \in Nat /\ faults' >= faults
  BY <1>1 DEF HandsOver, Fault
<1>6. Grows
  BY <1>1, <1>2, <1>3, <1>4, <1>5, Facts DEF Grows, HandsOver
<1>7. Placed(m, user', walletRow', wallets', Linked', legacy')
  <2>1. UNCHANGED <<user, walletRow, legacy>> /\ (m.existing # None => user # None)
    BY DEF HandsOver, MovesOn
  <2>2. CASE m.pc = "idle" /\ m.api = "auth"
    BY <1>1, <2>1, <2>2 DEF Placed, ToWallet, ToUser
  <2>3. CASE /\ m.pc \in ToUser
             /\ m.wallet = request[r].wallet /\ m.api = request[r].api
    <3>1. request[r].pc \in ToUser
      BY DEF HandsOver, MovesOn
    <3> QED BY <1>1, <1>2, <1>3, <1>4, <2>1, <2>3, <3>1 DEF Placed, ToWallet, ToUser
  <2> QED BY <2>2, <2>3 DEF HandsOver, MovesOn
<1>8. AType' /\ RequestsPlaced'
  BY <1>3, <1>6, <1>7, OthersStay DEF HandsOver, MovesOn
<1>9. RowIsLinked'
  BY <1>4 DEF AInv, RowIsLinked, HandsOver
<1>10. Provisioning'
  <2> SUFFICES ASSUME Linked', faults' = 0, ~legacy' PROVE UnderWay'
    BY DEF Provisioning
  <2>1. Linked /\ ~legacy /\ walletRow' = walletRow /\ request'[r] = m
    BY <1>1, <1>4 DEF HandsOver, MovesOn
  <2>2. wallets'[walletRow'] = row /\ walletRow' # None
    BY <1>2, <1>3, <2>1
  <2>3. CASE HandedOver(row) \/ m.pc = "delegate" \/ (~Sent(row) /\ m.pc \in ToUser)
    BY <2>1, <2>2, <2>3 DEF UnderWay
  <2>4. CASE /\ Sent(wallets[walletRow]) /\ row.owner = wallets[walletRow].owner
             /\ request[r].pc # "delegate"
    <3>1. UnderWay
      BY <1>1, <1>5, <2>1 DEF AInv, Provisioning
    <3>2. \A q \in Requests \ {r} : request'[q] = request[q]
      BY <1>1 DEF HandsOver, MovesOn
    <3>3. HandedOver(wallets[walletRow]) \/ \E q \in Requests : request[q].pc = "delegate"
      BY <1>2, <2>4, <3>1 DEF UnderWay
    <3> QED BY <2>2, <2>4, <3>2, <3>3 DEF UnderWay, HandedOver
  <2> QED BY <2>1, <2>3, <2>4
<1>11. TrustSentBeforeDelegated'
  <2> SUFFICES ASSUME NEW w \in DOMAIN wallets, wallets'[w].owner # Service, ~legacy
               PROVE  Sent(wallets'[w])
    BY <1>3 DEF TrustSentBeforeDelegated, HandsOver, Sent
  <2> QED BY <1>1, <1>3 DEF AInv, TrustSentBeforeDelegated, Sent
<1>12. OrphansNeverDelegated'
  <2> SUFFICES ASSUME NEW w \in DOMAIN wallets, wallets'[w].owner # Service
               PROVE  w = walletRow
    BY <1>3 DEF OrphansNeverDelegated, HandsOver
  <2> QED BY <1>1, <1>3 DEF AInv, OrphansNeverDelegated
<1>13. SentForRow'
  <2> SUFFICES ASSUME NEW w \in DOMAIN wallets, Sent(wallets'[w])
               PROVE  w = walletRow
    BY <1>3 DEF SentForRow, HandsOver
  <2> QED BY <1>1, <1>3 DEF AInv, SentForRow
<1> QED BY <1>8, <1>9, <1>10, <1>11, <1>12, <1>13 DEF AInv

\* What is known of a request that hands its wallet over.
LEMMA HandingFacts ==
    ASSUME AInv, NEW r \in Requests, request[r].pc \in ToUser
    PROVE  /\ walletRow # None /\ walletRow \in DOMAIN wallets
           /\ request[r].wallet = walletRow /\ wallets[walletRow] \in Wallet
           /\ wallets = [wallets EXCEPT ![walletRow] = wallets[walletRow]]
           /\ request[r].existing # None => user # None
           /\ ~legacy => request[r].api = "auth"
           /\ request[r].api = "auth" => Linked
           /\ request[r].api = "auth" /\ request[r].pc = "delegate"
                => Sent(wallets[walletRow])
           /\ wallets[walletRow].owner # Service /\ ~legacy => Sent(wallets[walletRow])
<1>1. /\ Placed(request[r], user, walletRow, wallets, Linked, legacy)
      /\ walletRow \in 1..Len(wallets) \union {None} /\ Len(wallets) \in Nat
      /\ wallets \in Seq(Wallet) /\ DOMAIN wallets = 1..Len(wallets)
  BY RequestFacts, Facts
<1>2. walletRow # None /\ walletRow \in DOMAIN wallets /\ request[r].wallet = walletRow
  BY <1>1 DEF Placed
<1>3. wallets[walletRow] \in Wallet
  BY <1>1, <1>2, ElementOfSeq
<1>4. wallets = [wallets EXCEPT ![walletRow] = wallets[walletRow]]
  BY <1>1, <1>2
<1>5. wallets[walletRow].owner # Service /\ ~legacy => Sent(wallets[walletRow])
  BY <1>2 DEF AInv, TrustSentBeforeDelegated, Sent
<1> QED BY <1>1, <1>2, <1>3, <1>4, <1>5 DEF Placed, ToUser

\* A request that goes on with its wallet, and one that is over.
LEMMA GoesOn ==
    ASSUME AInv, NEW r \in Requests, request[r].pc \in ToUser,
           NEW pc \in ToUser, Goto(r, pc)
    PROVE  \E m \in RequestRecord(Len(wallets)) : MovesOn(r, m) /\ m.pc = pc
<1>1. pc \in Steps
  BY DEF ToUser, Steps
<1>2. PICK m \in RequestRecord(Len(wallets)) :
        /\ request' = [request EXCEPT ![r] = m] /\ m.pc = pc
        /\ m.api = request[r].api /\ m.existing = request[r].existing
        /\ m.wallet = request[r].wallet
  BY <1>1, GotoRecord
<1> QED BY <1>2, HandingFacts DEF MovesOn

\* A request that hands out a wallet and finishes is idle, and waits for nothing.
LEMMA StopsThere ==
    ASSUME AInv, NEW r \in Requests, request[r].pc \in ToUser, Finish(r)
    PROVE  \E m \in RequestRecord(Len(wallets)) : MovesOn(r, m) /\ m.pc = "idle"
<1>1. /\ Idle \in RequestRecord(Len(wallets)) /\ Idle.pc = "idle" /\ Idle.api = "auth"
      /\ Idle.existing = None
  BY Facts, IdleRecord
<1> QED BY <1>1 DEF MovesOn, Finish

\* Friendbot funds the wallet, or its failure is swallowed.
LEMMA FundKeeps ==
    ASSUME AInv, NEW r \in Requests, Fund(r)
    PROVE  AInv'
<1> DEFINE w == wallets[walletRow]
<1>1. /\ request[r].pc = "fund"
      /\ UNCHANGED <<user, walletRow, endUsers, legacy>>
      /\ UNCHANGED faults \/ Fault
  BY DEF Fund, At, dbVars
<1>2. request[r].pc \in ToUser /\ "trust" \in ToUser
  BY <1>1 DEF ToUser
<1>3. PICK row \in Wallet : /\ wallets' = [wallets EXCEPT ![walletRow] = row]
                            /\ row.trust = w.trust /\ row.owner = w.owner
  <2>1. CASE wallets' = [wallets EXCEPT ![request[r].wallet].funded = TRUE]
    <3>1. wallets' = [wallets EXCEPT ![walletRow] = [w EXCEPT !.funded = TRUE]]
      BY <1>2, <2>1, HandingFacts
    <3>2. w \in Wallet
      BY <1>2, HandingFacts
    <3> HIDE DEF w
    <3>3. /\ [w EXCEPT !.funded = TRUE] \in Wallet
          /\ [w EXCEPT !.funded = TRUE].trust = w.trust
          /\ [w EXCEPT !.funded = TRUE].owner = w.owner
      BY <3>2 DEF Wallet
    <3> QED BY <3>1, <3>3
  <2>2. CASE UNCHANGED wallets
    BY <1>2, <2>2, HandingFacts
  <2> QED BY <2>1, <2>2 DEF Fund
<1>4. PICK m \in RequestRecord(Len(wallets)) :
        MovesOn(r, m) /\ (m.pc = "trust" \/ (request[r].api # "auth" /\ m.pc = "idle"))
  <2>1. CASE request[r].api = "auth"
    BY <1>2, <2>1, GoesOn DEF Fund
  <2>2. CASE request[r].api # "auth"
    BY <1>2, <2>2, StopsThere DEF Fund
  <2> QED BY <2>1, <2>2
<1>5. HandsOver(r, m, row)
  BY <1>1, <1>3, <1>4 DEF HandsOver
<1>6. w.owner # Service /\ ~legacy => Sent(w)
  BY <1>2, HandingFacts
<1>7. ~legacy => m.pc \in ToUser
  BY <1>2, <1>4, HandingFacts
<1>8. Sent(row) <=> Sent(w)
  BY <1>3 DEF Sent
<1>9. m.pc # "delegate" /\ request[r].pc # "delegate"
  BY <1>1, <1>4
<1> HIDE DEF w
<1>10. ~legacy => \/ ~Sent(row) /\ m.pc \in ToUser
                  \/ Sent(w) /\ row.owner = w.owner
  BY <1>3, <1>7, <1>8
<1> USE DEF w
<1> QED BY <1>3, <1>5, <1>6, <1>8, <1>9, <1>10, HandsOverKeeps

\* The trustline is sent while the service account owns the wallet.
LEMMA addUsdcTrustlineKeeps ==
    ASSUME AInv, NEW r \in Requests, addUsdcTrustline(r)
    PROVE  AInv'
<1> DEFINE w == wallets[walletRow]
<1>1. /\ request[r].pc = "trust"
      /\ UNCHANGED <<user, walletRow, endUsers, legacy, faults>>
  BY DEF addUsdcTrustline, At, dbVars, boundVars
<1>2. request[r].pc \in ToUser /\ "delegate" \in ToUser
  BY <1>1 DEF ToUser
<1>3. w \in Wallet /\ (w.owner # Service /\ ~legacy => Sent(w))
  BY <1>2, HandingFacts
<1>4. PICK trust \in Trust, go \in BOOLEAN :
        /\ wallets' = [wallets EXCEPT ![walletRow].funded = TRUE, ![walletRow].trust = trust]
        /\ IF go THEN Goto(r, "delegate") ELSE Finish(r)
        /\ go => trust # "no"
        /\ ~go => trust = w.trust /\ (w.owner # Service \/ w.trust = "sent")
        /\ Sent(w) => trust # "no"
  <2> DEFINE Closes(trust, go) ==
        /\ wallets' = [wallets EXCEPT ![walletRow].funded = TRUE, ![walletRow].trust = trust]
        /\ IF go THEN Goto(r, "delegate") ELSE Finish(r)
  <2>1. \/ w.trust = "yes" /\ Closes("yes", TRUE)
        \/ Closes("sent", TRUE)
        \/ (w.owner # Service \/ w.trust = "sent") /\ Closes(w.trust, FALSE)
    BY <1>2, HandingFacts DEF addUsdcTrustline
  <2>2. {"yes", "sent"} \subseteq Trust /\ w.trust \in Trust
    BY <1>3 DEF Wallet, Trust
  <2> HIDE DEF w
  <2>3. CASE w.trust = "yes" /\ Closes("yes", TRUE)
    <3>1. Closes("yes", TRUE) /\ "yes" \in Trust /\ TRUE \in BOOLEAN
      BY <2>2, <2>3
    <3> QED BY <3>1
  <2>4. CASE Closes("sent", TRUE)
    <3>1. Closes("sent", TRUE) /\ "sent" \in Trust /\ TRUE \in BOOLEAN
      BY <2>2, <2>4
    <3> QED BY <3>1
  <2>5. CASE (w.owner # Service \/ w.trust = "sent") /\ Closes(w.trust, FALSE)
    <3>1. Closes(w.trust, FALSE) /\ w.trust \in Trust /\ FALSE \in BOOLEAN
      BY <2>2, <2>5
    <3> QED BY <2>5, <3>1 DEF Sent
  <2> QED BY <2>1, <2>3, <2>4, <2>5
<1>5. PICK row \in Wallet : /\ wallets' = [wallets EXCEPT ![walletRow] = row]
                            /\ row.trust = trust /\ row.owner = w.owner
  <2> DEFINE row == [w EXCEPT !.funded = TRUE, !.trust = trust]
  <2>1. wallets' = [wallets EXCEPT ![walletRow] = row]
    BY <1>2, <1>4, HandingFacts
  <2>2. row \in Wallet /\ row.trust = trust /\ row.owner = w.owner
    <3>1. row = [w EXCEPT !.funded = TRUE, !.trust = trust]
      OBVIOUS
    <3> HIDE DEF w, row
    <3> QED BY <1>3, <3>1 DEF Wallet
  <2> HIDE DEF row
  <2> QED BY <2>1, <2>2
<1>6. PICK m \in RequestRecord(Len(wallets)) :
        MovesOn(r, m) /\ (IF go THEN m.pc = "delegate" ELSE m.pc = "idle")
  <2>1. CASE go
    BY <1>2, <1>4, <2>1, GoesOn
  <2>2. CASE ~go
    BY <1>2, <1>4, <2>2, StopsThere
  <2> QED BY <2>1, <2>2
<1>7. HandsOver(r, m, row)
  BY <1>1, <1>5, <1>6 DEF HandsOver
<1> HIDE DEF w
<1>8. (Sent(w) => Sent(row)) /\ (m.pc = "delegate" => Sent(row))
  BY <1>4, <1>5, <1>6 DEF Sent
<1>9. row.owner # Service /\ ~legacy => Sent(row)
  BY <1>3, <1>5, <1>8
<1>10. ~legacy => HandedOver(row) \/ m.pc = "delegate" \/ (Sent(w) /\ row.owner = w.owner)
  BY <1>3, <1>4, <1>5, <1>6 DEF Sent, HandedOver
<1> USE DEF w
<1>11. request[r].pc # "delegate"
  BY <1>1
<1> QED BY <1>7, <1>8, <1>9, <1>10, <1>11, HandsOverKeeps

\* The wallet becomes the user's, if it still is the service account's.
LEMMA delegateWalletKeeps ==
    ASSUME AInv, NEW r \in Requests, delegateWallet(r)
    PROVE  AInv'
<1> DEFINE w == wallets[walletRow]
<1>1. /\ request[r].pc = "delegate" /\ Finish(r)
      /\ UNCHANGED <<user, walletRow, endUsers, legacy, faults>>
  BY DEF delegateWallet, At, dbVars, boundVars
<1>2. request[r].pc \in ToUser
  BY <1>1 DEF ToUser
<1>3. /\ w \in Wallet /\ (w.owner # Service /\ ~legacy => Sent(w))
      /\ ~legacy => Sent(w) /\ Linked
  BY <1>1, <1>2, HandingFacts
<1>4. PICK m \in RequestRecord(Len(wallets)) : MovesOn(r, m) /\ m.pc = "idle"
  BY <1>1, <1>2, StopsThere
<1>5. CASE Linked /\ w.owner = Service
  <2> DEFINE owner == user.dfnsUserId
             row == [w EXCEPT !.owner = owner]
  <2>1. owner \in EndUser /\ owner # Service
    <3>1. owner \in EndUser
      BY <1>5, Facts DEF Linked, UserRow
    <3> QED BY <3>1, ServiceIsNoUser, AccountBounds DEF EndUser
  <2>2. wallets' = [wallets EXCEPT ![walletRow] = row]
    BY <1>2, <1>5, HandingFacts DEF delegateWallet
  <2>3. row \in Wallet /\ row.trust = w.trust /\ row.owner = owner
    <3>1. row = [w EXCEPT !.owner = owner]
      OBVIOUS
    <3> HIDE DEF w, row, owner
    <3> QED BY <1>3, <2>1, <3>1 DEF Wallet
  <2> HIDE DEF row, owner
  <2>4. HandsOver(r, m, row)
    BY <1>1, <1>4, <2>2 DEF HandsOver
  <2>5. (Sent(w) => Sent(row)) /\ (~legacy => HandedOver(row) /\ Sent(row))
    BY <1>3, <2>1, <2>3 DEF Sent, HandedOver
  <2>6. row.owner # Service /\ ~legacy => Sent(row)
    BY <2>5
  <2> QED BY <1>4, <2>3, <2>4, <2>5, <2>6, HandsOverKeeps
<1>6. CASE ~(Linked /\ w.owner = Service)
  <2>1. wallets' = [wallets EXCEPT ![walletRow] = w]
    BY <1>2, <1>6, HandingFacts DEF delegateWallet
  <2>2. HandsOver(r, m, w)
    BY <1>1, <1>4, <2>1 DEF HandsOver
  <2>3. ~legacy => HandedOver(w)
    BY <1>3, <1>6 DEF HandedOver
  <2> QED BY <1>3, <1>4, <2>2, <2>3, HandsOverKeeps
<1> QED BY <1>5, <1>6

\* The ledger takes or drops a trustline: the requests and the owners stay.
LEMMA LedgerKeeps ==
    ASSUME AInv, NEW w \in DOMAIN wallets, Included(w) \/ Dropped(w)
    PROVE  AInv'
<1>1. /\ Len(wallets) \in Nat /\ DOMAIN wallets = 1..Len(wallets)
      /\ wallets \in Seq(Wallet) /\ faults \in Nat
      /\ request \in [Requests -> RequestRecord(Len(wallets))]
  BY Facts
<1>2. /\ UNCHANGED <<user, walletRow, endUsers, legacy, request>>
      /\ UNCHANGED faults \/ Fault
      /\ wallets[w].trust = "sent"
  BY DEF Included, Dropped, dbVars, boundVars
<1>3. PICK row \in Wallet : /\ wallets' = [wallets EXCEPT ![w] = row]
                            /\ Sent(row) /\ row.owner = wallets[w].owner
  <2> DEFINE o == wallets[w]
  <2>1. PICK trust \in {"yes", "lost"} : wallets' = [wallets EXCEPT ![w].trust = trust]
    BY DEF Included, Dropped
  <2>2. o \in Wallet
    BY <1>1, ElementOfSeq
  <2>3. wallets' = [wallets EXCEPT ![w] = [o EXCEPT !.trust = trust]]
    BY <2>1
  <2> HIDE DEF o
  <2>4. /\ [o EXCEPT !.trust = trust] \in Wallet
        /\ [o EXCEPT !.trust = trust].owner = o.owner
        /\ [o EXCEPT !.trust = trust].trust = trust
    BY <2>1, <2>2 DEF Wallet, Trust
  <2>5. Sent([o EXCEPT !.trust = trust])
    BY <2>1, <2>4 DEF Sent
  <2> USE DEF o
  <2> QED BY <2>3, <2>4, <2>5
<1>4. wallets' \in Seq(Wallet) /\ Len(wallets') = Len(wallets) /\ DOMAIN wallets' = DOMAIN wallets
  <2>1. wallets' \in Seq(Wallet) /\ Len(wallets') = Len(wallets)
    BY <1>1, <1>3, ExceptSeq
  <2> QED BY <1>1, <1>3
<1>5. \A x \in DOMAIN wallets : /\ Sent(wallets[x]) => Sent(wallets'[x])
                                /\ wallets'[x].owner = wallets[x].owner
  BY <1>1, <1>3
<1>6. Sent(wallets[w])
  BY DEF Included, Dropped, Sent
<1>7. \A x \in DOMAIN wallets : Sent(wallets'[x]) => Sent(wallets[x])
  BY <1>1, <1>3, <1>6
<1>8. faults' \in Nat /\ faults' >= faults
  BY <1>1, <1>2 DEF Fault
<1>9. AType'
  BY <1>2, <1>4, <1>8 DEF AInv, AType
<1>10. RequestsPlaced' /\ RowIsLinked'
  <2> SUFFICES ASSUME NEW q \in Requests
               PROVE  Placed(request[q], user, walletRow, wallets', Linked, legacy)
    BY <1>2 DEF AInv, RequestsPlaced, RowIsLinked, Linked, Placed
  <2>1. Placed(request[q], user, walletRow, wallets, Linked, legacy)
        /\ request[q].wallet \in 1..Len(wallets) \union {None} /\ walletRow \in 1..Len(wallets) \union {None}
    BY RequestFacts, Facts
  <2> QED BY <1>1, <1>5, <2>1 DEF Placed, ToUser
<1>11. Provisioning'
  <2> SUFFICES ASSUME Linked', faults' = 0, ~legacy' PROVE UnderWay'
    BY DEF Provisioning
  <2>1. UnderWay /\ (walletRow # None => walletRow \in DOMAIN wallets)
    BY <1>1, <1>2, <1>8, Facts DEF AInv, Provisioning, Linked
  <2> QED BY <1>2, <1>5, <1>7, <2>1 DEF UnderWay, HandedOver
<1>12. TrustSentBeforeDelegated' /\ OrphansNeverDelegated' /\ SentForRow'
  BY <1>2, <1>4, <1>5, <1>7
  DEF AInv, TrustSentBeforeDelegated, OrphansNeverDelegated, SentForRow, Sent
<1> QED BY <1>9, <1>10, <1>11, <1>12 DEF AInv
-----------------------------------------------------------------------------
\* The initial state.
LEMMA InitAInv == Init => AInv
<1> SUFFICES ASSUME Init PROVE AInv
  OBVIOUS
<1> USE DEF Init
<1>1. AType
  <2>1. 0 \in 0..MaxEndUsers
    BY AccountBounds
  <2>2. Len(wallets) = 0 /\ wallets \in Seq(Wallet) /\ DOMAIN wallets = {}
    BY EmptySeq
  <2>3. Idle \in RequestRecord(Len(wallets))
    BY <2>2, IdleRecord
  <2> QED BY <2>1, <2>2, <2>3 DEF AType
<1>2. RequestsPlaced
  <2>1. Idle.pc = "idle" /\ Idle.api = "auth" /\ Idle.existing = None
    BY IdleRecord
  <2> QED BY <2>1 DEF RequestsPlaced, Placed, ToWallet, ToUser
<1>3. DOMAIN wallets = {}
  BY EmptySeq
<1> QED BY <1>1, <1>2, <1>3 DEF AInv, RowIsLinked, Provisioning, Linked,
          TrustSentBeforeDelegated, OrphansNeverDelegated, SentForRow

\* Every step keeps the invariant.
LEMMA NextAInv == AInv /\ [Next]_vars => AInv'
<1> SUFFICES ASSUME AInv, [Next]_vars PROVE AInv'
  OBVIOUS
<1>1. {"auth", "users"} \subseteq Apis
  BY DEF Apis
<1>2. ASSUME NEW r \in Requests, AuthController(r) \/ UsersController(r) PROVE AInv'
  BY <1>1, <1>2, StartsKeep, registerCompleteKeeps DEF AuthController, UsersController
<1>3. ASSUME NEW r \in Requests, WalletsController(r) PROVE AInv'
  BY <1>3, StartsKeep
<1>4. ASSUME NEW r \in Requests, Advance(r) PROVE AInv'
  BY <1>4, listUsersKeeps, EnsureUserKeeps, EnsureUsernameKeeps, ChallengeKeeps, LinkKeeps,
     provisionWalletKeeps, createWalletKeeps, PersistWalletKeeps, FundKeeps,
     addUsdcTrustlineKeeps, delegateWalletKeeps DEF Advance
<1>5. ASSUME NEW r \in Requests, Fail(r) PROVE AInv'
  BY <1>5, FailKeeps
<1>6. ASSUME NEW w \in DOMAIN wallets, Included(w) \/ Dropped(w) PROVE AInv'
  BY <1>6, LedgerKeeps
<1>7. CASE UNCHANGED vars
  <2> USE <1>7 DEF vars, AInv
  <2>1. AType' /\ RequestsPlaced' /\ RowIsLinked'
    BY DEF AType, RequestsPlaced, Placed, RowIsLinked, Linked
  <2>2. Provisioning'
    BY DEF Provisioning, UnderWay, Linked, HandedOver
  <2>3. TrustSentBeforeDelegated' /\ OrphansNeverDelegated' /\ SentForRow'
    BY DEF TrustSentBeforeDelegated, OrphansNeverDelegated, SentForRow
  <2> QED BY <2>1, <2>2, <2>3
<1> QED BY <1>2, <1>3, <1>4, <1>5, <1>6, <1>7 DEF Next, Ledger
-----------------------------------------------------------------------------
(* Whose the wallet is, and what became of its trustline. *)

\* The row, the requests and the owners name EndUsers DFNS has, and without a
\* fault the ledger drops no trustline.
Known(id) == id \in 1..endUsers
KnownNext(id) == id \in 1..endUsers'
UserKnown == user # None => user.dfnsUserId = None \/ Known(user.dfnsUserId)
FoundKnown == \A r \in Requests : request[r].found = None \/ Known(request[r].found)
OwnersKnown == \A w \in DOMAIN wallets : wallets[w].owner = Service \/ Known(wallets[w].owner)
NoneLost == faults = 0 => \A w \in DOMAIN wallets : wallets[w].trust # "lost"
BInv == UserKnown /\ FoundKnown /\ OwnersKnown /\ NoneLost

\* DFNS forgets no EndUser, and faults are not taken back.
LEMMA CountsGrow ==
    ASSUME AInv, [Next]_vars
    PROVE  /\ \A id : Known(id) => KnownNext(id)
           /\ faults' = 0 => faults = 0
<1>1. endUsers \in Nat /\ faults \in Nat
  BY Facts, AccountBounds
<1>2. /\ endUsers' = endUsers \/ endUsers' = endUsers + 1
      /\ faults' = faults \/ faults' = faults + 1
  BY DEF Next, AuthController, UsersController, WalletsController, Advance, Fail, Ledger,
     registerInit, registerComplete, usersRegisterInit, PostWallet, PostDelegate, listUsers,
     EnsureUser, EnsureUsername, Challenge, Link, provisionWallet, createWallet, PersistWallet,
     Fund, addUsdcTrustline, delegateWallet, Included, Dropped, Fault,
     dfnsVars, boundVars, dbVars, vars
<1> QED BY <1>1, <1>2 DEF Known, KnownNext

\* Only three steps write the row.
LEMMA UserKept ==
    ASSUME AInv, UserKnown, FoundKnown, [Next]_vars
    PROVE  UserKnown'
<1>1. user \in UserRow \union {None} /\ \A id : Known(id) => KnownNext(id)
  BY Facts, CountsGrow
<1>2. CASE UNCHANGED user
  BY <1>1, <1>2 DEF Known, KnownNext, UserKnown
<1>3. ASSUME NEW role \in UserRoles,
             createWithProfile(role) \/ (user # None /\ update("role", role))
      PROVE  UserKnown'
  <2>1. CASE createWithProfile(role)
    BY <2>1 DEF createWithProfile, UserKnown
  <2>2. CASE user # None /\ update("role", role)
    <3>1. user' = [user EXCEPT !["role"] = role] /\ user \in UserRow
      BY <1>1, <2>2 DEF update
    <3>2. user'.dfnsUserId = user.dfnsUserId
      BY <3>1 DEF UserRow
    <3> QED BY <1>1, <2>2, <3>2 DEF Known, KnownNext, UserKnown
  <2> QED BY <1>3, <2>1, <2>2
<1>4. ASSUME NEW r \in Requests, Link(r) PROVE UserKnown'
  <2>1. CASE user = None
    BY <1>2, <1>4, <2>1 DEF Link
  <2>2. CASE user # None
    <3>1. user' = [user EXCEPT !["dfnsUserId"] = request[r].found] /\ user \in UserRow
      BY <1>1, <1>4, <2>2 DEF Link, update
    <3>2. user'.dfnsUserId = request[r].found
      BY <3>1 DEF UserRow
    <3> QED BY <1>1, <3>2 DEF Known, KnownNext, UserKnown, FoundKnown
  <2> QED BY <2>1, <2>2
<1>5. ASSUME NEW r \in Requests, EnsureUser(r) \/ EnsureUsername(r) PROVE UserKnown'
  <2>1. request[r].role \in UserRoles /\ DefaultRole \in UserRoles
    BY RequestFacts, RolesKnown
  <2>2. request[r].existing # None => user # None
    BY RequestFacts DEF Placed
  <2> QED BY <1>2, <1>3, <1>5, <2>1, <2>2 DEF EnsureUser, EnsureUsername, create
<1> QED BY <1>2, <1>4, <1>5
    DEF Next, AuthController, UsersController, WalletsController, Advance, Fail, Ledger,
        registerInit, registerComplete, usersRegisterInit, PostWallet, PostDelegate,
        listUsers, Challenge, provisionWallet, createWallet, PersistWallet, Fund,
        addUsdcTrustline, delegateWallet, Included, Dropped, dbVars, vars

\* A request that goes on, learns of its wallet or ends has found no other EndUser.
LEMMA FoundStays ==
    ASSUME AInv, NEW r \in Requests,
           \/ Finish(r)
           \/ \E pc : Goto(r, pc)
           \/ \E w, to : TakesWallet(r, w, to)
    PROVE  \A q \in Requests : request'[q].found = request[q].found \/ request'[q].found = None
<1>1. request \in [Requests -> RequestRecord(Len(wallets))] /\ request[r] \in RequestRecord(Len(wallets))
  BY Facts
<1>2. Idle.found = None
  BY Facts, IdleRecord
<1>3. CASE Finish(r)
  BY <1>1, <1>2, <1>3 DEF Finish
<1>4. ASSUME NEW pc, Goto(r, pc) PROVE request'[r].found = request[r].found
                                       /\ \A q \in Requests \ {r} : request'[q] = request[q]
  BY <1>1, <1>4 DEF Goto, RequestRecord
<1>5. ASSUME NEW w, NEW pc, TakesWallet(r, w, pc)
      PROVE  /\ request'[r].found = request[r].found
             /\ \A q \in Requests \ {r} : request'[q] = request[q]
  BY <1>1, <1>5 DEF TakesWallet, RequestRecord
<1> QED BY <1>3, <1>4, <1>5

\* What a request has found, DFNS has.
LEMMA FoundKept ==
    ASSUME AInv, FoundKnown, [Next]_vars
    PROVE  FoundKnown'
<1>1. /\ request \in [Requests -> RequestRecord(Len(wallets))] /\ endUsers \in Nat
      /\ \A id : Known(id) => KnownNext(id)
  BY Facts, CountsGrow, AccountBounds
<1>2. ASSUME NEW r \in Requests, \E pc : Goto(r, pc) \/ Finish(r) \/ \E w : TakesWallet(r, w, pc)
      PROVE  FoundKnown'
  BY <1>1, <1>2, FoundStays DEF Known, KnownNext, FoundKnown
<1>3. ASSUME NEW r \in Requests, NEW m, request' = [request EXCEPT ![r] = m],
             m.found = None \/ KnownNext(m.found)
      PROVE  FoundKnown'
  BY <1>1, <1>3 DEF Known, KnownNext, FoundKnown
<1>4. ASSUME NEW r \in Requests, NEW api, NEW pc, NEW role, Start(r, api, pc, role)
      PROVE  FoundKnown'
  <2> DEFINE m == [Idle EXCEPT !.pc = pc, !.api = api, !.role = role,
                               !.existing = getByEmail, !.wallet = walletRow]
  <2>1. m.found = None
    BY DEF Idle
  <2> QED BY <1>3, <1>4, <2>1 DEF Start
<1>5. ASSUME NEW r \in Requests, NEW api, registerComplete(r, api) PROVE FoundKnown'
  <2> DEFINE m == [Idle EXCEPT !.pc = "link", !.api = api, !.found = endUsers + 1]
  <2>1. m.found = endUsers + 1
    BY DEF Idle
  <2>2. endUsers' = endUsers + 1 /\ request' = [request EXCEPT ![r] = m]
    BY <1>5 DEF registerComplete
  <2>3. KnownNext(m.found)
    BY <1>1, <2>1, <2>2 DEF KnownNext
  <2> HIDE DEF m
  <2> QED BY <1>3, <2>2, <2>3
<1>6. ASSUME NEW r \in Requests, listUsers(r) PROVE FoundKnown'
  <2>1. PICK found \in (IF endUsers = 0 THEN {None} ELSE 1..endUsers) \union {None} :
          request' = [request EXCEPT ![r].found = found,
              ![r].pc = IF request[r].api = "auth" \/ found # None THEN "row" ELSE "challenge"]
    BY <1>6 DEF listUsers
  <2>2. found = None \/ Known(found)
    BY DEF Known
  <2>3. /\ request'[r].found = found
        /\ \A q \in Requests \ {r} : request'[q] = request[q]
    BY <1>1, <2>1 DEF RequestRecord
  <2> QED BY <1>1, <2>2, <2>3 DEF Known, KnownNext, FoundKnown
<1>7. ASSUME NEW r \in Requests, Advance(r) PROVE FoundKnown'
  <2>1. ASSUME createWallet(r) \/ PersistWallet(r) PROVE FoundKnown'
    <3>1. ASSUME NEW w, AfterWallet(r, w) PROVE FoundKnown'
      BY <1>1, <1>2, <3>1 DEF AfterWallet, TakesWallet
    <3> QED BY <1>2, <2>1, <3>1 DEF createWallet, PersistWallet, TakesWallet
  <2>2. ASSUME \/ EnsureUser(r) \/ EnsureUsername(r) \/ Challenge(r) \/ Link(r)
               \/ provisionWallet(r) \/ Fund(r) \/ addUsdcTrustline(r) \/ delegateWallet(r)
        PROVE  FoundKnown'
    BY <1>2, <2>2 DEF EnsureUser, EnsureUsername, Challenge, Link, provisionWallet, Fund,
       addUsdcTrustline, delegateWallet
  <2> QED BY <1>6, <1>7, <2>1, <2>2 DEF Advance
<1>8. CASE UNCHANGED request
  BY <1>1, <1>8 DEF Known, KnownNext, FoundKnown
<1> QED BY <1>2, <1>4, <1>5, <1>7, <1>8
    DEF Next, AuthController, UsersController, WalletsController, Fail, Ledger, registerInit,
        usersRegisterInit, PostWallet, PostDelegate, Included, Dropped, vars

\* One wallet's record changes, or one is added.
LEMMA OneWallet ==
    ASSUME AInv, OwnersKnown, NoneLost, [Next]_vars, NEW w \in DOMAIN wallets, NEW row,
           wallets' = [wallets EXCEPT ![w] = row],
           row.owner = wallets[w].owner \/ KnownNext(row.owner),
           row.trust = wallets[w].trust \/ row.trust # "lost" \/ faults' # 0
    PROVE  OwnersKnown' /\ NoneLost'
<1>1. wallets \in Seq(Wallet) /\ DOMAIN wallets' = DOMAIN wallets
  BY Facts
<1>2. /\ wallets'[w] = row
      /\ \A x \in DOMAIN wallets \ {w} : wallets'[x] = wallets[x]
  OBVIOUS
<1>3. OwnersKnown'
  BY <1>1, <1>2, CountsGrow DEF Known, KnownNext, OwnersKnown
<1>4. NoneLost'
  BY <1>1, <1>2, CountsGrow DEF NoneLost
<1> QED BY <1>3, <1>4

\* A wallet goes to an EndUser DFNS has, and only a fault drops its trustline.
LEMMA WalletsKept ==
    ASSUME AInv, UserKnown, OwnersKnown, NoneLost, [Next]_vars
    PROVE  OwnersKnown' /\ NoneLost'
<1>1. /\ wallets \in Seq(Wallet) /\ DOMAIN wallets = 1..Len(wallets) /\ Len(wallets) \in Nat
      /\ faults \in Nat
  BY Facts
<1>2. CASE UNCHANGED wallets
  BY <1>2, CountsGrow DEF Known, KnownNext, OwnersKnown, NoneLost
<1>3. ASSUME NEW r \in Requests, createWallet(r) PROVE OwnersKnown' /\ NoneLost'
  <2> DEFINE new == [funded |-> FALSE, trust |-> "no", owner |-> Service]
  <2>1. CASE wallets' = Append(wallets, new)
    <3>1. new \in Wallet /\ new.owner = Service /\ new.trust = "no"
      BY DEF Wallet, Trust
    <3> HIDE DEF new
    <3>2. /\ DOMAIN wallets' = 1..(Len(wallets) + 1) /\ wallets'[Len(wallets) + 1] = new
          /\ \A x \in 1..Len(wallets) : wallets'[x] = wallets[x]
      <4>1. /\ wallets' \in Seq(Wallet) /\ Len(wallets') = Len(wallets) + 1
            /\ wallets'[Len(wallets) + 1] = new
            /\ \A x \in 1..Len(wallets) : wallets'[x] = wallets[x]
        BY <1>1, <2>1, <3>1, AppendProperties
      <4> QED BY <4>1, LenProperties
    <3>3. \A x \in DOMAIN wallets' : x \in DOMAIN wallets \/ wallets'[x] = new
      BY <1>1, <3>2
    <3> QED BY <1>1, <3>1, <3>2, <3>3, CountsGrow DEF Known, KnownNext, OwnersKnown, NoneLost
  <2> QED BY <1>2, <1>3, <2>1 DEF createWallet
<1>4. ASSUME NEW r \in Requests, request[r].pc \in ToUser
      PROVE  /\ request[r].wallet \in DOMAIN wallets
             /\ wallets[request[r].wallet] \in Wallet
  BY <1>4, HandingFacts
<1>5. ASSUME NEW r \in Requests, Fund(r) PROVE OwnersKnown' /\ NoneLost'
  <2> DEFINE w == request[r].wallet
             o == wallets[w]
             row == [o EXCEPT !.funded = TRUE]
  <2>1. w \in DOMAIN wallets /\ o \in Wallet
    BY <1>4, <1>5 DEF Fund, At, ToUser
  <2>2. CASE wallets' = [wallets EXCEPT ![w].funded = TRUE]
    <3>1. wallets' = [wallets EXCEPT ![w] = row]
      BY <2>2
    <3>2. row.owner = o.owner /\ row.trust = o.trust
      BY <2>1 DEF Wallet
    <3> HIDE DEF row
    <3> QED BY <2>1, <3>1, <3>2, OneWallet
  <2> QED BY <1>2, <1>5, <2>2 DEF Fund
<1>6. ASSUME NEW r \in Requests, addUsdcTrustline(r) PROVE OwnersKnown' /\ NoneLost'
  <2> DEFINE w == request[r].wallet
             o == wallets[w]
  <2>1. w \in DOMAIN wallets /\ o \in Wallet
    BY <1>4, <1>6 DEF addUsdcTrustline, At, ToUser
  <2>2. PICK trust \in {"yes", "sent", o.trust} :
          wallets' = [wallets EXCEPT ![w].funded = TRUE, ![w].trust = trust]
    BY <1>6 DEF addUsdcTrustline
  <2> DEFINE row == [o EXCEPT !.funded = TRUE, !.trust = trust]
  <2>3. wallets' = [wallets EXCEPT ![w] = row]
    BY <2>1, <2>2
  <2>4. row.owner = o.owner /\ row.trust = trust
    BY <2>1 DEF Wallet
  <2> HIDE DEF row
  <2> QED BY <2>1, <2>2, <2>3, <2>4, OneWallet
<1>7. ASSUME NEW r \in Requests, delegateWallet(r) PROVE OwnersKnown' /\ NoneLost'
  <2> DEFINE w == request[r].wallet
             o == wallets[w]
             row == [o EXCEPT !.owner = user.dfnsUserId]
  <2>1. w \in DOMAIN wallets /\ o \in Wallet
    BY <1>4, <1>7 DEF delegateWallet, At, ToUser
  <2>2. CASE Linked /\ wallets' = [wallets EXCEPT ![w].owner = user.dfnsUserId]
    <3>1. wallets' = [wallets EXCEPT ![w] = row]
      BY <2>2
    <3>2. row.owner = user.dfnsUserId /\ row.trust = o.trust
      BY <2>1 DEF Wallet
    <3>3. KnownNext(user.dfnsUserId)
      <4>1. Known(user.dfnsUserId)
        BY <2>2 DEF Linked, UserKnown
      <4>2. UNCHANGED <<user, endUsers>>
        BY <1>7 DEF delegateWallet, dbVars
      <4> QED BY <4>1, <4>2 DEF Known, KnownNext
    <3>4. UNCHANGED user
      BY <1>7 DEF delegateWallet, dbVars
    <3>5. KnownNext(row.owner)
      BY <3>2, <3>3, <3>4
    <3> HIDE DEF row
    <3> QED BY <2>1, <3>1, <3>2, <3>5, OneWallet
  <2> QED BY <1>2, <1>7, <2>2 DEF delegateWallet
<1>8. ASSUME NEW w \in DOMAIN wallets, Included(w) \/ Dropped(w)
      PROVE  OwnersKnown' /\ NoneLost'
  <2> DEFINE o == wallets[w]
  <2>1. PICK trust \in {"yes", "lost"} :
          /\ wallets' = [wallets EXCEPT ![w].trust = trust]
          /\ trust = "lost" => faults' # 0
    <3>1. ASSUME Included(w) PROVE wallets' = [wallets EXCEPT ![w].trust = "yes"]
      BY <3>1 DEF Included
    <3>2. ASSUME Dropped(w)
          PROVE  wallets' = [wallets EXCEPT ![w].trust = "lost"] /\ faults' # 0
      BY <1>1, <3>2 DEF Dropped, Fault
    <3> QED BY <1>8, <3>1, <3>2
  <2>2. o \in Wallet
    BY <1>1, ElementOfSeq
  <2>3. PICK row : row = [o EXCEPT !.trust = trust]
    OBVIOUS
  <2>4. wallets' = [wallets EXCEPT ![w] = row]
    BY <1>1, <1>8, <2>1, <2>2, <2>3
  <2>5. row.owner = o.owner /\ row.trust = trust
    <3> HIDE DEF o
    <3> QED BY <2>2, <2>3 DEF Wallet
  <2>6. row.trust # "lost" \/ faults' # 0
    BY <2>1, <2>5
  <2> QED BY <1>8, <2>4, <2>5, <2>6, OneWallet
<1> QED BY <1>2, <1>3, <1>5, <1>6, <1>7, <1>8
    DEF Next, AuthController, UsersController, WalletsController, Advance, Fail, Ledger,
        registerInit, registerComplete, usersRegisterInit, PostWallet, PostDelegate,
        listUsers, EnsureUser, EnsureUsername, Challenge, Link, provisionWallet,
        PersistWallet, dfnsVars, vars

\* Nothing is known at the start, and every step keeps what is.
LEMMA InitBInv == Init => BInv
<1> SUFFICES ASSUME Init PROVE BInv
  OBVIOUS
<1>1. DOMAIN wallets = {} /\ user = None /\ \A r \in Requests : request[r].found = None
  BY EmptySeq DEF Init, Idle
<1> QED BY <1>1 DEF BInv, UserKnown, FoundKnown, OwnersKnown, NoneLost

LEMMA NextBInv == AInv /\ BInv /\ [Next]_vars => BInv'
BY UserKept, FoundKept, WalletsKept DEF BInv
-----------------------------------------------------------------------------
\* Whatever registrations race, fail or are retried, the row and the wallets
\* stay consistent, and a linked row nothing failed for is provisioned or about
\* to be (auth/, users/ and wallets/).
THEOREM AccountsInvariant == Spec => [](AInv /\ BInv)
<1>1. Init => AInv /\ BInv
  BY InitAInv, InitBInv
<1>2. AInv /\ BInv /\ [Next]_vars => AInv' /\ BInv'
  BY NextAInv, NextBInv
<1> QED BY <1>1, <1>2, PTL DEF Spec

\* The trustline is sent before the delegation (addUsdcTrustline, delegateWallet).
THEOREM TrustComesFirst == Spec => []TrustSentBeforeDelegated
<1>1. AInv => TrustSentBeforeDelegated
  BY DEF AInv
<1> QED BY <1>1, AccountsInvariant, PTL

\* Only the wallet the row names is ever handed to the user (createWallet,
\* delegateWallet).
THEOREM OrphansStayWithService == Spec => []OrphansNeverDelegated
<1>1. AInv => OrphansNeverDelegated
  BY DEF AInv
<1> QED BY <1>1, AccountsInvariant, PTL

\* A registration nothing interrupted ends with a wallet that holds USDC and is
\* the user's, however many tabs registered at once (provisionWallet).
THEOREM RegistrationProvisions == Spec => []ProvisionedUnlessInterrupted
<1>1. AInv /\ BInv => ProvisionedUnlessInterrupted
  <2> SUFFICES ASSUME AInv, BInv, Quiescent, Linked, faults = 0, ~legacy
               PROVE  walletRow # None /\ Usable(walletRow)
    BY DEF ProvisionedUnlessInterrupted
  <2>1. UnderWay
    BY DEF AInv, Provisioning
  <2>2. \A r \in Requests : request[r].pc \notin ToWallet \union ToUser \union {"delegate"}
    BY DEF Quiescent, At, ToWallet, ToUser
  <2>3. walletRow # None /\ walletRow \in DOMAIN wallets /\ HandedOver(wallets[walletRow])
    BY <2>1, <2>2, Facts DEF UnderWay
  <2> DEFINE w == wallets[walletRow]
  <2>4. w.trust = "yes"
    <3>1. w \in Wallet
      BY <2>3, Facts, ElementOfSeq
    <3>2. w.trust \in Trust
      BY <3>1 DEF Wallet
    <3>3. w.trust \notin {"no", "sent", "lost"}
      BY <2>3 DEF BInv, NoneLost, Quiescent, HandedOver, Sent
    <3> QED BY <3>2, <3>3 DEF Trust
  <2>5. endUsers = 1 => w.owner = user.dfnsUserId
    <3>1. Known(w.owner) /\ Known(user.dfnsUserId)
      BY <2>3 DEF BInv, UserKnown, OwnersKnown, HandedOver, Linked
    <3> QED BY <3>1 DEF Known
  <2> QED BY <2>3, <2>4, <2>5 DEF Usable, HandedOver
<1> QED BY <1>1, AccountsInvariant, PTL
===============================================================================
