# Verification of stellar-shipping-collateral

TLA+ modules, TLC configurations and TLAPS proofs for the shipping-collateral
marketplace: four Soroban contracts (`contract/`), a NestJS backend (`backend/`)
and a Next.js frontend (`frontend/`). A shipper issues a tokenised receivable,
verified investors buy shares of it with USDC, the shipper collects the raise
and later repays, and investors burn their shares for par plus interest.

Paths below are relative to the repository; contract paths to
`contract/contracts`.

## 1. Inventory

| component | state | operations | hard part | module |
|---|---|---|---|---|
| `factory` | admin, protocol fee, map id -> RWA (three pools, shares sold, investors, status) | `initialize`, `create_rwa_token`, `buy_shares`, `collect_fund`, `settle_debt`, `claim`, `withdraw_fees`, `emergency_withdraw` | one USDC balance for all offerings; rounding per claim; records beside token balances that others can move | `Factory` |
| `sep57` token, one per offering | balances, supply, used nonces | `initialize`, `mint`, `transfer`, `burn` | bearer permits with a shared nonce space and an expiry; hooks into two other contracts | `Sep57` |
| `compliance` | operator, bound tokens, caps | `initialize`, `bind_token`, `unbind_token`, `set_max_balance`, three hooks | the cap or the binding changes between two transfers | `Compliance` |
| `identity-verifier` | admin, address -> (verified, role) | `initialize`, `set_identity`, `verify_identity`, `get_identity` | one record per address: a second role overwrites the first | `IdentityVerifier` |
| USDC | balances, allowances | `approve`, `transfer`, `transfer_from` | allowances expire | `Usdc` |
| backend `events` + `rwa` repository | cursor, event rows | `pollLoop`, `pollOnce`, `markCollateralOnChain` | crash between writes, pages, retention, endpoints that lag | `EventsPoller` |
| backend `sumsub` + `syncIdentity` | a user's KYC and KYB status, on-chain identity | token endpoints, two webhooks, `set_identity` | at-least-once delivery, overlapping handlers, swallowed failures | `KycSync` |
| backend `auth` and `users` (registration), `wallets` (provisioning) | user row, wallet row; at DFNS the end user and the wallets | `registerInit/Complete` of both, `provisionWallet`, `createWallet`, `addUsdcTrustline`, `delegateWallet` | two systems written in turn, concurrent requests, retries | `Accounts` |
| backend `auth` (tokens), NextAuth, `use-token-refresh` | one refresh-token hash; cookie; timer | `loginComplete`, `refresh`, `logout`, the guard, the jwt callback | rotation with concurrent reads and lost answers | `Sessions` |
| backend `wallets` (sign sessions), `submitTransaction`, `use-tx-action`, `use-transfer` | sign sessions, active RPC endpoint, account sequence | `signInit/Complete`, `transferInit/Complete`, `withRpcRetry` | "latest initiated session"; retry after a lost answer | `Signing` |
| backend `rwa` (prepare, detail), the offering page | query cache, dialogs | read every ten seconds, four buttons | a page behind the chain; amounts fixed before two transactions | `OfferingPage` |
| backend `rwa` (lists, events), dashboard, list, card and history pages | none | list, filter, sort, page, name | who sees what | `Listings` |
| backend `collateral`, storage, the issue flow | records, documents, React state | record, documents, approve, create, finalise | six steps over three stores, each may fail; two tabs | `IssueFlow` |
| issue and transfer forms and their DTOs | none | validation, conversion | form, DTO and contract accept different inputs | `Forms` |
| KYC and KYB pages, questionnaire, banner, `auth/me` | profiles, cached `me`, localStorage | mount, submit, poll, dismiss | polls that race the webhook; a cached answer | `Onboarding` |
| landing page, UI components, generated bindings, scripts | none of their own | | | |

**Interactions.** The factory calls its tokens, the identity verifier, the
compliance engine and USDC inside one invocation, and Soroban reverts the whole
invocation when any of them panics. A token calls the identity verifier and the
compliance engine on each mint and transfer. The backend reaches the contracts
through RPC: it writes identities after reviews, signs permits, prepares and
submits the users' transactions, and reads the factory's events into its
database. DFNS holds the users' keys: a transaction is signed by a passkey
against a challenge that the backend keeps as a sign session. The frontend
drives the backend, and shows what it last read.

**What makes each part correct.**
*Factory*: no share and no USDC appears or disappears across any mix of calls,
and what is promised can be paid. *Token*: the supply moves only by live,
unspent permits and every receipt is checked. *Poller*: outside known gaps the cursor
never passes an event that is not stored, and a stored creation promotes its
record. *Verification*: the chain verifies the approved and nobody else, follows
the latest review, and agrees with what the database shows. *Accounts*: whoever
registers ends with one wallet that is handed over, with its trustline under way.
*Sessions*: an open tab stays signed in, a signed-out browser stays out.
*Signing*: what the user is told is what the ledger did. *Offering page*: what the
contract leaves to the page (collect once, settle in full) holds. *Issue flow*: what is on chain and what is in the database meet.

`PROJECT.json` lists the hazards line by line with the properties that cover
them, and for what a property has to excuse, why.

## 2. Modules

```
Soroban --- IdentityVerifier --+-- Sep57 ---+-- Factory --+-- FactoryLedger -- MCFactory
   |------- Compliance --------+            |             |
   |------- Usdc ---------------------------+             +-- FactoryProofs
   +------- KycSync (uses IdentityVerifier) -- MCKycSync, KycSyncProofs
Amounts --+-- Sep57 -- MCSep57
          +-- AmountsProofs (in FactoryProofs, OfferingPageProofs, FrontendProofs)
          +-- Forms -----------------------------+
          +-- OfferingLedger --+-- IssueFlow ----+-- MCIssueFlow
               (INSTANCE in    +-- OfferingPage -+-- MCOfferingPage, OfferingPageProofs
                FactoryLedger)    Listings -- ListingFacts
EventsPoller -- MCEventsPoller, EventsPollerProofs
Accounts -- MCAccounts, AccountsProofs
Signing -- MCSigning, SigningProofs
Sessions -- MCSessions -------+
Onboarding -- MCOnboarding ---+-- FrontendProofs (with Forms, AmountsProofs)
IssueFlow (above) ------------+
```

Contracts:

* **Soroban**: addresses, the i128 bound, the ledger sequence. A call that
  panics anywhere is an action that is not enabled, since the host reverts the
  whole invocation. `Fits` is `checked_add`/`checked_mul` at the i128 maximum.
* **Amounts**: basis-point fees with their integer division, and the sum of a
  family of amounts. `Total` counts units, without recursion, so that it can be
  proved about.
* **IdentityVerifier, Compliance, Usdc, Sep57**: one contract each. An entry
  point is an operator with the caller's arguments; the hooks a token calls
  (`Received`, `Destroyed`) are conjuncts of the token's actions, in the same
  step. `transfer` keeps the order of the code: both balances are read before
  either is written.
* **Factory**: every entry point composed with all the calls it makes, and, in
  `DirectStep`, what anyone may call past it: ledgers closing, identity changes,
  token transfers, permits relayed to the token, approvals, payments.
* **OfferingLedger**: the abstract specification: what a caller of the factory
  may rely on, with an offering reduced to shares, holders, principal and
  status, and money to one vault and the users' purses. **FactoryLedger** is the
  refinement mapping: `offering` is the fields of `rwas` it keeps, `vault` is
  `usdc[Factory]`, `purse` the users' USDC; permits, identities, caps and
  allowances disappear. `OfferingPage` and `IssueFlow` run on `OfferingLedger`,
  so what they show rests on the refinement and not on a second, simpler
  contract.

Backend and frontend; a handler is cut at its awaits, a database call or an
HTTP request is one step, and any of them may fail within `MaxFaults`
(`MaxFailures` in `Onboarding`):

* **EventsPoller**: `pollOnce` (`BeginPoll`, `Fetch`, `HandleEvent`, `Promote`,
  `AdvanceCursor`), with `Abort` for a crash or a throw at any step,
  concurrently with the chain and with clients creating and patching records.
  Ledgers hold transactions and these hold events; a row is found by its
  transaction, type and offering (`SameKey`), as the code finds it. Three gaps
  lose events for good: a ledger that a full page holds only a part of (`cut`),
  ledgers outside the lookback and the retention (`dropped`), and the later of two
  events with one key (`Shadowed`).
* **KycSync**: one user, Sumsub as the environment, handlers in three steps
  (write the status; re-read the user; send), any number of them at once, and
  the token endpoints in two. It calls `IdentityVerifier!SetIdentity` itself. `missed`
  is about the last final review: a later one that is synchronised clears it.
* **Accounts**: the requests of one email address: registration through both
  endpoints (`auth` provisions, `users` does not), `POST /wallets` and
  `POST /wallets/:id/delegate`. DFNS (end users, wallets, who owns them), the
  trustlines on the ledger and the two unique rows are the state. A trustline is
  broadcast, and some time later taken or dropped by the ledger (`trust`), which
  nothing waits for. DFNS is asked for one page of end users, which need not hold
  the one looked for (`offPage`). DFNS may end with two end users of one email (a
  lost answer): the wallet may then be one's and the row name the other.
* **Sessions**: one user, one browser with a tab that has a timer and page loads
  beside it, other devices. A read of the session copies the cookie, asks the
  backend (compare the hash; write the new one) and writes a whole new cookie.
  Time is a clock; a token is the second it was issued in, because its payload
  holds nothing else that changes.
* **Signing**: several flows of one user, each an action (sign session, passkey,
  `signComplete`, `submitTransaction`) or a transfer (`transferComplete`
  broadcasts itself), RPC endpoints that fail and answer late, and a ledger that
  takes an account's transactions in order of sequence.
* **OfferingPage**: pages of one offering, several per user, that show what they
  last read, the buttons with their guards, transactions that are simulated when
  prepared and applied later, also after the page gave them up (`late`), and the
  poller, which sees an event some time later or loses it. Transactions of one
  user share a sequence number: one that lands makes the user's others stale.
* **IssueFlow**: the form of each tab through `issueFlow`: record, document rows
  and bytes, approval, creation, PATCH; the account's sequence number, the one
  allowance and the sign sessions the tabs share (`signComplete` takes the user's
  latest session, whichever tab's it is); transactions given up and applied late;
  the poller's promotion, or its loss.
* **Onboarding**: the KYC and KYB pages, the questionnaire, the banner and its
  localStorage, the cached `me`, the token endpoints, and reviews with their
  webhook and the message to the widget in either order. A reload (`Load`) empties
  the cache; a login that the shell leads to (`Login`) keeps it.
* **Listings**: the list and history endpoints and the pages that show them, as
  operators over a chain and a database; **ListingFacts** states what they
  promise. **Forms**: what the forms, the DTOs and the factory accept, with its
  facts. These are pure functions, so their facts are `ASSUME`s over every small
  input, which TLC evaluates in the runs `offering_page` and `issue_flow`.

An operator that a comment calls a *mutant* is a plausible bug, the form of a
definition that breaks a property; nothing uses it. They record that each
property can fail.

**Choices worth knowing.**

* Permits are a constant set: the signer is off-chain and the token only checks
  signatures, so when one is signed makes no difference. The backend signs
  burns only for investors' wallets, which `Factory` assumes by name
  (`BurnPermitsAreInvestors`).
* The RWA record leaves out `raise_amount` (always equal to `shares_total`),
  `shares_reserved` (always 0) and `due_ledger` (read by no later entry point;
  `create_rwa_token` only asks it to be in the future).
* USDC follows the MockToken of the contract tests. The deployed asset contract
  has the same interface.
* History variables (named so where they are declared: `collected`, `rescued`,
  `cut`, `missed`, `offPage`, `disturbed`, `alone`, `blind`, `raced`, `gaveUp`,
  `skipped`, `refused`, `seen`, ...) record what happened for the properties; no
  guard reads them, except the bounds named in `Next` and, in `KycSync`, the
  delivery order of the environment.
* React Query is external: a refetch replaces a request in flight when data is
  cached and joins it otherwise, windows do not refetch on focus, a query is
  retried once. These are the library's defaults and what
  `frontend/components/query-provider.tsx` sets.
* `getRwa` reads the chain and then the events in two awaits; the model reads
  both in one step. The next read repairs any difference.
* Fields of a document, a message or an event that no property tells apart are
  not kept.

## 3. Runs

Every run checks invariants or properties over all interleavings within its
bounds. Deadlock checking is off in all of them: contracts, handlers and pages
do nothing unless called, and the environment is bounded, so a state without
successors is an ordinary end.

### Passing

| run | properties | what it shows |
|---|---|---|
| `sep57` | `BalancesCoverSupply` `ReceiptsAreChecked` `SupplyMovesByPermit` | four permits that share three nonces, caps, unbinding, revocation and expiry in any order |
| `one_offering` | `TypeOK` `SharesConserved` `InterestCovered` `PrincipalLeavesByRedemption` `ImplementsLedger` | one offering of 24 at 950 bps with two investors; every step of the contracts is a step of `OfferingLedger` |
| `two_offerings` | `EscrowAccounted` `OneTokenPerOffering` `UnsoldSharesHeld` | two offerings over one USDC balance |
| `poller` | `TypeOK` `CursorCoversRows` `NeverStoredTwice` `PromotedUnlessInterrupted` `EveryEventLands` | pages, crashes, lagging endpoints, several events in a transaction, patches; the loop always gets past |
| `kyc` | `VerifiedWasApproved` `ChainFollowsReviews` `DecisionsAgree` | reviews of two flows delivered late, twice, overlapping, with failed sends and racing token requests |
| `accounts` | `ProvisionedUnlessInterrupted` `TrustSentBeforeDelegated` `OrphansNeverDelegated` `RetryLinks` | two requests of one person at once and again, with failures at any await and trustlines that land late or never |
| `sessions` | `CookieMatchesHash` `TabStaysAuthenticated` `LogoutHolds` `DeadStaysDead` | a timer, page loads, logins elsewhere, logouts, lost answers |
| `signing` | `DoneMeansApplied` `FailedIsFinal` `AloneSucceeds` `EveryFlowEnds` | two flows of one user over two endpoints that fail |
| `offering_page` | `EscrowWhole` | a shipper in two tabs and an investor, on pages that lag and give up; the facts of `ListingFacts` |
| `issue_flow` | `SomeoneSucceeds` `UntoldOnlyByFaults` `RecordsCatchUp` | two tabs issuing with failures, lost answers, slow ledgers and each other's sign sessions; the facts of `Forms` |
| `onboarding` | `ProfileBeforeVerification` `FlowOfRole` `ApprovalReachesPage` `DismissalExpires` | the pages, the widget, the webhook and logins in any order |

Several of these are the strongest statement that survives a divergence below,
or an order of events the code does not guard against, and excuse exactly what
they need. What a property excuses it does not catch:

* `BalancesCoverSupply` is the half of "1:1" that a self-transfer keeps;
* `CursorCoversRows` and `EveryEventLands` excuse the three gaps above;
* `PromotedUnlessInterrupted` a fault between the row and the promotion,
  `ProvisionedUnlessInterrupted` a failed call, a dropped trustline and the older
  endpoints, `RecordsCatchUp` a creation the poller lost or failed to promote
  (`skipped`);
* `ProvisionedUnlessInterrupted` asks that the wallet is the end user's that the
  row names only if DFNS has one end user of the email; with two it only asks that
  the wallet has left the service account;
* `TrustSentBeforeDelegated` says that the trustline was broadcast, not that the
  ledger has taken it;
* `RetryLinks` an end user outside the page of 100;
* `ChainFollowsReviews` and `DecisionsAgree` a last final review whose
  synchronisation overlapped another's, failed or was skipped; that an older event
  or a slow token request takes the status itself back, neither forbids;
* `CookieMatchesHash` and `TabStaysAuthenticated` reads that overlapped or an
  answer that was lost; `LogoutHolds` a rotation that had passed the comparison;
* `DoneMeansApplied` is about actions: a transfer reports what DFNS accepted;
  `AloneSucceeds` excuses flows with a competitor, `FailedIsFinal` a transaction
  that was sent again (not one that was polled for again);
* `EscrowWhole` a shipper who pressed on a page behind the chain or before an
  earlier press was done with, in whatever tab (`blind`), and a purchase that
  landed while a settlement was under way or given up (`raced`);
* `SomeoneSucceeds` a signature refused for another tab's session (`refused`).
  With it all flows can fail: the approval of A lands, that of B was built before
  it, A opens the session of its creation, B one after it; A is refused by DFNS, B
  by the ledger.

### Bounds, and why they are enough

* *Rounding.* 950 bps on 24 is 2, on 8 is 0 and on 16 is 1: the three ways to
  split a redemption of 24 round differently, and the pool is exhausted, partly
  left or over-asked accordingly. A protocol fee of 700 bps gives a
  non-zero fee at these amounts.
* *Permits.* A mint and a burn share a nonce (`sep57`); one offering has a
  burn permit for each split; with two tokens the same nonce is used on both.
* *Ledgers.* Up to three ledgers with deadlines on either side: live, at the
  boundary, expired. Allowances likewise.
* *Two offerings* of 16 are the fewest that can pay each other's claims, two
  investors the fewest that can share an offering. Ids and tokens differ in name
  only, which the run uses as a symmetry. With two offerings the admin
  is the verified investor, so that the hatch can hand out tokens too.
  `MaxCollected` lets an offering be collected twice; `MaxPrincipal`,
  `MaxRescued` and `MaxHeld` stop the counters that the code lets grow without
  end.
* *Poller.* A page of 2 with 3 events can be full at a ledger's end, full
  inside a ledger, and drained; a window of 1 under 4 ledgers makes both
  the first lookback and the retention drop something; one fault is a crash, a
  failed call, a failed promotion or an endpoint that lags, at any step. The
  events of a ledger are spread over its transactions in every way.
* *KYC.* Six events are full reviews of both flows in any interleaving, or one
  flow approved, rejected, and under review again; two tokens are one per flow
  or two that race on one; one fault is a redelivery, a reordering or a failed
  send. A user may have a wallet from the start, get one between any two steps,
  or never.
* *Accounts.* Two requests are a race; four starts and two faults are a
  registration (two requests) that fails and its retry, which fails too or has
  another request beside it.
  Two DFNS end users are the one of a lost answer and another.
* *Sessions.* An access token lives 5, a refresh token 8, the margin is 3, an
  answer takes up to 1, and the clock runs to 10: two renewals, and the expiry
  of a refresh token, fit in. Only the order of these durations matters; the
  module assumes by name that the margin outlasts two latencies and the least
  delay of the timer (in the code 60 and 10 seconds, so answers may take 25).
* *Signing.* Two flows, of either kind, are enough to take each other's session
  and sequence number; four faults exhaust the attempts of `withRpcRetry` over
  two endpoints.
* *Offering page.* A raise of 24 with purchases of 12 sells out in two; three
  presses of the shipper are the fewest that could pay the raise out twice (a
  settlement brings the money in), two of the investor two purchases, or a purchase
  and its redemption, in every order with the shipper's; two tabs of the shipper,
  which are interchangeable (the run uses it as a symmetry), hold two flows at once;
  one fault is a transaction given up that may land later, or a query that stops (a
  flow may fail otherwise at any step, without counting). A hundredth
  is 8 base units here and a comma appears at 24, so that both roundings of the
  amount field occur. How investors share an offering is `one_offering`'s.
* *Issue flow.* Two tabs and two records, a rate the factory takes and one that it
  refuses, and a purse that pays for two creations; two
  faults, which leave a transaction on its way and its successor's answer lost.
* *Onboarding.* A poll makes two attempts (the code's six differ only in
  number); three mounts are any three of visits, reloads and logins; three reviews
  reach approved and taken back; one fault.

### Fairness

* `poller`: `WF_vars(PollStep)`. `pollLoop` runs from `onModuleInit` until
  shutdown, catches every exception and sleeps a bounded time
  (`events.service.ts:89-106`), so a step of a poll that can be taken is taken
  in the end.
* `accounts`: `WF_vars(Advance(r))`: Node runs a handler on to its next await.
  Whether the ledger ever takes a trustline is left open.
* `signing`: the same for `Advance(f)`, the passkey included (a flow left at the
  passkey dialog is not answered by anyone), and the ledger closes.
* `issue_flow`: that the poller gets past each creation, with the event stored and
  promoted or not (`EveryEventLands` with its gaps); a tab may be closed at any
  step.
* `onboarding`: an interval that fires, a request that is served and answered.
* `sessions`, `kyc`, `offering_page` and the contracts assume none.

Faults are finite in number (`MaxFaults`, `MaxFailures`), the assumption any
"eventually" needs here. Nothing is assumed of clients, of the chain, or of which
step a fault hits.

## 4. Proofs

The runs check small instances; the theorems hold for every value of the
constants: any number of users, offerings, requests, flows and endpoints, any
amounts, durations, page sizes and bounds on faults. Each component's theorems
rest on one inductive invariant, proved as `Init => Inv` and
`Inv /\ [Next]_vars => Inv'` with a lemma per action, and were model-checked
before they were proved.

| module | invariant | theorems |
|---|---|---|
| `FactoryProofs`, the token | `SepInv` | `Sep57Invariant` `NoTokenIsLost` `EveryReceiptIsChecked` `EverySupplyMoveIsPermitted` |
| `FactoryProofs`, the pools | `IInv` | `InductiveInvariant` `TypeCorrect` `SharesAreConserved` `InterestIsCovered` |
| `FactoryProofs`, custody | `CInv` | `CustodyInvariant` `TokensAreDistinct` `UnsoldSharesAreHeld` `EscrowIsAccounted` `PrincipalIsRedeemed` |
| `FactoryProofs`, refinement | `CInv` | `FactoryImplementsLedger` |
| `AmountsProofs` | | `ApprovalCoversUpfront` |
| `OfferingPageProofs` | `PInv` | `PageInvariant` `EscrowIsWhole` |
| `EventsPollerProofs` | `PInv` | `PollerInvariant` `PollerTypes` `NoSecondRow` `CursorIsHonest` `StoredIsPromoted` |
| `KycSyncProofs` | `KInv` | `KycInvariant` `ChainWasApproved` `ChainIsInStep` `DatabaseAgreesWithChain` |
| `AccountsProofs` | `AInv`, `BInv` | `AccountsInvariant` `TrustComesFirst` `OrphansStayWithService` `RegistrationProvisions` |
| `FrontendProofs`, sessions | `SInv` | `SessionsInvariant` `CookieIsAccepted` `TabIsAuthenticated` `LogoutIsFinal` `DeadIsDead` |
| `FrontendProofs`, verification | `OInv` | `OnboardingInvariant` `ProfileComesFirst` `OnlyOwnFlow` `DismissalEnds` |
| `FrontendProofs`, issuing | `IInv`, with `Led` | `IssueInvariant` `UntoldCostsFaults` `NotEveryFlowFails` |
| `FrontendProofs`, the forms | | `OnlyTheContractsDomainIsIssued` `LeftBehindOnlyBySchema` `PercentWithinAnyBalance` |
| `SigningProofs` | `SInv` | `SigningInvariant` `DoneIsApplied` `FailureIsFinal` `AloneIsNotRefused` |

**The arguments.**

* *Token.* Each call moves the balances of one token, and only as `Checked` and
  `PermitSpent` say; a transfer takes from one balance before it overwrites the
  other, so that the sum can grow (to oneself) and never shrinks below the supply.
* *Pools.* `TypeOK` is not inductive: `claim` subtracts the interest from
  `interest_pool` without a check. `IInv` adds `FreshOfferings` (an id that was
  not created has no history), `SharesConserved` and `InterestCovered`. What an
  investor redeems is at most what is outstanding; interest rounds down, so the
  interest on a part and on the rest is at most that on the whole
  (`FeesOfParts`); hence after a claim the pool still covers the rest, and is a
  natural number.
* *Custody.* `CInv` adds the admin and the three invariants themselves. They need
  each other: unsold shares stay held only because offerings do not share a
  token, and because nothing moves the factory's tokens but `buy_shares` (as many
  as are sold) and the hatch (counted). For USDC each entry point has a lemma on
  what its pools owe after it and what it pulls or sends.
* *Refinement.* `Offered` is what the mapping keeps of the records. Each entry
  point is shown to be the ledger's step of that name (`BoughtRecorded`,
  `RepaidRecorded`, `RedeemedRecorded` relate the records), and every other call
  to leave the offerings alone and to take USDC out for the admin at most. The
  mapping needs `CInv` where the code's guard differs from the ledger's.
* *Offering page.* `collect_fund` and `settle_debt` check little, so the page
  must. `VaultAdds` holds whatever is pressed: vault and collected money cover
  principal, raise and the interest not yet paid. That the raise is collected once
  takes that a shipper who waits for each press to be done with has one transaction
  under way, in some tab or given up (`OneWaiting`), and, having seen the chain, no
  collection under way after one has landed (`CollectsOnce`); that a settlement is
  whole, that no sale comes between reading the amount and its landing
  (`SettlesWhole`). These hold only without `blind` and `raced`, as the property
  says.
* *Poller.* The cursor is right between polls because of what holds during one: a
  poll starts after the cursor, and what it starts after is dropped (`Polling`);
  a page is what the endpoint had, however far the chain has grown since, and what
  the loop has been over has a row of its key (`Paging`), which is the first of that
  key since a page starts where a ledger does (`FirstRows`); a ledger of which the
  page holds a part is `cut`. The log is in ledger order, so where a ledger ends is
  a function of it.
* *Verification.* Unless the last final review's synchronisation was missed there is
  at most one handler, with that review, and the chain has it when the handler is
  done (`Synced`). If the flow of the last final review shows a decision it is that
  review's (`DecisionShown`): only final events write one, this was the last of
  them, and a token request writes none. So chain and database agree.
* *Accounts.* Where a request is says what the row and the wallets have
  (`Placed`). `Provisioning` is the argument for the last theorem: once the row is
  linked and nothing failed, there is always a request on its way to a wallet,
  and then one on its way to handing it over, until that is done. The request
  that loses the race for the row returns, and the winner goes on. `BInv` says whose
  a wallet is: every end user that the row, a request or a wallet names is one of
  DFNS's, and without a fault no trustline is lost. With one end user there is
  nobody else to hand the wallet to.
* *Sessions.* `TokenKept` follows the token that the backend accepts from the
  cookie into a read and back, `TabRenews` bounds when the timer fires and when
  its answer comes, `Timed` how late an expiry may be. A timer set at the least
  delay is why the margin must cover that delay besides two latencies: with less,
  TLC finds a tab that holds an expired token.
* *Onboarding.* The pages reach their steps in order (`AskedInOrder`): what a page
  has reached says what the database holds, also for a request that is still on its
  way when the page is left. `InOwnFlow` says the same of roles, and is needed
  because neither endpoint alone is enough: the KYC page sends shipping companies
  away, the KYB endpoint refuses the others. `ReviewsFollow` keeps a webhook from
  starting a flow. A dismissal is remembered only until COMPLETED is shown
  (`DismissedUnseen`).
* *Issuing, what goes wrong.* `OwnRecords` is the reason retries are harmless: each
  attempt has a record of its own, and the network can only still apply what a flow
  gave up. Counting what is already on chain is not inductive, since a given-up
  creation lands without a fault of its own; `AtRisk` counts it from the moment it
  was given up, and a record enters `AtRisk` only in a step that is a fault. That a
  flow which errors in its own creation puts nothing at risk needs `CreationsGo`:
  a creation is simulated when it is built, and what it was simulated against does
  not change until a transaction lands, which takes its turn away.
* *Issuing, what goes right.* `Led` follows the tab that can still make it. Until an
  approval has landed everybody can; each approval that lands makes its tab the
  leader, since it replaces the allowance by that tab's upfront; the next one in
  sequence either belongs to the leader or makes another leader. The leader's
  simulation can then only fail if it could not pay: the allowance covers what is
  pulled (`ApprovalCoversUpfront`), and the form's estimate, unrounded and at a fee
  that is no lower, covers it too (`AffordableCovers`). Its signature is the one
  thing another tab can still take from it, which the property excuses.
* *Forms.* The facts that TLC evaluates over small inputs, for every input: what is
  issued is the domain of the contract exactly.
* *Signing.* `Consistent` ties a flow's step to the queue, the result on the
  ledger and the sequence number; `AloneHasTheAccount` says what a flow without
  competitors can count on: the queue, the next number, the latest session.

**Assumptions** are the named `ASSUME`s of the modules, which TLC evaluates in the
runs: constants have their types; `Rwas` and `Users` are finite where amounts are
summed over them; the factory is not a user; burns are signed for users
(`BurnPermitsAreInvestors`); `None` is no record, user, identity or event
(`NoneIsNoRecord`, `NoneIsNoUser`, `NoneIsNoBook`, `NoneIsMissing`, ...), and a
missing answer is no status (`AnswersDiffer`); `MarginCoversLatency`. Two theorems
have a hypothesis of their own. `StoredIsPromoted` asks that no client patches a
status (`NoStatusPatched`). The API accepts such patches and they undo a promotion;
the page sends none, and neither do the clients of the run `poller`.
`NotEveryFlowFails` asks that the form estimates with the factory's fee or a higher
one (`FormKnowsTheFee`). Both are 50 where they are written down
(`contract/.env.example:12`, `use-estimated-allowance.ts:6`), but nothing compares
them; with a lower one in the form TLC finds a run in which every flow fails though
no call did: the form lets a balance pass that does not pay.

**What stays with TLC.** The liveness properties (`EveryEventLands`,
`EveryFlowEnds`, `RetryLinks`, `RecordsCatchUp`, `ApprovalReachesPage`), since the
prover does neither fairness nor `ENABLED`. The
`ENABLED` of `OfferingPage`, a simulation, is no obstacle to its safety theorem:
whether a transaction is taken is decided again when it is applied. The facts of
`ListingFacts`, which sort, filter and cut sequences: they need induction over
the data. Every safety invariant and action property that a passing run checks is
proved.

## 5. Where the code and its own words differ

One run is expected to fail:

| run | property | quoted | what the code does |
|---|---|---|---|
| `escrow_covers_pools` | `EscrowCoversPools` | README.md:90 "holds all USDC + RWA tokens in escrow" | `collect_fund` keeps no record and pays again (`factory/src/lib.rs:234-259`): after create, buy, collect and settle, a second collection takes the repaid principal of the same offering, whose investors then find the vault empty; with more offerings in the one balance it is theirs that makes up for it |

The modules define more such statements, under the words they come from. The
behaviour that breaks them is in the models; put the name in the configuration
beside it (`NeverNeedsRefresh` under PROPERTY, the others under INVARIANT) and TLC
shows the steps. `NeverNeedsRefresh` also needs `FairSpec` in place of `Spec`,
`Tabs = {s1, a1}`, `UserOf <- TwoTabs` and no SYMMETRY; `RedeliveryIsIdempotent`
goes under PROPERTY as well.

| definition | configuration | quoted | what the code does |
|---|---|---|---|
| `EveryTokenBacked` | `MCSep57` | README.md:8 "backed 1:1" | a transfer to oneself writes the stale balance back and adds the amount (`sep57/src/lib.rs:84-90`) |
| `ResumesWithoutMissing` | `Poller` | schema.prisma:216 "can resume after restart without missing events" | a full page that ends inside a ledger moves the cursor to that ledger, and the next poll starts after it (events.service.ts:182) |
| `RecordsReconciled` | `Poller` | use-issue-collateral.ts:288 "will still reconcile the record" | the event row is written first; a fault before the promotion is never repaired |
| `RedeliveryIsIdempotent` | `Kyc` | sumsub.md:308 "receiving the same event twice does not corrupt state" | each event overwrites the status (sumsub.service.ts:322): the first event of a flow, delivered again at the end, takes COMPLETED back to INIT |
| `RejectionRevokes` | `Kyc` | blockchain.service.ts:343 "REJECTED triggers `verified = false`" | the approval's handler may send after the rejection's |
| `TryAgainIsRejected` | `Signing` | blockchain.service.ts:565 "Reject immediately on ERROR / TRY_AGAIN_LATER" | only ERROR is rejected (blockchain.service.ts:569); the backend polls for a transaction the node did not take |
| `ResendIsSafe` | `Signing` | blockchain.service.ts:550 "Re-sending the same signed envelope is safe" | the first send was accepted and applied; the second is answered ERROR (bad sequence) and reported as FAILED |
| `SettlesInFull` | `OfferingPage` | page.tsx:240 "Always settle the full principal owed" | the amount is read before two transactions, and the offering sells on |
| `NeverNeedsRefresh` | `OfferingPage` | page.tsx:135 "users never need to refresh manually" | two failures in a row stop the interval |
| `AllowanceCoversPull` | `IssueFlow` | rwa.service.ts:295 "so the allowance always covers the pull" | another tab's approval replaces it, or its creation uses it up |
| `IssueOfferedOnceVerified` | `Onboarding` | collateral/page.tsx:10 "CTA is disabled until KYB is completed" | the page reads the session's KYB status, which no login sets |

`AllocationsHeld` (`Factory`; lib.rs:311 "Confirm the investor actually holds the
claimed allocation": the check reads the factory's own map, which a token
transfer leaves stale) needs token transfers as well: `TransferAmounts = {8}` and
`MaxHeld = 24` in `OneOffering.cfg`.

Read in the code while modelling, and contained in the models or in the facts
of `Forms` and `ListingFacts`:

* lib.rs:93-95 wants expired permits rejected by the factory; it tests
  `deadline < sequence` and the token `sequence >= deadline`, so a deadline equal
  to the current ledger fails in the token.
* A purchase after `collect_fund` stays in the vault until it is collected again,
  which the page no longer offers.
* sumsub.service.ts:113 marks a user INIT "the first
  time they request a token", by a status read before the call to Sumsub: the
  slower of two requests can take a PENDING flow back to INIT. The KYC endpoint
  refuses neither a COMPLETED user nor a shipping company, and
  sumsub.controller.ts:62 asks for a completed KYC before KYB, which
  sumsub.service.ts:150 skips.
* `provisionWallet` is called idempotent (auth.service.ts:322); it returns at the
  wallet row, whatever failed after it. The trustline is to be there "before
  delegation" (wallets.service.ts:166); it is broadcast before it, and if the ledger
  drops it, the delegated wallet has none and nothing adds one.
* Registration looks for an existing end user in the first hundred of the
  organisation (auth.service.ts:78); beyond it makes another.
* Two events of one type for one offering in one transaction leave one row
  (events.service.ts:152), so that the history lacks one of two
  purchases that another contract makes in one call.
* A FUND_COLLECTED the poller loses leaves the collect button on for good
  (page.tsx:186), and two tabs, or a press after a transaction was given up, can
  collect twice.
* A creation event whose record is given its id only later is stored and never
  promotes it; a second approval of one address in the other role drops the
  first on chain; the compliance engine belongs to whoever initializes it first.
* A failed document upload leaves its row without bytes, or a row whose URL
  never came.
* The issue form takes rates of 0 and above 950 bps and fractions of both rate
  and term, which are refused after the record, and above 950 after the
  approval, exist. "Max" of the native asset leaves nothing for fee and reserve.
* The claim field's "Max" rounds to two decimals, possibly above what is held,
  and from a thousand puts a comma in that the parser refuses.
* The lists show the first twenty offerings (rwa-list.tsx:72), "open" ones and
  the rest (rwa-list.tsx:50); before a wallet exists `mine` is everyone's; an
  investor's history has no names.
* The form's protocol fee is a constant of its own (50 bps); nothing keeps it equal
  to the factory's.

## 6. Not modelled

Sumsub's signatures and company data; DFNS's login challenge and passwords; the
older login pair of the users API, which no page calls; XDR, HTTP and passkey
encodings; gas, storage TTL and authorisation entries of the host; names,
symbols, decimals and country codes; keys and signed URLs of the document
store; the unused upload through the backend; balances read from Horizon;
generated bindings; deployment scripts and contract tests (read as
documentation); the landing page, UI components, wording and layout. None of
them keeps state that a property here depends on.

## 7. What the plan has left

Models: an event mirror that `EventsPoller` implements outside its three gaps,
and an identity registry that `KycSync` implements when no synchronisation is
missed. Both would restate, as refinements, what `CursorCoversRows` and
`ChainFollowsReviews` say as invariants. The fee cache of the blockchain service
(`getProtocolFeeBps`) is harmless as long as the factory has no setter for it.
