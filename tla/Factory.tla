------------------------------- MODULE Factory -------------------------------
(***************************************************************************)
(* contract/contracts/factory: the offering lifecycle, composed with the   *)
(* contracts every invocation reaches: the RWA token it deploys per        *)
(* offering, the identity registry, the compliance engine and USDC.        *)
(*                                                                         *)
(* collected, claimed, rescued and rescuedUsdc are history variables: the  *)
(* contract keeps none of them, the properties speak about them.           *)
(***************************************************************************)
EXTENDS Sep57, Usdc

CONSTANTS
    FactoryAdmin,      \* the admin the deployer initializes the factory with
    ProtocolFeeBps,    \* ... and its protocol fee
    Rwas,              \* token_ids of offerings
    RaiseAmounts,      \* bound: create_rwa_token's raise_amount
    InterestBps,       \* bound: create_rwa_token's interest_bps
    BuyAmounts,        \* bound: buy_shares' amount
    SettleAmounts,     \* bound: settle_debt's principal_amount
    EmergencyAmounts,  \* bound: emergency_withdraw's amount
    MaxRescued,        \* bound: what emergency_withdraw takes of one token
    MaxCollected,      \* bound: the USDC one offering's collect_fund pays out
    MaxPrincipal       \* bound: the principal settled for one offering

ASSUME FactoryAdminType == FactoryAdmin \in Users
ASSUME ProtocolFeeBpsType == ProtocolFeeBps \in Int
ASSUME RwasFinite == IsFiniteSet(Rwas)
ASSUME FactoryInputsType ==
    /\ RaiseAmounts \subseteq Int
    /\ InterestBps \subseteq Int
    /\ BuyAmounts \subseteq Int
    /\ SettleAmounts \subseteq Int
    /\ EmergencyAmounts \subseteq Int
    /\ MaxRescued \in Nat /\ MaxCollected \in Nat /\ MaxPrincipal \in Nat

VARIABLES
    admin,            \* DataKey::Admin, None until initialize
    protocolFeeBps,   \* DataKey::ProtocolFeeBps
    rwas,             \* DataKey::RWAs
    collected,        \* history: USDC collect_fund has paid out, per offering
    claimed,          \* history: shares redeemed by claim, per offering
    rescued,          \* history: shares emergency_withdraw took, per token
    rescuedUsdc       \* history: USDC emergency_withdraw took

factoryVars == <<admin, protocolFeeBps, rwas>>
historyVars == <<collected, claimed, rescued, rescuedUsdc>>
vars == <<sepVars, usdcVars, factoryVars, historyVars>>

Statuses == {"Open", "Funded", "Settled"}

\* raise_amount always equals shares_total and shares_reserved is always 0;
\* neither is kept here, nor the due ledger, which no entry point reads.
Rwa == [token : Tokens, shipper : Users, interest_bps : Nat,
        interest_pool : Nat, protocol_fee_pool : Nat, principal_pool : Nat,
        shares_total : Nat, shares_bought : Nat,
        investors : [Users -> Nat], status : Statuses]

\* The admin signer signs burns for investors' wallets only
\* (backend blockchain.service.ts prepareClaimParams), never for the factory.
ASSUME BurnPermitsAreInvestors ==
    \A p \in Permits : p.action = "burn" => p.account \in Users
ASSUME NoneIsNoRwa == None \notin Rwa

FactoryType ==
    /\ admin \in Users \cup {None}
    /\ protocolFeeBps \in Nat
    /\ rwas \in [Rwas -> Rwa \cup {None}]
    /\ collected \in [Rwas -> Nat]
    /\ claimed \in [Rwas -> Nat]
    /\ rescued \in [Tokens -> Nat]
    /\ rescuedUsdc \in Nat

TypeOK ==
    /\ SequenceType /\ VerifierType /\ ComplianceType /\ TokenType
    /\ UsdcType /\ FactoryType

Init ==
    /\ SepInit
    /\ UsdcInit
    /\ admin = None
    /\ protocolFeeBps = 50
    /\ rwas = [r \in Rwas |-> None]
    /\ collected = [r \in Rwas |-> 0]
    /\ claimed = [r \in Rwas |-> 0]
    /\ rescued = [t \in Tokens |-> 0]
    /\ rescuedUsdc = 0

Offerings == {r \in Rwas : rwas[r] # None}
SharesAvailable(o) == o.shares_total - o.shares_bought
InvalidDeadline(deadline) == deadline < sequence

Initialize(caller, feeBps) ==
    /\ admin = None
    /\ feeBps >= 0 /\ feeBps <= BpsScale
    /\ admin' = caller
    /\ protocolFeeBps' = feeBps
    /\ UNCHANGED <<sepVars, usdcVars, rwas, historyVars>>

\* Mutant: a token that is already deployed is taken for the new offering, and
\* its deployment not repeated.
ReissueToken(t, raise, nonce, deadline) ==
    \/ t \in deployed /\ UNCHANGED <<complianceVars, tokenVars>>
    \/ /\ deployed' = deployed \cup {t}
       /\ complianceOperator = Factory /\ UNCHANGED complianceOperator
       /\ bound' = bound \cup {t}
       /\ maxBalance' = [maxBalance EXCEPT ![t] = I128Max]
       /\ UsePermit("mint", t, Factory, raise, nonce, deadline)
       /\ Verified(Factory)
       /\ balance' = [balance EXCEPT ![t][Factory] = @ + raise]
       /\ supply' = [supply EXCEPT ![t] = @ + raise]

\* The sep57 and compliance calls of create_rwa_token: deploy, initialize,
\* bind_token, set_max_balance and mint the whole raise to the factory.
IssueToken(t, raise, nonce, deadline) ==
    /\ t \notin deployed
    /\ deployed' = deployed \cup {t}
    /\ complianceOperator = Factory
    /\ bound' = bound \cup {t}
    /\ maxBalance' = [maxBalance EXCEPT ![t] = I128Max]
    /\ UNCHANGED complianceOperator
    /\ UsePermit("mint", t, Factory, raise, nonce, deadline)
    /\ Verified(Factory)
    /\ Fits(balance[t][Factory] + raise)
    /\ Fits(supply[t] + raise)
    /\ balance' = [balance EXCEPT ![t][Factory] = @ + raise]
    /\ supply' = [supply EXCEPT ![t] = @ + raise]

Upfront(raise, bps) == Fee(raise, bps) + Fee(raise, protocolFeeBps)

NewOffering(shipper, raise, bps, t) ==
    [token |-> t, shipper |-> shipper, interest_bps |-> bps,
     interest_pool |-> Fee(raise, bps),
     protocol_fee_pool |-> Fee(raise, protocolFeeBps),
     principal_pool |-> 0, shares_total |-> raise, shares_bought |-> 0,
     investors |-> [u \in Users |-> 0], status |-> "Open"]

CreateRwaToken(shipper, r, raise, bps, t, nonce, deadline) ==
    /\ admin # None
    /\ raise > 0
    /\ bps > 0 /\ bps <= MaxInterestBps
    /\ HasRole(shipper, "KYB")
    /\ ~InvalidDeadline(deadline)
    /\ rwas[r] = None
    /\ Fits(raise * bps) /\ Fits(raise * protocolFeeBps)
    /\ Fits(Upfront(raise, bps))
    /\ PullUsdc(shipper, Upfront(raise, bps))
    /\ rwas' = [rwas EXCEPT ![r] = NewOffering(shipper, raise, bps, t)]
    /\ IssueToken(t, raise, nonce, deadline)
    /\ UNCHANGED <<sequence, verifierVars, admin, protocolFeeBps, historyVars>>

\* Mutants: the investor's latest purchase replaces the earlier ones; the
\* status is taken before the sale; the sale is not counted.
BoughtLatest(o, investor, amount) ==
    [o EXCEPT !.shares_bought = @ + amount,
              !.investors[investor] = amount,
              !.status = IF SharesAvailable(o) - amount <= 0 THEN "Funded" ELSE @]
BoughtStaleStatus(o, investor, amount) ==
    [o EXCEPT !.shares_bought = @ + amount,
              !.investors[investor] = @ + amount,
              !.status = IF SharesAvailable(o) <= 0 THEN "Funded" ELSE @]
BoughtUncounted(o, investor, amount) ==
    [o EXCEPT !.investors[investor] = @ + amount]

\* The status is next_status, evaluated after shares_bought has grown.
Bought(o, investor, amount) ==
    [o EXCEPT !.shares_bought = @ + amount,
              !.investors[investor] = @ + amount,
              !.status = IF SharesAvailable(o) - amount <= 0 THEN "Funded" ELSE @]

BuyShares(investor, r, amount) ==
    /\ admin # None
    /\ amount > 0
    /\ HasRole(investor, "KYC")
    /\ rwas[r] # None
    /\ rwas[r].status = "Open"
    /\ SharesAvailable(rwas[r]) >= amount
    /\ PullUsdc(investor, amount)
    /\ TransferToken(rwas[r].token, Factory, investor, amount)
    /\ Fits(rwas[r].shares_bought + amount)
    /\ Fits(rwas[r].investors[investor] + amount)
    /\ rwas' = [rwas EXCEPT ![r] = Bought(@, investor, amount)]
    /\ UNCHANGED <<sequence, verifierVars, complianceVars, admin, protocolFeeBps,
                   historyVars>>

\* Pays the raise out and records nothing about having done so.
CollectFund(shipper, r) ==
    /\ admin # None
    /\ rwas[r] # None
    /\ rwas[r].shipper = shipper
    /\ SendUsdc(Factory, shipper, rwas[r].shares_bought)
    /\ collected' = [collected EXCEPT ![r] = @ + rwas[r].shares_bought]
    /\ UNCHANGED <<sepVars, factoryVars, claimed, rescued, rescuedUsdc>>

\* Settles from any status, with any positive amount.
Repaid(o, principal) ==
    [o EXCEPT !.principal_pool = @ + principal, !.status = "Settled"]

SettleDebt(shipper, r, principal) ==
    /\ admin # None
    /\ principal > 0
    /\ rwas[r] # None
    /\ rwas[r].shipper = shipper
    /\ PullUsdc(shipper, principal)
    /\ Fits(rwas[r].principal_pool + principal)
    /\ rwas' = [rwas EXCEPT ![r] = Repaid(@, principal)]
    /\ UNCHANGED <<sepVars, admin, protocolFeeBps, historyVars>>

\* Mutants: interest rounded up; the par paid without its interest.
InterestRoundedUp(o, amount) == (amount * o.interest_bps + BpsScale - 1) \div BpsScale
ParOnly(o, amount) == amount

Interest(o, amount) == Fee(amount, o.interest_bps)
Payout(o, amount)   == amount + Interest(o, amount)

\* Mutant: the interest is taken out of both pools.
RedeemedTwice(o, investor, amount) ==
    [o EXCEPT !.principal_pool = @ - Payout(o, amount),
              !.interest_pool = @ - Interest(o, amount),
              !.investors[investor] = @ - amount]

Redeemed(o, investor, amount) ==
    [o EXCEPT !.principal_pool = @ - amount,
              !.interest_pool = @ - Interest(o, amount),
              !.investors[investor] = @ - amount]

Claim(investor, r, amount, nonce, deadline) ==
    /\ admin # None
    /\ amount > 0
    /\ rwas[r] # None
    /\ rwas[r].status = "Settled"
    /\ ~InvalidDeadline(deadline)
    /\ rwas[r].investors[investor] >= amount
    /\ rwas[r].principal_pool >= amount
    /\ Fits(amount * rwas[r].interest_bps)
    /\ Burn(rwas[r].token, investor, amount, nonce, deadline)
    /\ Fits(Payout(rwas[r], amount))
    /\ SendUsdc(Factory, investor, Payout(rwas[r], amount))
    /\ rwas' = [rwas EXCEPT ![r] = Redeemed(@, investor, amount)]
    /\ claimed' = [claimed EXCEPT ![r] = @ + amount]
    /\ UNCHANGED <<sequence, verifierVars, complianceVars, admin, protocolFeeBps,
                   collected, rescued, rescuedUsdc>>

\* Mutant: the fee pool is paid out and not emptied.
WithdrawFeesAgain(caller, r) ==
    /\ caller = admin
    /\ rwas[r] # None
    /\ rwas[r].protocol_fee_pool > 0
    /\ SendUsdc(Factory, admin, rwas[r].protocol_fee_pool)
    /\ UNCHANGED <<sepVars, factoryVars, historyVars>>

WithdrawFees(caller, r) ==
    /\ caller = admin
    /\ rwas[r] # None
    /\ rwas[r].protocol_fee_pool > 0
    /\ SendUsdc(Factory, admin, rwas[r].protocol_fee_pool)
    /\ rwas' = [rwas EXCEPT ![r] = [@ EXCEPT !.protocol_fee_pool = 0]]
    /\ UNCHANGED <<sepVars, admin, protocolFeeBps, historyVars>>

\* emergency_withdraw on the payment token ...
EmergencyWithdrawUsdc(caller, amount) ==
    /\ caller = admin
    /\ amount > 0
    /\ SendUsdc(Factory, admin, amount)
    /\ rescuedUsdc' = rescuedUsdc + amount
    /\ UNCHANGED <<sepVars, factoryVars, collected, claimed, rescued>>

\* ... and on an RWA token.
EmergencyWithdrawToken(caller, t, amount) ==
    /\ caller = admin
    /\ amount > 0
    /\ TransferToken(t, Factory, admin, amount)
    /\ rescued' = [rescued EXCEPT ![t] = @ + amount]
    /\ UNCHANGED <<sequence, verifierVars, complianceVars, usdcVars, factoryVars,
                   collected, claimed, rescuedUsdc>>
-----------------------------------------------------------------------------
FactoryStep ==
    \/ Initialize(FactoryAdmin, ProtocolFeeBps)
    \/ \E shipper \in Users, r \in Rwas, raise \in RaiseAmounts, bps \in InterestBps,
          p \in Permits :
          CreateRwaToken(shipper, r, raise, bps, p.token, p.nonce, p.deadline)
    \/ \E investor \in Users, r \in Rwas, amount \in BuyAmounts :
          BuyShares(investor, r, amount)
    \/ \E shipper \in Users, r \in Rwas :
          /\ CollectFund(shipper, r)
          /\ collected'[r] <= MaxCollected
    \/ \E shipper \in Users, r \in Rwas, principal \in SettleAmounts :
          /\ SettleDebt(shipper, r, principal)
          /\ rwas'[r].principal_pool + claimed[r] <= MaxPrincipal
    \/ \E p \in Permits, r \in Rwas :
          /\ p.account \in Users
          /\ Claim(p.account, r, p.amount, p.nonce, p.deadline)
    \/ \E caller \in Users, r \in Rwas : WithdrawFees(caller, r)
    \/ \E caller \in Users, amount \in EmergencyAmounts :
          \/ /\ EmergencyWithdrawUsdc(caller, amount)
             /\ rescuedUsdc' <= MaxRescued
          \/ \E t \in Tokens :
                /\ EmergencyWithdrawToken(caller, t, amount)
                /\ rescued'[t] <= MaxRescued

\* What the other contracts do when someone calls them directly.  The
\* factory contract is the compliance operator, and it only ever binds a
\* token and lifts its cap, inside create_rwa_token.
DirectStep ==
    \/ CloseLedger /\ UNCHANGED <<verifierVars, complianceVars, tokenVars, usdcVars>>
    \/ VerifierNext /\ UNCHANGED <<sequence, complianceVars, tokenVars, usdcVars>>
    \/ /\ InitializeCompliance(Factory)
       /\ UNCHANGED <<sequence, verifierVars, tokenVars, usdcVars>>
    \/ /\ DirectTransfer \/ RelayPermit
       /\ UNCHANGED <<sequence, verifierVars, complianceVars, usdcVars>>
    \/ UsdcNext /\ UNCHANGED sepVars

Next ==
    \/ FactoryStep
    \/ DirectStep /\ UNCHANGED <<factoryVars, historyVars>>

Spec == Init /\ [][Next]_vars
-----------------------------------------------------------------------------
(* Safety *)

Outstanding(r) == rwas[r].shares_total - claimed[r]

\* Per offering, what its investors are recorded to hold and what they have
\* redeemed add up to what was sold, and no more than the raise was sold:
\* buy_shares and claim keep the investors map, shares_bought and the raise
\* in step across any mix of investors and partial claims.
SharesConserved ==
    \A r \in Offerings :
        /\ Total(rwas[r].investors) + claimed[r] = rwas[r].shares_bought
        /\ rwas[r].shares_bought <= rwas[r].shares_total

\* The prepaid interest always covers the interest on every share not yet
\* redeemed, however the claims are split and rounded: claim's unchecked
\* interest_pool -= interest never goes below zero.
InterestCovered ==
    \A r \in Offerings :
        rwas[r].interest_pool >= Fee(Outstanding(r), rwas[r].interest_bps)

PoolsOf(r) ==
    IF rwas[r] = None THEN 0
    ELSE rwas[r].interest_pool + rwas[r].protocol_fee_pool + rwas[r].principal_pool
RaisedBy(r) == IF rwas[r] = None THEN 0 ELSE rwas[r].shares_bought

Pools  == Total([r \in Rwas |-> PoolsOf(r)])
Raised == Total([r \in Rwas |-> RaisedBy(r)])

\* Every USDC the factory took in is still there, was paid to a shipper by
\* collect_fund, or was taken by the emergency hatch: pools and raises of all
\* offerings together account for the one pooled balance.
EscrowAccounted ==
    usdc[Factory] + Total(collected) + rescuedUsdc >= Pools + Raised

\* The factory holds the tokens of every share still on sale, emergency
\* withdrawals aside: buy_shares never fails for want of tokens.
UnsoldSharesHeld ==
    \A r \in Offerings :
        balance[rwas[r].token][Factory] + rescued[rwas[r].token]
            >= SharesAvailable(rwas[r])

\* Distinct offerings have distinct tokens, each deployed and bound with the
\* cap lifted: create_rwa_token keeps the id -> offering map one-to-one.
OneTokenPerOffering ==
    /\ \A r \in Offerings :
          /\ rwas[r].token \in deployed \cap bound
          /\ maxBalance[rwas[r].token] = I128Max
    /\ \A r, s \in Offerings : rwas[r].token = rwas[s].token => r = s

\* The escrow is for the payouts: a step that shrinks an offering's principal
\* pool burns as many of its tokens, and pays their par and interest to the
\* one investor whose recorded shares shrink.
PrincipalLeavesByRedemption ==
    [][\A r \in Offerings :
          LET paid == rwas[r].principal_pool - rwas'[r].principal_pool
          IN  paid > 0 =>
                \E i \in Users :
                    /\ rwas[r].investors[i] - rwas'[r].investors[i] = paid
                    /\ supply'[rwas[r].token] = supply[rwas[r].token] - paid
                    /\ usdc'[i] = usdc[i] + paid + Fee(paid, rwas[r].interest_bps)]_vars

\* README.md:90 "holds all USDC + RWA tokens in escrow": the pooled balance
\* covers the pools unless the admin used the hatch.  collect_fund does not
\* keep it so: it pays the same raise out as often as it is called.
EscrowCoversPools == rescuedUsdc = 0 => usdc[Factory] >= Pools

\* lib.rs:311 "Confirm the investor actually holds the claimed allocation":
\* a recorded allocation is backed by tokens in the investor's account.  The
\* check reads the factory's own map, which a direct transfer of the tokens
\* leaves as it was.
AllocationsHeld ==
    \A r \in Offerings, i \in Users :
        rwas[r].investors[i] <= balance[rwas[r].token][i]
=============================================================================
