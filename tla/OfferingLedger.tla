--------------------------- MODULE OfferingLedger ---------------------------
(***************************************************************************)
(* What the factory promises about an offering and its money, whatever the *)
(* token, identity, compliance and payment contracts do: how many shares   *)
(* are sold and to whom, what is repaid and redeemed, and what every such  *)
(* step moves in or out of the one balance all offerings share.            *)
(*                                                                         *)
(* Factory implements this specification (FactoryLedger); OfferingPage     *)
(* runs on it.                                                             *)
(***************************************************************************)
EXTENDS Amounts

CONSTANTS
    Users,
    FactoryAdmin,
    Rwas,           \* ids of offerings
    None,
    RaiseAmounts,   \* bound
    InterestBps,    \* bound
    SettleAmounts   \* bound

VARIABLES
    offering,   \* what is recorded of each offering, or None
    vault,      \* the USDC the factory holds
    purse       \* the USDC each user holds

ledgerVars == <<offering, vault, purse>>

SharesLeft(o) == o.total - o.sold
Due(o, amount) == amount + Fee(amount, o.rate)

LedgerInit == offering = [r \in Rwas |-> None] /\ vault = 0

TakeIn(user, amount) ==
    /\ amount <= purse[user]
    /\ vault' = vault + amount
    /\ purse' = [purse EXCEPT ![user] = @ - amount]

GiveOut(user, amount) ==
    /\ amount <= vault
    /\ vault' = vault - amount
    /\ purse' = [purse EXCEPT ![user] = @ + amount]

\* The shipper prepays the interest, and perhaps a fee on top of it.
Issue(r, shipper, raise, rate, upfront) ==
    /\ offering[r] = None
    /\ upfront >= Fee(raise, rate)
    /\ TakeIn(shipper, upfront)
    /\ offering' = [offering EXCEPT ![r] =
          [shipper |-> shipper, rate |-> rate, total |-> raise, sold |-> 0,
           held |-> [u \in Users |-> 0], principal |-> 0, status |-> "Open"]]

CanSell(r, amount) ==
    /\ offering[r].status = "Open"
    /\ amount > 0 /\ amount <= SharesLeft(offering[r])

Sell(r, investor, amount) ==
    /\ CanSell(r, amount)
    /\ TakeIn(investor, amount)
    /\ offering' = [offering EXCEPT
          ![r].sold = @ + amount, ![r].held[investor] = @ + amount,
          ![r].status = IF amount = SharesLeft(offering[r]) THEN "Funded" ELSE @]

\* What was raised, whatever was paid out before.
PayOut(r) ==
    /\ GiveOut(offering[r].shipper, offering[r].sold)
    /\ UNCHANGED offering

Repay(r, principal) ==
    /\ principal > 0
    /\ TakeIn(offering[r].shipper, principal)
    /\ offering' = [offering EXCEPT ![r].principal = @ + principal,
                                    ![r].status = "Settled"]

CanRedeem(r, investor, amount) ==
    /\ offering[r].status = "Settled"
    /\ amount > 0
    /\ amount <= offering[r].held[investor] /\ amount <= offering[r].principal

Redeem(r, investor, amount) ==
    /\ CanRedeem(r, investor, amount)
    /\ GiveOut(investor, Due(offering[r], amount))
    /\ offering' = [offering EXCEPT ![r].held[investor] = @ - amount,
                                    ![r].principal = @ - amount]

\* Whatever else leaves the vault goes to the admin.
Elsewhere ==
    /\ UNCHANGED offering
    /\ vault' >= vault \/ GiveOut(FactoryAdmin, vault - vault')

LedgerNext ==
    \/ Elsewhere
    \/ \E r \in Rwas :
        \/ \E shipper \in Users, raise \in RaiseAmounts, rate \in InterestBps :
              \E upfront \in 0..purse[shipper] : Issue(r, shipper, raise, rate, upfront)
        \/ /\ offering[r] # None
           /\ \/ PayOut(r)
              \/ \E principal \in SettleAmounts : Repay(r, principal)
              \/ \E i \in Users :
                    \/ \E amount \in 1..SharesLeft(offering[r]) : Sell(r, i, amount)
                    \/ \E amount \in 1..offering[r].held[i] : Redeem(r, i, amount)

LedgerSpec == LedgerInit /\ [][LedgerNext]_ledgerVars
=============================================================================
