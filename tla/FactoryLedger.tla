---------------------------- MODULE FactoryLedger ----------------------------
(* The factory contract implements OfferingLedger.                           *)
EXTENDS Factory

\* What the ledger keeps of an offering.
Recorded(o) ==
    [shipper |-> o.shipper, rate |-> o.interest_bps, total |-> o.shares_total,
     sold |-> o.shares_bought, held |-> o.investors, principal |-> o.principal_pool,
     status |-> o.status]

LedgerRecord == [shipper : Users, rate : Nat, total : Nat, sold : Nat,
                 held : [Users -> Nat], principal : Nat, status : Statuses]

\* An absent offering is no record.
ASSUME NoneIsNoRecord == None \notin LedgerRecord

Ledger == INSTANCE OfferingLedger WITH
    offering <- [r \in Rwas |-> IF rwas[r] = None THEN None ELSE Recorded(rwas[r])],
    vault <- usdc[Factory],
    purse <- [u \in Users |-> usdc[u]]

\* Every invocation, of the factory or of a contract beside it, is a step of the
\* ledger or leaves it alone: nothing sells, pays out, repays or redeems by
\* another road, each moves exactly its money between the pooled balance and the
\* one user it concerns, and what leaves it otherwise goes to the admin.
ImplementsLedger == Ledger!LedgerSpec
=============================================================================
