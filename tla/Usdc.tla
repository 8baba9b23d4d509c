--------------------------------- MODULE Usdc ---------------------------------
(***************************************************************************)
(* The payment token as the factory uses it: SEP-41 balances, and the      *)
(* allowance each user gives the one spender there is, the factory.  The   *)
(* definitions follow the MockToken the contract tests run against; the    *)
(* deployed USDC is a Stellar asset contract with the same interface.      *)
(***************************************************************************)
EXTENDS Soroban

CONSTANTS
    InitialUsdc,     \* what each user holds at the start
    Approvals,       \* bound: the approve calls users make
    Payments         \* bound: the direct payments users make

ASSUME InitialUsdcType == InitialUsdc \in [Users -> Nat]
ASSUME ApprovalsType ==
    Approvals \subseteq [from : Users, amount : Nat, until : Nat]
ASSUME PaymentsType ==
    /\ Payments \subseteq [from : Users, to : Addresses, amount : Nat]
    /\ \A p \in Payments : p.from # p.to

VARIABLES
    usdc,       \* balances
    allowance   \* (from, factory) |-> (amount, live_until_ledger)

usdcVars == <<usdc, allowance>>

UsdcType ==
    /\ usdc \in [Addresses -> Nat]
    /\ allowance \in [Users -> [amount : Nat, until : Nat]]

UsdcInit ==
    /\ usdc = [a \in Addresses |-> IF a = Factory THEN 0 ELSE InitialUsdc[a]]
    /\ allowance = [u \in Users |-> [amount |-> 0, until |-> 0]]

\* An approval replaces the one before it.
Approve(from, amount, until) ==
    /\ amount > 0 => until >= sequence
    /\ allowance' = [allowance EXCEPT ![from] = [amount |-> amount, until |-> until]]
    /\ UNCHANGED usdc

\* spend_allowance: live_until 0 never expires (it is the unset entry's).
Allowed(from, amount) ==
    /\ allowance[from].until # 0 => allowance[from].until >= sequence
    /\ allowance[from].amount >= amount

Paid(from, to, amount) ==
    [usdc EXCEPT ![from] = usdc[from] - amount, ![to] = usdc[to] + amount]

\* transfer_from(factory, from, factory, amount)
PullUsdc(from, amount) ==
    /\ Allowed(from, amount)
    /\ usdc[from] >= amount
    /\ usdc' = Paid(from, Factory, amount)
    /\ allowance' = [allowance EXCEPT ![from].amount = @ - amount]

\* transfer(from, to, amount)
SendUsdc(from, to, amount) ==
    /\ usdc[from] >= amount
    /\ usdc' = Paid(from, to, amount)
    /\ UNCHANGED allowance

UsdcNext ==
    \/ \E a \in Approvals : Approve(a.from, a.amount, a.until)
    \/ \E p \in Payments : SendUsdc(p.from, p.to, p.amount)
=============================================================================
