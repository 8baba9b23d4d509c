------------------------------ MODULE Compliance ------------------------------
(***************************************************************************)
(* contract/contracts/compliance: the rules engine the RWA tokens call on  *)
(* every mint, transfer and burn.  It keeps which tokens are bound and a   *)
(* maximum balance per token (0 until one is set).                         *)
(***************************************************************************)
EXTENDS Soroban

CONSTANTS
    Tokens,      \* the addresses sep57 tokens are deployed at
    MaxBalances  \* bound: the caps the operator sets

ASSUME MaxBalancesType == MaxBalances \subseteq Nat

VARIABLES
    complianceOperator,  \* DataKey::Operator, None until initialize
    bound,               \* the tokens whose BoundToken entry is true
    maxBalance           \* DataKey::MaxBalance, 0 when unset

complianceVars == <<complianceOperator, bound, maxBalance>>

ComplianceType ==
    /\ complianceOperator \in Addresses \cup {None}
    /\ bound \subseteq Tokens
    /\ maxBalance \in [Tokens -> Nat]

ComplianceInit ==
    /\ complianceOperator = None
    /\ bound = {}
    /\ maxBalance = [t \in Tokens |-> 0]

\* initialize asks for nobody's authorization: whoever calls first decides.
InitializeCompliance(operator) ==
    /\ complianceOperator = None
    /\ complianceOperator' = operator
    /\ UNCHANGED <<bound, maxBalance>>

BindToken(operator, t) ==
    /\ operator = complianceOperator
    /\ bound' = bound \cup {t}
    /\ UNCHANGED <<complianceOperator, maxBalance>>

UnbindToken(operator, t) ==
    /\ operator = complianceOperator
    /\ bound' = bound \ {t}
    /\ UNCHANGED <<complianceOperator, maxBalance>>

SetMaxBalance(operator, t, max) ==
    /\ operator = complianceOperator
    /\ t \in bound
    /\ max > 0
    /\ maxBalance' = [maxBalance EXCEPT ![t] = max]
    /\ UNCHANGED <<complianceOperator, bound>>

\* Mutant: the cap is compared with the balance before the transfer.
ReceivedBelowCap(t, balance, amount) ==
    /\ t \in bound
    /\ amount > 0
    /\ balance <= maxBalance[t]

\* The hook of a mint or a transfer: to held balance before it.
Received(t, balance, amount) ==
    /\ t \in bound
    /\ amount > 0
    /\ balance + amount <= maxBalance[t]

\* The hook of a burn.
Destroyed(t, amount) ==
    /\ t \in bound
    /\ amount > 0

ComplianceNext ==
    \/ \E operator \in Addresses : InitializeCompliance(operator)
    \/ \E operator \in Users, t \in Tokens :
          \/ BindToken(operator, t)
          \/ UnbindToken(operator, t)
          \/ \E max \in MaxBalances : SetMaxBalance(operator, t, max)
=============================================================================
