------------------------------- MODULE Soroban -------------------------------
(***************************************************************************)
(* What every contract of the workspace takes from the Soroban host: the   *)
(* addresses, the width of an i128 and the ledger sequence number that     *)
(* permits and allowances expire against.  A contract invocation is one    *)
(* atomic step: a panic anywhere in it, or in a contract it calls, reverts *)
(* everything, so a call that panics is an action that is not enabled.     *)
(***************************************************************************)
EXTENDS Integers, FiniteSets

CONSTANTS
    Users,        \* accounts: shippers, investors, the admin
    Factory,      \* the address of the factory contract
    None,         \* an absent storage entry
    I128Max,      \* the largest i128
    MaxSequence   \* bound: the last ledger a run reaches

ASSUME FactoryIsNoUser == Factory \notin Users /\ None \notin Users \cup {Factory}
ASSUME UsersFinite == IsFiniteSet(Users)
ASSUME I128MaxType == I128Max \in Nat
ASSUME MaxSequenceType == MaxSequence \in Nat \ {0}

Addresses == Users \cup {Factory}

VARIABLE sequence   \* env.ledger().sequence()

SequenceType == sequence \in 1..MaxSequence
SequenceInit == sequence = 1

\* The network closes a ledger.
CloseLedger ==
    /\ sequence < MaxSequence
    /\ sequence' = sequence + 1

\* checked_add, and every other i128 operation under overflow-checks = true.
Fits(x) == x <= I128Max
=============================================================================
