-------------------------------- MODULE Sep57 --------------------------------
(***************************************************************************)
(* contract/contracts/sep57: the permissioned RWA token, one instance per  *)
(* offering.  Mint and burn are relayed with a permit the admin signer     *)
(* signed off-chain; each permit names a nonce the token uses once.        *)
(*                                                                         *)
(* Permits is the set of every permit the signer ever signs.  When it      *)
(* signs one makes no difference to the token, which only checks the       *)
(* signature, so the set is a constant of the specification.               *)
(***************************************************************************)
EXTENDS IdentityVerifier, Compliance, Amounts

CONSTANTS
    Nonces,           \* u64 nonces
    Permits,          \* what admin_signer signs
    TransferAmounts,  \* bound: amounts holders transfer directly
    MaxHeld           \* bound: what a direct transfer leaves the receiver with

PermitActions == {"mint", "burn"}
Permit == [action : PermitActions, token : Tokens, account : Addresses,
           amount : Nat, nonce : Nonces, deadline : Nat]

ASSUME PermitsType == Permits \subseteq Permit
ASSUME TransferAmountsType == TransferAmounts \subseteq Nat /\ MaxHeld \in Nat

VARIABLES
    deployed,     \* the tokens deployed and initialized
    balance,      \* DataKey::Balance of every token
    supply,       \* DataKey::TotalSupply; an i128, so it may be negative
    usedNonces    \* DataKey::Nonce

tokenVars == <<deployed, balance, supply, usedNonces>>

TokenType ==
    /\ deployed \subseteq Tokens
    /\ balance \in [Tokens -> [Addresses -> Nat]]
    /\ supply \in [Tokens -> Int]
    /\ usedNonces \in [Tokens -> SUBSET Nonces]

TokenInit ==
    /\ deployed = {}
    /\ balance = [t \in Tokens |-> [a \in Addresses |-> 0]]
    /\ supply = [t \in Tokens |-> 0]
    /\ usedNonces = [t \in Tokens |-> {}]

PermitExpired(deadline) == sequence >= deadline

\* Mutant: the nonce is checked but never stored.
ReplayablePermit(action, t, account, amount, nonce, deadline) ==
    /\ ~PermitExpired(deadline)
    /\ nonce \notin usedNonces[t]
    /\ [action |-> action, token |-> t, account |-> account, amount |-> amount,
        nonce |-> nonce, deadline |-> deadline] \in Permits
    /\ UNCHANGED usedNonces

\* require_admin_permit
UsePermit(action, t, account, amount, nonce, deadline) ==
    /\ ~PermitExpired(deadline)
    /\ nonce \notin usedNonces[t]
    /\ [action |-> action, token |-> t, account |-> account, amount |-> amount,
        nonce |-> nonce, deadline |-> deadline] \in Permits
    /\ usedNonces' = [usedNonces EXCEPT ![t] = @ \cup {nonce}]

InitializeToken(t) ==
    /\ t \notin deployed
    /\ deployed' = deployed \cup {t}
    /\ UNCHANGED <<balance, supply, usedNonces>>

Mint(t, to, amount, nonce, deadline) ==
    /\ t \in deployed
    /\ amount > 0
    /\ UsePermit("mint", t, to, amount, nonce, deadline)
    /\ Verified(to)
    /\ Fits(balance[t][to] + amount)
    /\ Fits(supply[t] + amount)
    /\ Received(t, balance[t][to], amount)
    /\ balance' = [balance EXCEPT ![t][to] = @ + amount]
    /\ supply' = [supply EXCEPT ![t] = @ + amount]
    /\ UNCHANGED deployed

\* Mutant: the two writes the other way round.
MovedDebitLast(held, from, to, amount) ==
    [held EXCEPT ![to] = held[to] + amount, ![from] = held[from] - amount]

\* Both balances are read before either is written, so a transfer to oneself
\* leaves the second write: the old balance plus the amount.
Moved(held, from, to, amount) ==
    [held EXCEPT ![from] = held[from] - amount, ![to] = held[to] + amount]

TransferToken(t, from, to, amount) ==
    /\ t \in deployed
    /\ amount > 0
    /\ Verified(from)
    /\ Verified(to)
    /\ balance[t][from] >= amount
    /\ Fits(balance[t][to] + amount)
    /\ Received(t, balance[t][to], amount)
    /\ balance' = [balance EXCEPT ![t] = Moved(@, from, to, amount)]
    /\ UNCHANGED <<deployed, supply, usedNonces>>

\* burn looks at no identity.
Burn(t, from, amount, nonce, deadline) ==
    /\ t \in deployed
    /\ amount > 0
    /\ UsePermit("burn", t, from, amount, nonce, deadline)
    /\ balance[t][from] >= amount
    /\ Destroyed(t, amount)
    /\ balance' = [balance EXCEPT ![t][from] = @ - amount]
    /\ supply' = [supply EXCEPT ![t] = @ - amount]
    /\ UNCHANGED deployed

\* The calls anyone may make directly on a token: a holder's own transfer,
\* and relaying a signed permit.
DirectTransfer ==
    \E t \in Tokens, from \in Users, to \in Addresses, amount \in TransferAmounts :
        /\ TransferToken(t, from, to, amount)
        /\ balance[t][to] + amount <= MaxHeld
RelayPermit ==
    \E p \in Permits :
        \/ p.action = "mint" /\ Mint(p.token, p.account, p.amount, p.nonce, p.deadline)
        \/ p.action = "burn" /\ Burn(p.token, p.account, p.amount, p.nonce, p.deadline)
-----------------------------------------------------------------------------
(* A token on its own: an operator account runs the compliance engine.     *)

sepVars == <<sequence, verifierVars, complianceVars, tokenVars>>

SepInit == SequenceInit /\ VerifierInit /\ ComplianceInit /\ TokenInit

SepNext ==
    \/ CloseLedger /\ UNCHANGED <<verifierVars, complianceVars, tokenVars>>
    \/ VerifierNext /\ UNCHANGED <<sequence, complianceVars, tokenVars>>
    \/ ComplianceNext /\ UNCHANGED <<sequence, verifierVars, tokenVars>>
    \/ /\ \/ \E t \in Tokens : InitializeToken(t)
          \/ DirectTransfer
          \/ RelayPermit
       /\ UNCHANGED <<sequence, verifierVars, complianceVars>>

SepSpec == SepInit /\ [][SepNext]_sepVars

\* The balances of a token add up to at least its total supply: no interleaving
\* of mints, transfers and burns loses a token that the supply still counts.
BalancesCoverSupply == \A t \in Tokens : supply[t] <= Total(balance[t])

\* README.md:8 "Every token is a permissioned [...] asset backed 1:1": no more
\* tokens are held than permits minted and did not burn.  A transfer to
\* oneself writes the stale balance read for the receiving side.
EveryTokenBacked == \A t \in Tokens : Total(balance[t]) <= supply[t]

\* README.md:9-11 "Transfers to unverified wallets revert ... per-token balance
\* caps on every hop": a balance only grows into a verified account of a
\* bound token, and never past the cap.
ReceiptsAreChecked ==
    [][\A t \in Tokens, a \in Addresses :
          balance'[t][a] > balance[t][a] =>
              /\ Verified(a)
              /\ t \in bound
              /\ balance'[t][a] <= maxBalance[t]]_sepVars

\* README.md:10 "Mint and burn require signed admin permits": the supply moves
\* only by a permit that has not expired, whose nonce the token spends in the
\* same step, and the permit's account is the one whose balance moves.  No
\* other step spends or forgets a nonce.
SupplyMovesByPermit ==
    [][\A t \in Tokens :
        IF supply'[t] = supply[t] THEN usedNonces'[t] = usedNonces[t]
        ELSE \E p \in Permits :
              /\ p.token = t
              /\ sequence < p.deadline
              /\ p.nonce \notin usedNonces[t]
              /\ usedNonces'[t] = usedNonces[t] \cup {p.nonce}
              /\ LET d == IF p.action = "mint" THEN p.amount ELSE 0 - p.amount
                 IN  /\ supply'[t] = supply[t] + d
                     /\ balance'[t] = [balance[t] EXCEPT ![p.account] = @ + d]]_sepVars
=============================================================================
