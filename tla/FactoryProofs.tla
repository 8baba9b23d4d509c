---------------------------- MODULE FactoryProofs ----------------------------
(***************************************************************************)
(* The contracts, for any users, offerings, tokens, permits, inputs and    *)
(* bounds.  Four parts, each resting on the one before: the token alone;   *)
(* the types and the pools of the factory; custody; and the refinement.    *)
(***************************************************************************)
EXTENDS FactoryLedger, AmountsProofs
-----------------------------------------------------------------------------
(***************************************************************************)
(* 1. The permissioned token on its own: no token is lost that the supply  *)
(* counts, no balance grows unchecked, and no supply moves without a permit*)
(* that is spent in the same step.                                         *)
(***************************************************************************)

SepType == SequenceType /\ VerifierType /\ ComplianceType /\ TokenType
-----------------------------------------------------------------------------
(* What each call does to the types of the token state. *)

\* A change of one account's balance of one token.
LEMMA BalanceType ==
    ASSUME balance \in [Tokens -> [Addresses -> Nat]],
           NEW t \in Tokens, NEW a \in Addresses, NEW n \in Nat
    PROVE  [balance EXCEPT ![t][a] = n] \in [Tokens -> [Addresses -> Nat]]
<1>1. [balance[t] EXCEPT ![a] = n] \in [Addresses -> Nat]
  OBVIOUS
<1> QED BY <1>1

\* A permit that is spent is one the admin signed, with its types; the nonces
\* stay typed.
LEMMA UsePermitType ==
    ASSUME TokenType, NEW action, NEW t \in Tokens, NEW account, NEW amount,
           NEW nonce, NEW deadline,
           UsePermit(action, t, account, amount, nonce, deadline)
    PROVE  /\ usedNonces' \in [Tokens -> SUBSET Nonces]
           /\ [action |-> action, token |-> t, account |-> account, amount |-> amount,
               nonce |-> nonce, deadline |-> deadline] \in Permits
           /\ account \in Addresses /\ amount \in Nat /\ nonce \in Nonces
<1> DEFINE p == [action |-> action, token |-> t, account |-> account,
                 amount |-> amount, nonce |-> nonce, deadline |-> deadline]
<1>1. p \in Permits /\ p \in Permit
  BY PermitsType DEF UsePermit
<1>2. account \in Addresses /\ amount \in Nat /\ nonce \in Nonces
  BY <1>1 DEF Permit
<1> QED BY <1>1, <1>2 DEF UsePermit, TokenType

\* A mint keeps the type of the token state.
LEMMA MintType ==
    ASSUME TokenType, NEW t \in Tokens, NEW to, NEW amount, NEW nonce, NEW deadline,
           Mint(t, to, amount, nonce, deadline)
    PROVE  TokenType'
<1>1. UsePermit("mint", t, to, amount, nonce, deadline)
  BY DEF Mint
<1>2. /\ usedNonces' \in [Tokens -> SUBSET Nonces]
      /\ to \in Addresses /\ amount \in Nat
  BY <1>1, UsePermitType
<1>3. /\ balance' = [balance EXCEPT ![t][to] = @ + amount]
      /\ supply' = [supply EXCEPT ![t] = @ + amount]
      /\ deployed' = deployed
  BY DEF Mint
<1>4. balance' \in [Tokens -> [Addresses -> Nat]]
  <2>1. balance[t][to] + amount \in Nat
    BY <1>2 DEF TokenType
  <2> QED BY <1>2, <1>3, <2>1, BalanceType DEF TokenType
<1>5. supply' \in [Tokens -> Int]
  BY <1>2, <1>3 DEF TokenType
<1> QED BY <1>2, <1>3, <1>4, <1>5 DEF TokenType

\* A burn keeps the type of the token state: it asks for the balance it debits.
LEMMA BurnType ==
    ASSUME TokenType, NEW t \in Tokens, NEW from, NEW amount, NEW nonce, NEW deadline,
           Burn(t, from, amount, nonce, deadline)
    PROVE  TokenType'
<1>1. UsePermit("burn", t, from, amount, nonce, deadline)
  BY DEF Burn
<1>2. /\ usedNonces' \in [Tokens -> SUBSET Nonces]
      /\ from \in Addresses /\ amount \in Nat
  BY <1>1, UsePermitType
<1>3. /\ balance' = [balance EXCEPT ![t][from] = @ - amount]
      /\ balance[t][from] >= amount
      /\ supply' = [supply EXCEPT ![t] = @ - amount]
      /\ deployed' = deployed
  BY DEF Burn
<1>4. balance' \in [Tokens -> [Addresses -> Nat]]
  <2>1. balance[t][from] - amount \in Nat
    BY <1>2, <1>3 DEF TokenType
  <2> QED BY <1>2, <1>3, <2>1, BalanceType DEF TokenType
<1>5. supply' \in [Tokens -> Int]
  BY <1>2, <1>3 DEF TokenType
<1> QED BY <1>2, <1>3, <1>4, <1>5 DEF TokenType

\* A transfer keeps the type of the token state.
LEMMA TransferTokenType ==
    ASSUME TokenType, NEW t \in Tokens, NEW from \in Addresses, NEW to \in Addresses,
           NEW amount \in Int, TransferToken(t, from, to, amount)
    PROVE  TokenType'
<1>1. Moved(balance[t], from, to, amount) \in [Addresses -> Nat]
  BY DEF TransferToken, TokenType, Moved
<1> QED BY <1>1 DEF TransferToken, TokenType

\* Direct calls of the tokens keep the type of their state.
LEMMA TokenCallsType ==
    ASSUME TokenType, DirectTransfer \/ RelayPermit
    PROVE  TokenType'
<1>1. CASE DirectTransfer
  <2>1. PICK t \in Tokens, from \in Users, to \in Addresses, amount \in TransferAmounts :
          TransferToken(t, from, to, amount)
    BY <1>1 DEF DirectTransfer
  <2>2. from \in Addresses /\ amount \in Int
    BY TransferAmountsType DEF Addresses
  <2> QED BY <2>1, <2>2, TransferTokenType
<1>2. CASE RelayPermit
  <2>1. PICK p \in Permits :
          \/ Mint(p.token, p.account, p.amount, p.nonce, p.deadline)
          \/ Burn(p.token, p.account, p.amount, p.nonce, p.deadline)
    BY <1>2 DEF RelayPermit
  <2>2. p.token \in Tokens
    BY PermitsType DEF Permit
  <2> QED BY <2>1, <2>2, MintType, BurnType
<1> QED BY <1>1, <1>2

\* set_identity and initialize keep the type of the registry.
LEMMA VerifierCallsType ==
    ASSUME VerifierType, VerifierNext
    PROVE  VerifierType'
<1>1. ASSUME NEW a \in Users, InitializeVerifier(a) PROVE VerifierType'
  BY <1>1 DEF VerifierType, InitializeVerifier
<1>2. ASSUME NEW operator \in Users, NEW c \in IdentityCalls,
             SetIdentity(operator, c.user, c.verified, c.role)
      PROVE  VerifierType'
  BY <1>2, IdentityCallsType DEF VerifierType, SetIdentity, Identity
<1> QED BY <1>1, <1>2 DEF VerifierNext

\* The compliance engine's own entry points keep the type of its state.
LEMMA ComplianceCallsType ==
    ASSUME ComplianceType, ComplianceNext
    PROVE  ComplianceType'
<1>1. ASSUME NEW operator \in Addresses, InitializeCompliance(operator)
      PROVE  ComplianceType'
  BY <1>1 DEF ComplianceType, InitializeCompliance
<1>2. ASSUME NEW operator \in Users, NEW t \in Tokens,
             \/ BindToken(operator, t)
             \/ UnbindToken(operator, t)
             \/ \E max \in MaxBalances : SetMaxBalance(operator, t, max)
      PROVE  ComplianceType'
  BY <1>2, MaxBalancesType
     DEF ComplianceType, BindToken, UnbindToken, SetMaxBalance
<1> QED BY <1>1, <1>2 DEF ComplianceNext

\* Every step of a token, its registry and its engine keeps the types.
LEMMA SepTypeKept ==
    ASSUME SepType, [SepNext]_sepVars
    PROVE  SepType'
<1> USE DEF SepType
<1>1. CASE CloseLedger /\ UNCHANGED <<verifierVars, complianceVars, tokenVars>>
  BY <1>1, MaxSequenceType DEF CloseLedger, SequenceType, VerifierType,
     ComplianceType, TokenType, verifierVars, complianceVars, tokenVars
<1>2. CASE VerifierNext /\ UNCHANGED <<sequence, complianceVars, tokenVars>>
  BY <1>2, VerifierCallsType
     DEF SequenceType, ComplianceType, TokenType, complianceVars, tokenVars
<1>3. CASE ComplianceNext /\ UNCHANGED <<sequence, verifierVars, tokenVars>>
  BY <1>3, ComplianceCallsType
     DEF SequenceType, VerifierType, TokenType, verifierVars, tokenVars
<1>4. ASSUME NEW t \in Tokens, InitializeToken(t),
             UNCHANGED <<sequence, verifierVars, complianceVars>>
      PROVE  SepType'
  BY <1>4 DEF InitializeToken, SequenceType, VerifierType, ComplianceType, TokenType,
     verifierVars, complianceVars
<1>5. CASE /\ DirectTransfer \/ RelayPermit
           /\ UNCHANGED <<sequence, verifierVars, complianceVars>>
  BY <1>5, TokenCallsType
     DEF SequenceType, VerifierType, ComplianceType, verifierVars, complianceVars
<1>6. CASE UNCHANGED sepVars
  BY <1>6 DEF sepVars, SequenceType, VerifierType, ComplianceType, TokenType,
     verifierVars, complianceVars, tokenVars
<1> QED BY <1>1, <1>2, <1>3, <1>4, <1>5, <1>6 DEF SepNext
-----------------------------------------------------------------------------
(* Sums of balances. *)

\* The accounts are the finitely many users and the factory.
LEMMA AddressesFinite == IsFiniteSet(Addresses)
BY UsersFinite, FS_AddElement DEF Addresses

\* A transfer between two accounts keeps the sum of the balances; one to
\* oneself, whose second write keeps the balance read before the first, adds to
\* it.
LEMMA MovedTotal ==
    ASSUME NEW held \in [Addresses -> Nat], NEW from \in Addresses,
           NEW to \in Addresses, NEW amount \in Nat, held[from] >= amount
    PROVE  /\ Moved(held, from, to, amount) \in [Addresses -> Nat]
           /\ Total(held) <= Total(Moved(held, from, to, amount))
           /\ from # to => Total(Moved(held, from, to, amount)) = Total(held)
<1> DEFINE less == [held EXCEPT ![from] = held[from] - amount]
           more == [less EXCEPT ![to] = held[to] + amount]
<1>1. less \in [Addresses -> Nat] /\ held[to] + amount \in Nat
  OBVIOUS
<1>2. Moved(held, from, to, amount) = more /\ more \in [Addresses -> Nat]
  BY <1>1 DEF Moved
<1>3. Total(held) \in Nat /\ held[from] \in Nat /\ held[to] \in Nat
  BY AddressesFinite, TotalType
<1>4. Total(less) = Total(held) - held[from] + (held[from] - amount)
  <2>1. held[from] - amount \in Nat
    BY <1>3
  <2> QED BY <2>1, AddressesFinite, TotalExcept
<1>5. less[to] = IF from = to THEN held[from] - amount ELSE held[to]
  OBVIOUS
<1>6. Total(more) = Total(less) - less[to] + (held[to] + amount)
  <2> HIDE DEF less
  <2> QED BY <1>1, AddressesFinite, TotalExcept
<1> HIDE DEF less, more
<1>7. Total(held) <= Total(more) /\ (from # to => Total(more) = Total(held))
  BY <1>3, <1>4, <1>5, <1>6
<1> QED BY <1>2, <1>7

\* A change of one account's balance of a token changes the sum by as much.
LEMMA BalanceTotal ==
    ASSUME NEW held \in [Addresses -> Nat], NEW a \in Addresses, NEW d \in Int,
           held[a] + d \in Nat
    PROVE  Total([held EXCEPT ![a] = @ + d]) = Total(held) + d
<1>1. Total(held) \in Nat /\ held[a] \in Nat
  BY AddressesFinite, TotalType
<1>2. Total([held EXCEPT ![a] = held[a] + d]) = Total(held) - held[a] + (held[a] + d)
  BY AddressesFinite, TotalExcept
<1> QED BY <1>1, <1>2
-----------------------------------------------------------------------------
(* Mint, burn and transfer, one by one. *)

\* What a step does to the permits of a token when it moves its supply.
PermitSpent(t) ==
    \E p \in Permits :
        /\ p.token = t
        /\ sequence < p.deadline
        /\ p.nonce \notin usedNonces[t]
        /\ usedNonces'[t] = usedNonces[t] \cup {p.nonce}
        /\ LET d == IF p.action = "mint" THEN p.amount ELSE 0 - p.amount
           IN  /\ supply'[t] = supply[t] + d
               /\ balance'[t] = [balance[t] EXCEPT ![p.account] = @ + d]

\* What a step does to the balances of a token when it raises one of them.
Checked(t) ==
    \A a \in Addresses :
        balance'[t][a] > balance[t][a] =>
            /\ Verified(a)
            /\ t \in bound
            /\ balance'[t][a] <= maxBalance[t]

\* A mint spends its permit, and covers the supply it adds.
LEMMA MintEffect ==
    ASSUME SepType, NEW t \in Tokens, NEW to, NEW amount, NEW nonce, NEW deadline,
           Mint(t, to, amount, nonce, deadline)
    PROVE  /\ supply'[t] # supply[t] /\ PermitSpent(t) /\ Checked(t)
           /\ Total(balance'[t]) - supply'[t] = Total(balance[t]) - supply[t]
           /\ \A s \in Tokens \ {t} : /\ balance'[s] = balance[s]
                                      /\ supply'[s] = supply[s]
                                      /\ usedNonces'[s] = usedNonces[s]
<1> DEFINE p == [action |-> "mint", token |-> t, account |-> to, amount |-> amount,
                 nonce |-> nonce, deadline |-> deadline]
<1>1. UsePermit("mint", t, to, amount, nonce, deadline)
  BY DEF Mint
<1>2. p \in Permits /\ to \in Addresses /\ amount \in Nat /\ deadline \in Nat
  <2>1. p \in Permits /\ to \in Addresses /\ amount \in Nat
    BY <1>1, UsePermitType DEF SepType
  <2>2. p \in Permit
    BY <2>1, PermitsType
  <2> QED BY <2>1, <2>2 DEF Permit
<1>3. /\ amount > 0 /\ Verified(to) /\ Received(t, balance[t][to], amount)
      /\ balance' = [balance EXCEPT ![t][to] = @ + amount]
      /\ supply' = [supply EXCEPT ![t] = @ + amount]
  BY DEF Mint
<1>4. /\ balance \in [Tokens -> [Addresses -> Nat]] /\ supply \in [Tokens -> Int]
      /\ usedNonces \in [Tokens -> SUBSET Nonces] /\ sequence \in Nat
      /\ balance[t] \in [Addresses -> Nat] /\ supply[t] \in Int
  BY DEF SepType, TokenType, SequenceType
<1>5. /\ balance'[t] = [balance[t] EXCEPT ![to] = @ + amount]
      /\ supply'[t] = supply[t] + amount
      /\ \A s \in Tokens \ {t} : balance'[s] = balance[s] /\ supply'[s] = supply[s]
  BY <1>2, <1>3, <1>4
<1>6. /\ usedNonces'[t] = usedNonces[t] \cup {nonce} /\ nonce \notin usedNonces[t]
      /\ sequence < deadline
      /\ \A s \in Tokens \ {t} : usedNonces'[s] = usedNonces[s]
  BY <1>1, <1>2, <1>4 DEF UsePermit, PermitExpired
<1>7. PermitSpent(t)
  BY <1>2, <1>5, <1>6 DEF PermitSpent
<1>8. Checked(t)
  BY <1>2, <1>3, <1>4, <1>5 DEF Checked, Received
<1>9. Total(balance'[t]) = Total(balance[t]) + amount /\ Total(balance[t]) \in Int
  <2>1. balance[t][to] + amount \in Nat /\ amount \in Int
    BY <1>2, <1>4
  <2>2. Total([balance[t] EXCEPT ![to] = @ + amount]) = Total(balance[t]) + amount
    BY <1>2, <1>4, <2>1, BalanceTotal
  <2>3. Total(balance[t]) \in Int
    BY <1>4, AddressesFinite, TotalType
  <2> QED BY <1>5, <2>2, <2>3
<1> QED BY <1>2, <1>3, <1>4, <1>5, <1>6, <1>7, <1>8, <1>9

\* A burn spends its permit, and takes out of the balances what it takes off
\* the supply.
LEMMA BurnEffect ==
    ASSUME SepType, NEW t \in Tokens, NEW from, NEW amount, NEW nonce, NEW deadline,
           Burn(t, from, amount, nonce, deadline)
    PROVE  /\ supply'[t] # supply[t] /\ PermitSpent(t) /\ Checked(t)
           /\ Total(balance'[t]) - supply'[t] = Total(balance[t]) - supply[t]
           /\ \A s \in Tokens \ {t} : /\ balance'[s] = balance[s]
                                      /\ supply'[s] = supply[s]
                                      /\ usedNonces'[s] = usedNonces[s]
<1> DEFINE p == [action |-> "burn", token |-> t, account |-> from, amount |-> amount,
                 nonce |-> nonce, deadline |-> deadline]
<1>1. UsePermit("burn", t, from, amount, nonce, deadline)
  BY DEF Burn
<1>2. p \in Permits /\ from \in Addresses /\ amount \in Nat /\ deadline \in Nat
  <2>1. p \in Permits /\ from \in Addresses /\ amount \in Nat
    BY <1>1, UsePermitType DEF SepType
  <2>2. p \in Permit
    BY <2>1, PermitsType
  <2> QED BY <2>1, <2>2 DEF Permit
<1>3. /\ amount > 0 /\ balance[t][from] >= amount
      /\ balance' = [balance EXCEPT ![t][from] = @ - amount]
      /\ supply' = [supply EXCEPT ![t] = @ - amount]
  BY DEF Burn
<1>4. /\ balance \in [Tokens -> [Addresses -> Nat]] /\ supply \in [Tokens -> Int]
      /\ usedNonces \in [Tokens -> SUBSET Nonces] /\ sequence \in Nat
      /\ balance[t] \in [Addresses -> Nat] /\ supply[t] \in Int
      /\ balance[t][from] \in Nat
  BY <1>2 DEF SepType, TokenType, SequenceType
<1>5. /\ balance'[t] = [balance[t] EXCEPT ![from] = @ + (0 - amount)]
      /\ supply'[t] = supply[t] + (0 - amount)
      /\ \A s \in Tokens \ {t} : balance'[s] = balance[s] /\ supply'[s] = supply[s]
  <2>1. /\ balance[t][from] - amount = balance[t][from] + (0 - amount)
        /\ supply[t] - amount = supply[t] + (0 - amount)
    BY <1>2, <1>4
  <2>2. balance'[t] = [balance[t] EXCEPT ![from] = balance[t][from] - amount]
    BY <1>2, <1>3, <1>4
  <2>3. supply'[t] = supply[t] - amount
    BY <1>3, <1>4
  <2>4. \A s \in Tokens \ {t} : balance'[s] = balance[s] /\ supply'[s] = supply[s]
    BY <1>3, <1>4
  <2> QED BY <2>1, <2>2, <2>3, <2>4
<1>6. /\ usedNonces'[t] = usedNonces[t] \cup {nonce} /\ nonce \notin usedNonces[t]
      /\ sequence < deadline
      /\ \A s \in Tokens \ {t} : usedNonces'[s] = usedNonces[s]
  BY <1>1, <1>2, <1>4 DEF UsePermit, PermitExpired
<1>7. PermitSpent(t)
  BY <1>2, <1>5, <1>6 DEF PermitSpent
<1>8. Checked(t)
  BY <1>2, <1>3, <1>4, <1>5 DEF Checked
<1>9. Total(balance'[t]) = Total(balance[t]) + (0 - amount) /\ Total(balance[t]) \in Int
  <2>1. balance[t][from] + (0 - amount) \in Nat
    BY <1>2, <1>3, <1>4
  <2>2. 0 - amount \in Int
    BY <1>2
  <2>3. Total([balance[t] EXCEPT ![from] = @ + (0 - amount)])
          = Total(balance[t]) + (0 - amount)
    BY <1>2, <1>4, <2>1, <2>2, BalanceTotal
  <2>4. Total(balance[t]) \in Int
    BY <1>4, AddressesFinite, TotalType
  <2> QED BY <1>5, <2>3, <2>4
<1> QED BY <1>2, <1>3, <1>4, <1>5, <1>6, <1>7, <1>8, <1>9

\* A transfer leaves supply and nonces alone, and loses no balance.
LEMMA TransferEffect ==
    ASSUME SepType, NEW t \in Tokens, NEW from \in Addresses, NEW to \in Addresses,
           NEW amount \in Nat, TransferToken(t, from, to, amount)
    PROVE  /\ UNCHANGED <<supply, usedNonces>> /\ Checked(t)
           /\ Total(balance[t]) <= Total(balance'[t])
           /\ \A s \in Tokens \ {t} : balance'[s] = balance[s]
<1>1. balance \in [Tokens -> [Addresses -> Nat]] /\ balance[t] \in [Addresses -> Nat]
  BY DEF SepType, TokenType
<1>2. /\ balance[t][from] >= amount /\ Verified(to)
      /\ Received(t, balance[t][to], amount)
      /\ balance' = [balance EXCEPT ![t] = Moved(balance[t], from, to, amount)]
      /\ UNCHANGED <<supply, usedNonces>>
  BY DEF TransferToken
<1>3. /\ balance'[t] = Moved(balance[t], from, to, amount)
      /\ \A s \in Tokens \ {t} : balance'[s] = balance[s]
  BY <1>1, <1>2
<1>4. Total(balance[t]) <= Total(balance'[t])
  BY <1>1, <1>2, <1>3, MovedTotal
<1>5. Checked(t)
  BY <1>1, <1>2, <1>3 DEF Checked, Moved, Received
<1> QED BY <1>2, <1>3, <1>4, <1>5
-----------------------------------------------------------------------------
(* The properties. *)

SepInv == SepType /\ BalancesCoverSupply

\* A step moves the balances of at most one token, and then as Checked and
\* PermitSpent say, keeping the supply covered.
LEMMA StepEffect ==
    ASSUME SepType, [SepNext]_sepVars
    PROVE  \A t \in Tokens :
              /\ Checked(t)
              /\ supply'[t] = supply[t] => usedNonces'[t] = usedNonces[t]
              /\ supply'[t] # supply[t] => PermitSpent(t)
              /\ supply[t] <= Total(balance[t]) => supply'[t] <= Total(balance'[t])
<1>1. \A t \in Tokens : /\ balance[t] \in [Addresses -> Nat] /\ supply[t] \in Int
                        /\ Total(balance[t]) \in Int
  BY AddressesFinite, TotalType DEF SepType, TokenType
<1>2. \A t \in Tokens : /\ balance'[t] \in [Addresses -> Nat] /\ supply'[t] \in Int
                        /\ Total(balance'[t]) \in Int
  BY SepTypeKept, AddressesFinite, TotalType DEF SepType, TokenType
<1>3. ASSUME NEW s \in Tokens, balance'[s] = balance[s] PROVE Checked(s)
  BY <1>1, <1>3 DEF Checked
<1>4. CASE UNCHANGED <<balance, supply, usedNonces>>
  BY <1>1, <1>3, <1>4
<1>5. ASSUME NEW t \in Tokens, NEW from \in Users, NEW to \in Addresses,
             NEW amount \in TransferAmounts, TransferToken(t, from, to, amount),
             NEW s \in Tokens
      PROVE  /\ Checked(s) /\ supply'[s] = supply[s] /\ usedNonces'[s] = usedNonces[s]
             /\ supply[s] <= Total(balance[s]) => supply'[s] <= Total(balance'[s])
  <2>1. from \in Addresses /\ amount \in Nat
    BY TransferAmountsType DEF Addresses
  <2>2. /\ UNCHANGED <<supply, usedNonces>> /\ Checked(t)
        /\ Total(balance[t]) <= Total(balance'[t])
        /\ \A u \in Tokens \ {t} : balance'[u] = balance[u]
    BY <1>5, <2>1, TransferEffect
  <2> QED BY <1>1, <1>2, <1>3, <2>2
<1>6. ASSUME NEW p \in Permits, NEW s \in Tokens,
             \/ Mint(p.token, p.account, p.amount, p.nonce, p.deadline)
             \/ Burn(p.token, p.account, p.amount, p.nonce, p.deadline)
      PROVE  /\ Checked(s)
             /\ supply'[s] = supply[s] => usedNonces'[s] = usedNonces[s]
             /\ supply'[s] # supply[s] => PermitSpent(s)
             /\ supply[s] <= Total(balance[s]) => supply'[s] <= Total(balance'[s])
  <2> DEFINE t == p.token
  <2>1. t \in Tokens
    BY PermitsType DEF Permit
  <2> HIDE DEF t
  <2>2. /\ supply'[t] # supply[t] /\ PermitSpent(t) /\ Checked(t)
        /\ Total(balance'[t]) - supply'[t] = Total(balance[t]) - supply[t]
        /\ \A u \in Tokens \ {t} : /\ balance'[u] = balance[u]
                                   /\ supply'[u] = supply[u]
                                   /\ usedNonces'[u] = usedNonces[u]
    BY <1>6, <2>1, MintEffect, BurnEffect DEF t
  <2>3. CASE s = t
    BY <1>1, <1>2, <2>2, <2>3
  <2>4. CASE s # t
    BY <1>1, <1>3, <2>2, <2>4
  <2> QED BY <2>3, <2>4
<1>7. CASE DirectTransfer
  BY <1>5, <1>7 DEF DirectTransfer
<1>8. CASE RelayPermit
  BY <1>6, <1>8 DEF RelayPermit
<1>9. DirectTransfer \/ RelayPermit \/ UNCHANGED <<balance, supply, usedNonces>>
  BY DEF SepNext, sepVars, tokenVars, InitializeToken
<1> QED BY <1>4, <1>7, <1>8, <1>9

\* The types and the covered supply are inductive together.
THEOREM Sep57Invariant == SepSpec => []SepInv
<1>1. SepInit => SepInv
  <2> SUFFICES ASSUME SepInit PROVE SepInv
    OBVIOUS
  <2>1. SepType
    BY MaxSequenceType DEF SepInit, SepType, SequenceInit, SequenceType, VerifierInit,
       VerifierType, ComplianceInit, ComplianceType, TokenInit, TokenType
  <2>2. ASSUME NEW t \in Tokens PROVE supply[t] <= Total(balance[t])
    <3>1. balance[t] \in [Addresses -> Nat] /\ \A a \in Addresses : balance[t][a] = 0
      BY DEF SepInit, TokenInit
    <3>2. supply[t] = 0 /\ Total(balance[t]) = 0
      BY <3>1, TotalOfZeros DEF SepInit, TokenInit
    <3> QED BY <3>2
  <2> QED BY <2>1, <2>2 DEF SepInv, BalancesCoverSupply
<1>2. SepInv /\ [SepNext]_sepVars => SepInv'
  <2> SUFFICES ASSUME SepInv, [SepNext]_sepVars PROVE SepInv'
    OBVIOUS
  <2>1. SepType /\ \A t \in Tokens : supply[t] <= Total(balance[t])
    BY DEF SepInv, BalancesCoverSupply
  <2>2. SepType'
    BY <2>1, SepTypeKept
  <2>3. \A t \in Tokens : supply'[t] <= Total(balance'[t])
    BY <2>1, StepEffect
  <2> QED BY <2>2, <2>3 DEF SepInv, BalancesCoverSupply
<1> QED BY <1>1, <1>2, PTL DEF SepSpec

\* No interleaving of sep57's mint, transfer and burn, a transfer to oneself
\* included, loses a token that the total supply still counts.
THEOREM NoTokenIsLost == SepSpec => []BalancesCoverSupply
<1>1. SepInv => BalancesCoverSupply
  BY DEF SepInv
<1> QED BY <1>1, Sep57Invariant, PTL

\* A balance grows only into a verified account of a bound token, within the
\* cap: mint and transfer both go through verify_identity and the hook.
THEOREM EveryReceiptIsChecked == SepSpec => ReceiptsAreChecked
<1>1. SepInv /\ [SepNext]_sepVars
        => [\A t \in Tokens, a \in Addresses :
              balance'[t][a] > balance[t][a] =>
                  /\ Verified(a)
                  /\ t \in bound
                  /\ balance'[t][a] <= maxBalance[t]]_sepVars
  <2> SUFFICES ASSUME SepType, [SepNext]_sepVars PROVE \A t \in Tokens : Checked(t)
    BY DEF SepInv, Checked
  <2> QED BY StepEffect
<1> QED BY <1>1, Sep57Invariant, PTL DEF SepSpec, ReceiptsAreChecked

\* The supply moves only by a signed, unexpired permit whose nonce was unused
\* and is spent in the same step; nothing else spends a nonce or forgets one.
THEOREM EverySupplyMoveIsPermitted == SepSpec => SupplyMovesByPermit
<1>1. SepInv /\ [SepNext]_sepVars
        => [\A t \in Tokens :
             IF supply'[t] = supply[t] THEN usedNonces'[t] = usedNonces[t]
             ELSE \E p \in Permits :
                   /\ p.token = t
                   /\ sequence < p.deadline
                   /\ p.nonce \notin usedNonces[t]
                   /\ usedNonces'[t] = usedNonces[t] \cup {p.nonce}
                   /\ LET d == IF p.action = "mint" THEN p.amount ELSE 0 - p.amount
                      IN  /\ supply'[t] = supply[t] + d
                          /\ balance'[t]
                               = [balance[t] EXCEPT ![p.account] = @ + d]]_sepVars
  <2> SUFFICES ASSUME SepType, [SepNext]_sepVars
               PROVE  \A t \in Tokens :
                        IF supply'[t] = supply[t] THEN usedNonces'[t] = usedNonces[t]
                        ELSE PermitSpent(t)
    BY DEF SepInv, PermitSpent
  <2> QED BY StepEffect
<1> QED BY <1>1, Sep57Invariant, PTL DEF SepSpec, SupplyMovesByPermit
-----------------------------------------------------------------------------
(***************************************************************************)
(* 2. The composed contracts: type correctness, and the accounting of shares*)
(* and prepaid interest.                                                   *)
(***************************************************************************)

\* An offering nobody created yet has no history.
FreshOfferings ==
    \A r \in Rwas \ Offerings : claimed[r] = 0 /\ collected[r] = 0

\* TypeOK is not inductive alone: that interest_pool stays a natural number
\* takes InterestCovered, which takes that an investor never redeems more than
\* is outstanding, which is SharesConserved.
IInv == TypeOK /\ FreshOfferings /\ SharesConserved /\ InterestCovered
-----------------------------------------------------------------------------
(* What the called contracts do to their own state. *)

\* A payment keeps USDC balances non-negative when the payer has the amount.
LEMMA PaidType ==
    ASSUME UsdcType, NEW from \in Addresses, NEW to \in Addresses,
           NEW amount \in Nat, usdc[from] >= amount
    PROVE  Paid(from, to, amount) \in [Addresses -> Nat]
BY DEF UsdcType, Paid

\* transfer_from by the factory keeps the type of the USDC state.
LEMMA PullUsdcType ==
    ASSUME UsdcType, NEW from \in Users, NEW amount \in Nat, PullUsdc(from, amount)
    PROVE  UsdcType'
<1>1. usdc' \in [Addresses -> Nat]
  BY PaidType DEF PullUsdc, Addresses
<1>2. allowance' \in [Users -> [amount : Nat, until : Nat]]
  BY DEF PullUsdc, Allowed, UsdcType
<1> QED BY <1>1, <1>2 DEF UsdcType

\* transfer by the factory keeps the type of the USDC state.
LEMMA SendUsdcType ==
    ASSUME UsdcType, NEW from \in Addresses, NEW to \in Addresses,
           NEW amount \in Nat, SendUsdc(from, to, amount)
    PROVE  UsdcType'
<1>1. usdc' \in [Addresses -> Nat]
  BY PaidType DEF SendUsdc
<1> QED BY <1>1 DEF UsdcType, SendUsdc

\* create_rwa_token's calls of sep57 and compliance keep their types.
LEMMA IssueTokenType ==
    ASSUME TokenType, ComplianceType, NEW t \in Tokens, NEW raise, NEW nonce,
           NEW deadline, IssueToken(t, raise, nonce, deadline)
    PROVE  TokenType' /\ ComplianceType'
<1>1. UsePermit("mint", t, Factory, raise, nonce, deadline)
  BY DEF IssueToken
<1>2. usedNonces' \in [Tokens -> SUBSET Nonces] /\ raise \in Nat
  BY <1>1, UsePermitType
<1>3. /\ balance' = [balance EXCEPT ![t][Factory] = @ + raise]
      /\ supply' = [supply EXCEPT ![t] = @ + raise]
      /\ deployed' = deployed \cup {t}
  BY DEF IssueToken
<1>4. TokenType'
  <2>1. Factory \in Addresses
    BY DEF Addresses
  <2>2. balance[t][Factory] + raise \in Nat
    BY <1>2, <2>1 DEF TokenType
  <2>3. balance' \in [Tokens -> [Addresses -> Nat]]
    BY <1>3, <2>1, <2>2, BalanceType DEF TokenType
  <2>4. supply' \in [Tokens -> Int]
    BY <1>2, <1>3 DEF TokenType
  <2> QED BY <1>2, <1>3, <2>3, <2>4 DEF TokenType
<1>5. ComplianceType'
  BY I128MaxType DEF IssueToken, ComplianceType
<1> QED BY <1>4, <1>5
-----------------------------------------------------------------------------
(* What the factory does to an offering's record. *)

\* Replacing an offering's record by a well-typed one keeps the type of rwas.
LEMMA OfferingChange ==
    ASSUME FactoryType, NEW r \in Rwas, NEW o \in Rwa, rwas' = [rwas EXCEPT ![r] = o]
    PROVE  /\ rwas' \in [Rwas -> Rwa \cup {None}]
           /\ rwas'[r] = o
           /\ \A s \in Rwas \ {r} : rwas'[s] = rwas[s]
           /\ Offerings' = Offerings \cup {r}
BY NoneIsNoRwa DEF FactoryType, Offerings

\* The record create_rwa_token stores is well typed.
LEMMA NewOfferingType ==
    ASSUME NEW shipper \in Users, NEW raise \in Nat, NEW bps \in Nat,
           NEW t \in Tokens, protocolFeeBps \in Nat
    PROVE  NewOffering(shipper, raise, bps, t) \in Rwa
<1>1. Fee(raise, bps) \in Nat /\ Fee(raise, protocolFeeBps) \in Nat
  BY FeeType
<1> QED BY <1>1 DEF NewOffering, Rwa, Statuses

\* The record buy_shares stores is well typed.
LEMMA BoughtType ==
    ASSUME NEW o \in Rwa, NEW i \in Users, NEW amount \in Nat
    PROVE  Bought(o, i, amount) \in Rwa
<1> DEFINE o1 == [o EXCEPT !.shares_bought = @ + amount]
           o2 == [o1 EXCEPT !.investors[i] = @ + amount]
           st == IF SharesAvailable(o) - amount <= 0 THEN "Funded" ELSE o2.status
           o3 == [o2 EXCEPT !.status = st]
<1>1. o1 \in Rwa
  BY DEF Rwa
<1>2. o2 \in Rwa
  <2> HIDE DEF o1
  <2> QED BY <1>1 DEF Rwa
<1>3. o3 \in Rwa
  <2> HIDE DEF o1, o2
  <2> st \in Statuses
    BY <1>2 DEF Rwa, Statuses
  <2> QED BY <1>2 DEF Rwa
<1>4. Bought(o, i, amount) = o3
  BY DEF Bought
<1> QED BY <1>3, <1>4

\* What a purchase changes in a record, and what it leaves.
LEMMA BoughtFields ==
    ASSUME NEW o \in Rwa, NEW i \in Users, NEW amount \in Nat
    PROVE  LET n == Bought(o, i, amount)
           IN  /\ n.shares_bought = o.shares_bought + amount
               /\ n.investors = [o.investors EXCEPT ![i] = o.investors[i] + amount]
               /\ n.token = o.token
               /\ n.interest_bps = o.interest_bps
               /\ n.interest_pool = o.interest_pool
               /\ n.protocol_fee_pool = o.protocol_fee_pool
               /\ n.principal_pool = o.principal_pool
               /\ n.shares_total = o.shares_total
BY DEF Bought, Rwa

\* The record settle_debt stores is well typed.
LEMMA RepaidType ==
    ASSUME NEW o \in Rwa, NEW principal \in Nat
    PROVE  Repaid(o, principal) \in Rwa
<1> DEFINE o1 == [o EXCEPT !.principal_pool = @ + principal]
           o2 == [o1 EXCEPT !.status = "Settled"]
<1>1. o1 \in Rwa
  BY DEF Rwa
<1>2. o2 \in Rwa
  <2> HIDE DEF o1
  <2> QED BY <1>1 DEF Rwa, Statuses
<1>3. Repaid(o, principal) = o2
  BY DEF Repaid
<1> QED BY <1>2, <1>3

\* What a settlement changes in a record, and what it leaves.
LEMMA RepaidFields ==
    ASSUME NEW o \in Rwa, NEW principal \in Nat
    PROVE  LET n == Repaid(o, principal)
           IN  /\ n.principal_pool = o.principal_pool + principal
               /\ n.shares_bought = o.shares_bought
               /\ n.investors = o.investors
               /\ n.token = o.token
               /\ n.interest_bps = o.interest_bps
               /\ n.interest_pool = o.interest_pool
               /\ n.protocol_fee_pool = o.protocol_fee_pool
               /\ n.shares_total = o.shares_total
BY DEF Repaid, Rwa

\* The record claim stores is well typed if both pools cover the claim.
LEMMA RedeemedType ==
    ASSUME NEW o \in Rwa, NEW i \in Users, NEW amount \in Nat,
           o.principal_pool >= amount, o.interest_pool >= Interest(o, amount),
           o.investors[i] >= amount
    PROVE  Redeemed(o, i, amount) \in Rwa
<1> DEFINE o1 == [o EXCEPT !.principal_pool = @ - amount]
           o2 == [o1 EXCEPT !.interest_pool = @ - Interest(o, amount)]
           o3 == [o2 EXCEPT !.investors[i] = @ - amount]
<1>1. Interest(o, amount) \in Nat
  BY FeeType DEF Interest, Rwa
<1>2. o1 \in Rwa /\ o1.interest_pool = o.interest_pool /\ o1.investors = o.investors
  BY DEF Rwa
<1>3. o2 \in Rwa /\ o2.investors = o.investors
  <2> HIDE DEF o1
  <2> QED BY <1>1, <1>2 DEF Rwa
<1>4. o3 \in Rwa
  <2> HIDE DEF o1, o2
  <2> QED BY <1>3 DEF Rwa
<1>5. Redeemed(o, i, amount) = o3
  BY DEF Redeemed
<1> QED BY <1>4, <1>5

\* What a claim changes in a record, and what it leaves.
LEMMA RedeemedFields ==
    ASSUME NEW o \in Rwa, NEW i \in Users, NEW amount \in Nat
    PROVE  LET n == Redeemed(o, i, amount)
           IN  /\ n.interest_pool = o.interest_pool - Interest(o, amount)
               /\ n.principal_pool = o.principal_pool - amount
               /\ n.investors = [o.investors EXCEPT ![i] = o.investors[i] - amount]
               /\ n.token = o.token
               /\ n.interest_bps = o.interest_bps
               /\ n.protocol_fee_pool = o.protocol_fee_pool
               /\ n.shares_total = o.shares_total
               /\ n.shares_bought = o.shares_bought
BY DEF Redeemed, Rwa
-----------------------------------------------------------------------------
(* Which parts of the invariant a step can disturb. *)

Accounts == FreshOfferings /\ SharesConserved /\ InterestCovered

\* A step that leaves the offerings and their history alone keeps the accounts.
LEMMA AccountsKept ==
    ASSUME Accounts, UNCHANGED <<rwas, claimed, collected>>
    PROVE  Accounts'
BY DEF Accounts, FreshOfferings, SharesConserved, InterestCovered, Offerings,
       Outstanding

\* A step that changes the record of one offering keeps the accounts of all
\* if it keeps those of that one.
LEMMA AccountsOfOne ==
    ASSUME Accounts, FactoryType, NEW r \in Rwas, NEW o \in Rwa,
           rwas' = [rwas EXCEPT ![r] = o],
           \A s \in Rwas \ {r} : claimed'[s] = claimed[s] /\ collected'[s] = collected[s],
           Total(o.investors) + claimed'[r] = o.shares_bought,
           o.shares_bought <= o.shares_total,
           o.interest_pool >= Fee(o.shares_total - claimed'[r], o.interest_bps)
    PROVE  Accounts'
<1>1. /\ rwas'[r] = o
      /\ \A s \in Rwas \ {r} : rwas'[s] = rwas[s]
      /\ Offerings' = Offerings \cup {r}
  BY OfferingChange
<1>2. FreshOfferings'
  BY <1>1 DEF FreshOfferings, Accounts
<1>3. SharesConserved'
  <2> SUFFICES ASSUME NEW s \in Offerings'
               PROVE  /\ Total(rwas'[s].investors) + claimed'[s] = rwas'[s].shares_bought
                      /\ rwas'[s].shares_bought <= rwas'[s].shares_total
    BY DEF SharesConserved
  <2>1. CASE s = r
    BY <1>1, <2>1
  <2>2. CASE s # r
    <3>1. /\ s \in Offerings /\ s \in Rwas \ {r}
          /\ rwas'[s] = rwas[s] /\ claimed'[s] = claimed[s]
      BY <1>1, <2>2 DEF Offerings
    <3> QED BY <3>1 DEF Accounts, SharesConserved
  <2> QED BY <2>1, <2>2
<1>4. InterestCovered'
  <2> SUFFICES ASSUME NEW s \in Offerings'
               PROVE  rwas'[s].interest_pool
                        >= Fee(rwas'[s].shares_total - claimed'[s], rwas'[s].interest_bps)
    BY DEF InterestCovered, Outstanding
  <2>1. CASE s = r
    BY <1>1, <2>1
  <2>2. CASE s # r
    <3>1. /\ s \in Offerings /\ s \in Rwas \ {r}
          /\ rwas'[s] = rwas[s] /\ claimed'[s] = claimed[s]
      BY <1>1, <2>2 DEF Offerings
    <3> QED BY <3>1 DEF Accounts, InterestCovered, Outstanding
  <2> QED BY <2>1, <2>2
<1> QED BY <1>2, <1>3, <1>4 DEF Accounts

\* An existing offering's record and what the invariant says of it.
LEMMA OfferingFacts ==
    ASSUME IInv, NEW r \in Rwas, rwas[r] # None
    PROVE  /\ r \in Offerings /\ rwas[r] \in Rwa
           /\ rwas[r].investors \in [Users -> Nat]
           /\ rwas[r].shares_bought \in Nat /\ rwas[r].shares_total \in Nat
           /\ rwas[r].interest_bps \in Nat /\ rwas[r].interest_pool \in Nat
           /\ claimed[r] \in Nat
           /\ Total(rwas[r].investors) \in Nat
           /\ Total(rwas[r].investors) + claimed[r] = rwas[r].shares_bought
           /\ rwas[r].shares_bought <= rwas[r].shares_total
           /\ Outstanding(r) \in Nat
           /\ rwas[r].interest_pool >= Fee(Outstanding(r), rwas[r].interest_bps)
<1>1. /\ r \in Offerings /\ rwas[r] \in Rwa /\ claimed[r] \in Nat
  BY DEF IInv, TypeOK, FactoryType, Offerings
<1>2. /\ rwas[r].investors \in [Users -> Nat]
      /\ rwas[r].shares_bought \in Nat /\ rwas[r].shares_total \in Nat
      /\ rwas[r].interest_bps \in Nat /\ rwas[r].interest_pool \in Nat
  BY <1>1 DEF Rwa
<1>3. Total(rwas[r].investors) \in Nat
  BY <1>2, UsersFinite, TotalType
<1>4. /\ Total(rwas[r].investors) + claimed[r] = rwas[r].shares_bought
      /\ rwas[r].shares_bought <= rwas[r].shares_total
      /\ rwas[r].interest_pool >= Fee(Outstanding(r), rwas[r].interest_bps)
  BY <1>1 DEF IInv, SharesConserved, InterestCovered
<1> QED BY <1>1, <1>2, <1>3, <1>4 DEF Outstanding
-----------------------------------------------------------------------------
(* The entry points of the factory, one by one. *)

\* initialize keeps the invariant.
LEMMA InitializeStep ==
    ASSUME IInv, Initialize(FactoryAdmin, ProtocolFeeBps)
    PROVE  IInv'
<1>1. TypeOK'
  <2>1. FactoryType'
    BY FactoryAdminType, ProtocolFeeBpsType
       DEF Initialize, IInv, TypeOK, FactoryType, historyVars
  <2> QED BY <2>1 DEF Initialize, IInv, TypeOK, sepVars, usdcVars, verifierVars,
         complianceVars, tokenVars, SequenceType, VerifierType, ComplianceType,
         TokenType, UsdcType
<1>2. Accounts'
  BY AccountsKept DEF Initialize, IInv, Accounts, historyVars
<1> QED BY <1>1, <1>2 DEF IInv, Accounts

\* create_rwa_token keeps the invariant: a new record is fresh and covered.
LEMMA CreateStep ==
    ASSUME IInv, NEW shipper \in Users, NEW r \in Rwas, NEW raise \in Int,
           NEW bps \in Int, NEW t \in Tokens, NEW nonce, NEW deadline,
           CreateRwaToken(shipper, r, raise, bps, t, nonce, deadline)
    PROVE  IInv'
<1> DEFINE o == NewOffering(shipper, raise, bps, t)
<1>1. /\ raise \in Nat /\ bps \in Nat /\ protocolFeeBps \in Nat /\ rwas[r] = None
      /\ rwas' = [rwas EXCEPT ![r] = o]
      /\ PullUsdc(shipper, Upfront(raise, bps))
      /\ IssueToken(t, raise, nonce, deadline)
      /\ UNCHANGED <<sequence, verifierVars, admin, protocolFeeBps, historyVars>>
  BY DEF CreateRwaToken, IInv, TypeOK, FactoryType
<1>2. o \in Rwa
  BY <1>1, NewOfferingType
<1>3. Upfront(raise, bps) \in Nat
  <2>1. Fee(raise, bps) \in Nat /\ Fee(raise, protocolFeeBps) \in Nat
    BY <1>1, FeeType
  <2> QED BY <2>1 DEF Upfront
<1>4. TypeOK'
  <2>1. UsdcType'
    BY <1>1, <1>3, PullUsdcType DEF IInv, TypeOK
  <2>2. TokenType' /\ ComplianceType'
    BY <1>1, IssueTokenType DEF IInv, TypeOK
  <2>3. FactoryType'
    BY <1>1, <1>2, OfferingChange DEF IInv, TypeOK, FactoryType, historyVars
  <2>4. SequenceType' /\ VerifierType'
    BY <1>1 DEF IInv, TypeOK, SequenceType, VerifierType, verifierVars
  <2> QED BY <2>1, <2>2, <2>3, <2>4 DEF TypeOK
<1>5. Accounts'
  <2>1. claimed' = claimed /\ collected' = collected /\ claimed[r] = 0
    BY <1>1 DEF IInv, FreshOfferings, Offerings, historyVars
  <2>2. /\ o.investors = [u \in Users |-> 0] /\ o.shares_bought = 0
        /\ o.shares_total = raise /\ o.interest_bps = bps
        /\ o.interest_pool = Fee(raise, bps)
    BY DEF NewOffering
  <2>3. Total(o.investors) = 0
    BY <2>2, TotalOfZeros
  <2>4. Fee(raise, bps) \in Nat
    BY <1>1, FeeType
  <2>5. FactoryType /\ Accounts
    BY DEF IInv, TypeOK, Accounts
  <2>6. raise - claimed'[r] = raise /\ claimed'[r] = 0
    BY <1>1, <2>1
  <2>7. /\ Total(o.investors) + claimed'[r] = o.shares_bought
        /\ o.shares_bought <= o.shares_total
    BY <1>1, <2>2, <2>3, <2>6
  <2>8. o.interest_pool >= Fee(o.shares_total - claimed'[r], o.interest_bps)
    BY <2>2, <2>4, <2>6
  <2> HIDE DEF o
  <2> QED BY <1>1, <1>2, <2>1, <2>5, <2>7, <2>8, AccountsOfOne
<1> QED BY <1>4, <1>5 DEF IInv, Accounts

\* buy_shares keeps the invariant: sold and recorded shares grow together.
LEMMA BuyStep ==
    ASSUME IInv, NEW i \in Users, NEW r \in Rwas, NEW amount \in Int,
           BuyShares(i, r, amount)
    PROVE  IInv'
<1> DEFINE o == rwas[r]
           n == Bought(rwas[r], i, amount)
<1>1. /\ amount \in Nat /\ rwas[r] # None
      /\ o.shares_total - o.shares_bought >= amount
      /\ rwas' = [rwas EXCEPT ![r] = n]
      /\ PullUsdc(i, amount)
      /\ TransferToken(o.token, Factory, i, amount)
      /\ UNCHANGED <<sequence, verifierVars, complianceVars, admin, protocolFeeBps,
                     historyVars>>
  BY DEF BuyShares, SharesAvailable
<1>2. /\ o \in Rwa /\ o.investors \in [Users -> Nat]
      /\ o.shares_bought \in Nat /\ o.shares_total \in Nat /\ claimed[r] \in Nat
      /\ Total(o.investors) \in Nat
      /\ Total(o.investors) + claimed[r] = o.shares_bought
      /\ o.interest_pool >= Fee(Outstanding(r), o.interest_bps)
  BY <1>1, OfferingFacts
<1>3. n \in Rwa
  BY <1>1, <1>2, BoughtType
<1>4. TypeOK'
  <2>1. UsdcType'
    BY <1>1, PullUsdcType DEF IInv, TypeOK
  <2>2. TokenType'
    <3>1. o.token \in Tokens /\ Factory \in Addresses /\ i \in Addresses
      BY <1>2 DEF Rwa, Addresses
    <3> QED BY <1>1, <3>1, TransferTokenType DEF IInv, TypeOK
  <2>3. FactoryType'
    BY <1>1, <1>3, OfferingChange DEF IInv, TypeOK, FactoryType, historyVars
  <2>4. SequenceType' /\ VerifierType' /\ ComplianceType'
    BY <1>1 DEF IInv, TypeOK, SequenceType, VerifierType, ComplianceType,
                verifierVars, complianceVars
  <2> QED BY <2>1, <2>2, <2>3, <2>4 DEF TypeOK
<1>5. Accounts'
  <2>1. claimed' = claimed /\ collected' = collected
    BY <1>1 DEF historyVars
  <2>2. /\ n.shares_bought = o.shares_bought + amount
        /\ n.investors = [o.investors EXCEPT ![i] = o.investors[i] + amount]
        /\ n.interest_bps = o.interest_bps /\ n.interest_pool = o.interest_pool
        /\ n.shares_total = o.shares_total
    BY <1>1, <1>2, BoughtFields
  <2>3. Total(n.investors) = Total(o.investors) + amount
    <3>1. o.investors[i] \in Nat /\ o.investors[i] + amount \in Nat
      BY <1>1, <1>2
    <3>2. Total(n.investors) = Total(o.investors) - o.investors[i] + (o.investors[i] + amount)
      BY <1>2, <2>2, <3>1, UsersFinite, TotalExcept
    <3> QED BY <1>1, <1>2, <3>1, <3>2
  <2>4. FactoryType /\ Accounts
    BY DEF IInv, TypeOK, Accounts
  <2>5. /\ Total(n.investors) + claimed'[r] = n.shares_bought
        /\ n.shares_bought <= n.shares_total
    BY <1>1, <1>2, <2>1, <2>2, <2>3
  <2>6. n.interest_pool >= Fee(n.shares_total - claimed'[r], n.interest_bps)
    BY <1>2, <2>1, <2>2 DEF Outstanding
  <2> HIDE DEF n
  <2> QED BY <1>1, <1>3, <2>1, <2>4, <2>5, <2>6, AccountsOfOne
<1> QED BY <1>4, <1>5 DEF IInv, Accounts

\* collect_fund keeps the invariant: it changes no offering.
LEMMA CollectStep ==
    ASSUME IInv, NEW shipper \in Users, NEW r \in Rwas, CollectFund(shipper, r)
    PROVE  IInv'
<1>1. /\ rwas[r] # None
      /\ SendUsdc(Factory, shipper, rwas[r].shares_bought)
      /\ collected' = [collected EXCEPT ![r] = @ + rwas[r].shares_bought]
      /\ UNCHANGED <<sepVars, factoryVars, claimed, rescued, rescuedUsdc>>
  BY DEF CollectFund
<1>2. rwas[r].shares_bought \in Nat /\ r \in Offerings
  BY <1>1, OfferingFacts
<1>3. TypeOK'
  <2>1. UsdcType'
    BY <1>1, <1>2, SendUsdcType DEF IInv, TypeOK, Addresses
  <2>2. FactoryType'
    BY <1>1, <1>2 DEF IInv, TypeOK, FactoryType, factoryVars
  <2>3. SequenceType' /\ VerifierType' /\ ComplianceType' /\ TokenType'
    BY <1>1 DEF IInv, TypeOK, sepVars, SequenceType, VerifierType, ComplianceType,
                TokenType, verifierVars, complianceVars, tokenVars
  <2> QED BY <2>1, <2>2, <2>3 DEF TypeOK
<1>4. Accounts'
  <2>1. rwas' = rwas /\ claimed' = claimed
    BY <1>1 DEF factoryVars
  <2>2. FreshOfferings'
    BY <1>1, <1>2, <2>1 DEF IInv, FreshOfferings, Offerings, TypeOK, FactoryType
  <2>3. SharesConserved' /\ InterestCovered'
    BY <2>1 DEF IInv, SharesConserved, InterestCovered, Offerings, Outstanding
  <2> QED BY <2>2, <2>3 DEF Accounts
<1> QED BY <1>3, <1>4 DEF IInv, Accounts

\* settle_debt keeps the invariant: it changes the principal pool alone.
LEMMA SettleStep ==
    ASSUME IInv, NEW shipper \in Users, NEW r \in Rwas, NEW principal \in Int,
           SettleDebt(shipper, r, principal)
    PROVE  IInv'
<1> DEFINE o == rwas[r]
           n == Repaid(rwas[r], principal)
<1>1. /\ principal \in Nat /\ rwas[r] # None
      /\ PullUsdc(shipper, principal)
      /\ rwas' = [rwas EXCEPT ![r] = n]
      /\ UNCHANGED <<sepVars, admin, protocolFeeBps, historyVars>>
  BY DEF SettleDebt
<1>2. /\ o \in Rwa
      /\ Total(o.investors) + claimed[r] = o.shares_bought
      /\ o.shares_bought <= o.shares_total
      /\ o.interest_pool >= Fee(Outstanding(r), o.interest_bps)
  BY <1>1, OfferingFacts
<1>3. n \in Rwa
  BY <1>1, <1>2, RepaidType
<1>4. TypeOK'
  <2>1. UsdcType'
    BY <1>1, PullUsdcType DEF IInv, TypeOK
  <2>2. FactoryType'
    BY <1>1, <1>3, OfferingChange DEF IInv, TypeOK, FactoryType, historyVars
  <2>3. SequenceType' /\ VerifierType' /\ ComplianceType' /\ TokenType'
    BY <1>1 DEF IInv, TypeOK, sepVars, SequenceType, VerifierType, ComplianceType,
                TokenType, verifierVars, complianceVars, tokenVars
  <2> QED BY <2>1, <2>2, <2>3 DEF TypeOK
<1>5. Accounts'
  <2>1. claimed' = claimed /\ collected' = collected
    BY <1>1 DEF historyVars
  <2>2. /\ n.shares_bought = o.shares_bought /\ n.investors = o.investors
        /\ n.interest_bps = o.interest_bps /\ n.interest_pool = o.interest_pool
        /\ n.shares_total = o.shares_total
    BY <1>1, <1>2, RepaidFields
  <2>3. FactoryType /\ Accounts
    BY DEF IInv, TypeOK, Accounts
  <2>4. /\ Total(n.investors) + claimed'[r] = n.shares_bought
        /\ n.shares_bought <= n.shares_total
        /\ n.interest_pool >= Fee(n.shares_total - claimed'[r], n.interest_bps)
    BY <1>2, <2>1, <2>2 DEF Outstanding
  <2> HIDE DEF n
  <2> QED BY <1>1, <1>3, <2>1, <2>3, <2>4, AccountsOfOne
<1> QED BY <1>4, <1>5 DEF IInv, Accounts

\* claim's record is well typed: interest_pool shrinks by the interest on
\* amount, and FeesOfParts says what is left covers the rest.
LEMMA ClaimRecord ==
    ASSUME IInv, NEW i \in Users, NEW r \in Rwas, NEW amount \in Nat, NEW nonce,
           NEW deadline, Claim(i, r, amount, nonce, deadline)
    PROVE  /\ Redeemed(rwas[r], i, amount) \in Rwa
           /\ Interest(rwas[r], amount) \in Nat /\ Payout(rwas[r], amount) \in Nat
           /\ Outstanding(r) - amount \in Nat
           /\ rwas[r].interest_pool - Interest(rwas[r], amount)
                >= Fee(Outstanding(r) - amount, rwas[r].interest_bps)
<1> DEFINE o == rwas[r]
           n == Redeemed(rwas[r], i, amount)
<1>1. /\ rwas[r] # None
      /\ o.investors[i] >= amount /\ o.principal_pool >= amount
      /\ Burn(o.token, i, amount, nonce, deadline)
      /\ SendUsdc(Factory, i, Payout(o, amount))
      /\ rwas' = [rwas EXCEPT ![r] = n]
      /\ claimed' = [claimed EXCEPT ![r] = @ + amount]
      /\ UNCHANGED <<sequence, verifierVars, complianceVars, admin, protocolFeeBps,
                     collected, rescued, rescuedUsdc>>
  BY DEF Claim
<1>2. /\ o \in Rwa /\ o.investors \in [Users -> Nat]
      /\ o.shares_bought \in Nat /\ o.shares_total \in Nat
      /\ o.interest_bps \in Nat /\ o.interest_pool \in Nat /\ claimed[r] \in Nat
      /\ Total(o.investors) \in Nat
      /\ Total(o.investors) + claimed[r] = o.shares_bought
      /\ o.shares_bought <= o.shares_total
      /\ Outstanding(r) \in Nat
      /\ o.interest_pool >= Fee(Outstanding(r), o.interest_bps)
  BY <1>1, OfferingFacts
<1>3. o.investors[i] \in Nat /\ o.investors[i] <= Total(o.investors)
  BY <1>2, UsersFinite, TotalBoundsMembers
<1>4. Outstanding(r) - amount \in Nat
  BY <1>1, <1>2, <1>3 DEF Outstanding
<1>5. Interest(o, amount) \in Nat /\ Payout(o, amount) \in Nat
  <2>1. Interest(o, amount) \in Nat
    BY <1>2, FeeType DEF Interest
  <2> QED BY <2>1 DEF Payout
<1>6. Fee(Outstanding(r) - amount, o.interest_bps) \in Nat
  BY <1>2, <1>4, FeeType
<1>7. o.interest_pool - Interest(o, amount) >= Fee(Outstanding(r) - amount, o.interest_bps)
  <2>1. Fee(amount, o.interest_bps) + Fee(Outstanding(r) - amount, o.interest_bps)
          <= Fee(amount + (Outstanding(r) - amount), o.interest_bps)
    BY <1>2, <1>4, FeesOfParts
  <2>2. amount + (Outstanding(r) - amount) = Outstanding(r)
    BY <1>2
  <2>3. Fee(Outstanding(r), o.interest_bps) \in Nat
    BY <1>2, FeeType
  <2> QED BY <1>2, <1>5, <1>6, <2>1, <2>2, <2>3 DEF Interest
<1>8. n \in Rwa
  <2>1. o.interest_pool >= Interest(o, amount)
    BY <1>2, <1>5, <1>6, <1>7
  <2> QED BY <1>1, <1>2, <2>1, RedeemedType
<1> QED BY <1>4, <1>5, <1>7, <1>8

\* claim keeps the invariant: the step that TypeOK alone cannot be carried over.
LEMMA ClaimStep ==
    ASSUME IInv, NEW i \in Users, NEW r \in Rwas, NEW amount \in Nat, NEW nonce,
           NEW deadline, Claim(i, r, amount, nonce, deadline)
    PROVE  IInv'
<1> DEFINE o == rwas[r]
           n == Redeemed(rwas[r], i, amount)
<1>1. /\ rwas[r] # None
      /\ o.investors[i] >= amount /\ o.principal_pool >= amount
      /\ Burn(o.token, i, amount, nonce, deadline)
      /\ SendUsdc(Factory, i, Payout(o, amount))
      /\ rwas' = [rwas EXCEPT ![r] = n]
      /\ claimed' = [claimed EXCEPT ![r] = @ + amount]
      /\ UNCHANGED <<sequence, verifierVars, complianceVars, admin, protocolFeeBps,
                     collected, rescued, rescuedUsdc>>
  BY DEF Claim
<1>2. /\ o \in Rwa /\ o.investors \in [Users -> Nat]
      /\ o.shares_bought \in Nat /\ o.shares_total \in Nat
      /\ o.interest_bps \in Nat /\ o.interest_pool \in Nat /\ claimed[r] \in Nat
      /\ Total(o.investors) \in Nat
      /\ Total(o.investors) + claimed[r] = o.shares_bought
      /\ o.shares_bought <= o.shares_total
      /\ Outstanding(r) \in Nat
      /\ o.interest_pool >= Fee(Outstanding(r), o.interest_bps)
  BY <1>1, OfferingFacts
<1>3. o.investors[i] \in Nat /\ o.investors[i] <= Total(o.investors)
  BY <1>2, UsersFinite, TotalBoundsMembers
<1>4. /\ n \in Rwa /\ Interest(o, amount) \in Nat /\ Payout(o, amount) \in Nat
      /\ o.interest_pool - Interest(o, amount)
           >= Fee(Outstanding(r) - amount, o.interest_bps)
  BY ClaimRecord
<1>5. TypeOK'
  <2>1. UsdcType'
    BY <1>1, <1>4, SendUsdcType DEF IInv, TypeOK, Addresses
  <2>2. TokenType'
    BY <1>1, <1>2, BurnType DEF IInv, TypeOK, Rwa
  <2>3. FactoryType'
    BY <1>1, <1>4, OfferingChange DEF IInv, TypeOK, FactoryType
  <2>4. SequenceType' /\ VerifierType' /\ ComplianceType'
    BY <1>1 DEF IInv, TypeOK, SequenceType, VerifierType, ComplianceType,
                verifierVars, complianceVars
  <2> QED BY <2>1, <2>2, <2>3, <2>4 DEF TypeOK
<1>6. Accounts'
  <2>1. /\ claimed'[r] = claimed[r] + amount /\ collected' = collected
        /\ \A s \in Rwas \ {r} : claimed'[s] = claimed[s]
    BY <1>1 DEF IInv, TypeOK, FactoryType
  <2>2. /\ n.shares_bought = o.shares_bought
        /\ n.investors = [o.investors EXCEPT ![i] = o.investors[i] - amount]
        /\ n.interest_bps = o.interest_bps /\ n.shares_total = o.shares_total
        /\ n.interest_pool = o.interest_pool - Interest(o, amount)
    BY <1>1, <1>2, RedeemedFields
  <2>3. Total(n.investors) = Total(o.investors) - amount
    <3>1. o.investors[i] - amount \in Nat
      BY <1>1, <1>3
    <3>2. Total(n.investors) = Total(o.investors) - o.investors[i] + (o.investors[i] - amount)
      BY <1>2, <2>2, <3>1, UsersFinite, TotalExcept
    <3> QED BY <1>2, <1>3, <3>1, <3>2
  <2>4. FactoryType /\ Accounts
    BY DEF IInv, TypeOK, Accounts
  <2>5. /\ Total(n.investors) + claimed'[r] = n.shares_bought
        /\ n.shares_bought <= n.shares_total
    BY <1>2, <2>1, <2>2, <2>3
  <2>6. n.interest_pool >= Fee(n.shares_total - claimed'[r], n.interest_bps)
    <3>1. n.shares_total - claimed'[r] = Outstanding(r) - amount
      BY <1>2, <2>1, <2>2 DEF Outstanding
    <3> QED BY <1>4, <2>2, <3>1
  <2> HIDE DEF n
  <2> QED BY <1>1, <1>4, <2>1, <2>4, <2>5, <2>6, AccountsOfOne
<1> QED BY <1>5, <1>6 DEF IInv, Accounts

\* withdraw_fees keeps the invariant: it empties the fee pool alone.
LEMMA WithdrawFeesStep ==
    ASSUME IInv, NEW caller \in Users, NEW r \in Rwas, WithdrawFees(caller, r)
    PROVE  IInv'
<1> DEFINE o == rwas[r]
           n == [rwas[r] EXCEPT !.protocol_fee_pool = 0]
<1>1. /\ rwas[r] # None /\ admin \in Users
      /\ SendUsdc(Factory, admin, o.protocol_fee_pool)
      /\ rwas' = [rwas EXCEPT ![r] = n]
      /\ UNCHANGED <<sepVars, admin, protocolFeeBps, historyVars>>
  BY DEF WithdrawFees
<1>2. /\ o \in Rwa
      /\ Total(o.investors) + claimed[r] = o.shares_bought
      /\ o.shares_bought <= o.shares_total
      /\ o.interest_pool >= Fee(Outstanding(r), o.interest_bps)
  BY <1>1, OfferingFacts
<1>3. n \in Rwa
  BY <1>2 DEF Rwa
<1>4. TypeOK'
  <2>1. UsdcType'
    BY <1>1, <1>2, SendUsdcType DEF IInv, TypeOK, Addresses, Rwa
  <2>2. FactoryType'
    BY <1>1, <1>3, OfferingChange DEF IInv, TypeOK, FactoryType, historyVars
  <2>3. SequenceType' /\ VerifierType' /\ ComplianceType' /\ TokenType'
    BY <1>1 DEF IInv, TypeOK, sepVars, SequenceType, VerifierType, ComplianceType,
                TokenType, verifierVars, complianceVars, tokenVars
  <2> QED BY <2>1, <2>2, <2>3 DEF TypeOK
<1>5. Accounts'
  <2>1. claimed' = claimed /\ collected' = collected
    BY <1>1 DEF historyVars
  <2>2. /\ n.shares_bought = o.shares_bought /\ n.investors = o.investors
        /\ n.interest_bps = o.interest_bps /\ n.interest_pool = o.interest_pool
        /\ n.shares_total = o.shares_total
    BY <1>2 DEF Rwa
  <2>3. FactoryType /\ Accounts
    BY DEF IInv, TypeOK, Accounts
  <2>4. /\ Total(n.investors) + claimed'[r] = n.shares_bought
        /\ n.shares_bought <= n.shares_total
        /\ n.interest_pool >= Fee(n.shares_total - claimed'[r], n.interest_bps)
    BY <1>2, <2>1, <2>2 DEF Outstanding
  <2> HIDE DEF n
  <2> QED BY <1>1, <1>3, <2>1, <2>3, <2>4, AccountsOfOne
<1> QED BY <1>4, <1>5 DEF IInv, Accounts

\* emergency_withdraw of USDC keeps the invariant.
LEMMA EmergencyUsdcStep ==
    ASSUME IInv, NEW caller \in Users, NEW amount \in Int,
           EmergencyWithdrawUsdc(caller, amount)
    PROVE  IInv'
<1>1. /\ amount \in Nat /\ admin \in Users
      /\ SendUsdc(Factory, admin, amount)
      /\ rescuedUsdc' = rescuedUsdc + amount
      /\ UNCHANGED <<sepVars, factoryVars, collected, claimed, rescued>>
  BY DEF EmergencyWithdrawUsdc
<1>2. TypeOK'
  <2>1. UsdcType'
    BY <1>1, SendUsdcType DEF IInv, TypeOK, Addresses
  <2>2. FactoryType'
    BY <1>1 DEF IInv, TypeOK, FactoryType, factoryVars
  <2>3. SequenceType' /\ VerifierType' /\ ComplianceType' /\ TokenType'
    BY <1>1 DEF IInv, TypeOK, sepVars, SequenceType, VerifierType, ComplianceType,
                TokenType, verifierVars, complianceVars, tokenVars
  <2> QED BY <2>1, <2>2, <2>3 DEF TypeOK
<1>3. Accounts'
  BY <1>1, AccountsKept DEF IInv, Accounts, factoryVars
<1> QED BY <1>2, <1>3 DEF IInv, Accounts

\* emergency_withdraw of an RWA token keeps the invariant.
LEMMA EmergencyTokenStep ==
    ASSUME IInv, NEW caller \in Users, NEW t \in Tokens, NEW amount \in Int,
           EmergencyWithdrawToken(caller, t, amount)
    PROVE  IInv'
<1>1. /\ amount \in Nat /\ admin \in Users
      /\ TransferToken(t, Factory, admin, amount)
      /\ rescued' = [rescued EXCEPT ![t] = @ + amount]
      /\ UNCHANGED <<sequence, verifierVars, complianceVars, usdcVars, factoryVars,
                     collected, claimed, rescuedUsdc>>
  BY DEF EmergencyWithdrawToken
<1>2. TypeOK'
  <2>1. TokenType'
    BY <1>1, TransferTokenType DEF IInv, TypeOK, Addresses
  <2>2. FactoryType'
    BY <1>1 DEF IInv, TypeOK, FactoryType, factoryVars
  <2>3. SequenceType' /\ VerifierType' /\ ComplianceType' /\ UsdcType'
    BY <1>1 DEF IInv, TypeOK, SequenceType, VerifierType, ComplianceType,
                UsdcType, verifierVars, complianceVars, usdcVars
  <2> QED BY <2>1, <2>2, <2>3 DEF TypeOK
<1>3. Accounts'
  BY <1>1, AccountsKept DEF IInv, Accounts, factoryVars
<1> QED BY <1>2, <1>3 DEF IInv, Accounts
-----------------------------------------------------------------------------
(* Direct calls of the other contracts. *)

\* Calls that go past the factory keep the invariant.
LEMMA DirectSteps ==
    ASSUME IInv, DirectStep, UNCHANGED <<factoryVars, historyVars>>
    PROVE  IInv'
<1>1. FactoryType' /\ Accounts'
  <2>1. FactoryType'
    BY DEF IInv, TypeOK, FactoryType, factoryVars, historyVars
  <2>2. Accounts'
    BY AccountsKept DEF IInv, Accounts, factoryVars, historyVars
  <2> QED BY <2>1, <2>2
<1>2. SequenceType' /\ VerifierType' /\ ComplianceType' /\ TokenType' /\ UsdcType'
  <2> USE DEF SequenceType, VerifierType, ComplianceType, TokenType, UsdcType,
              verifierVars, complianceVars, tokenVars, usdcVars
  <2>1. CASE CloseLedger /\ UNCHANGED <<verifierVars, complianceVars, tokenVars, usdcVars>>
    BY <2>1, MaxSequenceType DEF IInv, TypeOK, CloseLedger
  <2>2. CASE VerifierNext /\ UNCHANGED <<sequence, complianceVars, tokenVars, usdcVars>>
    <3>1. VerifierType'
      <4> HIDE DEF VerifierType
      <4> QED BY <2>2, VerifierCallsType DEF IInv, TypeOK
    <3> QED BY <2>2, <3>1 DEF IInv, TypeOK
  <2>3. CASE /\ InitializeCompliance(Factory)
             /\ UNCHANGED <<sequence, verifierVars, tokenVars, usdcVars>>
    BY <2>3 DEF IInv, TypeOK, InitializeCompliance, Addresses
  <2>4. CASE /\ DirectTransfer \/ RelayPermit
             /\ UNCHANGED <<sequence, verifierVars, complianceVars, usdcVars>>
    <3>1. TokenType'
      <4> HIDE DEF TokenType
      <4> QED BY <2>4, TokenCallsType DEF IInv, TypeOK
    <3> QED BY <2>4, <3>1 DEF IInv, TypeOK
  <2>5. CASE UsdcNext /\ UNCHANGED sepVars
    <3>1. UsdcType'
      <4>1. ASSUME NEW a \in Approvals, Approve(a.from, a.amount, a.until)
            PROVE  UsdcType'
        BY <4>1, ApprovalsType DEF IInv, TypeOK, Approve
      <4>2. ASSUME NEW p \in Payments, SendUsdc(p.from, p.to, p.amount)
            PROVE  UsdcType'
        <5>1. p.from \in Addresses /\ p.to \in Addresses /\ p.amount \in Nat
          BY PaymentsType DEF Addresses
        <5> HIDE DEF UsdcType
        <5> QED BY <4>2, <5>1, SendUsdcType DEF IInv, TypeOK
      <4> QED BY <2>5, <4>1, <4>2 DEF UsdcNext
    <3> QED BY <2>5, <3>1 DEF IInv, TypeOK, sepVars
  <2> QED BY <2>1, <2>2, <2>3, <2>4, <2>5 DEF DirectStep
<1> QED BY <1>1, <1>2 DEF IInv, TypeOK, Accounts
-----------------------------------------------------------------------------
(* The invariant, and what follows from it. *)

\* The invariant holds before initialize.
LEMMA InitIInv == Init => IInv
<1> SUFFICES ASSUME Init PROVE IInv
  OBVIOUS
<1>1. TypeOK
  <2>1. SequenceType /\ VerifierType /\ ComplianceType /\ TokenType
    BY MaxSequenceType DEF Init, SepInit, SequenceInit, SequenceType, VerifierInit,
       VerifierType, ComplianceInit, ComplianceType, TokenInit, TokenType
  <2>2. UsdcType
    BY InitialUsdcType DEF Init, UsdcInit, UsdcType, Addresses
  <2>3. FactoryType
    BY DEF Init, FactoryType
  <2> QED BY <2>1, <2>2, <2>3 DEF TypeOK
<1>2. Offerings = {}
  BY DEF Init, Offerings
<1>3. FreshOfferings /\ SharesConserved /\ InterestCovered
  BY <1>2 DEF Init, FreshOfferings, SharesConserved, InterestCovered
<1> QED BY <1>1, <1>3 DEF IInv

\* Every entry point of the factory keeps the invariant.
LEMMA FactorySteps ==
    ASSUME IInv, FactoryStep
    PROVE  IInv'
<1>1. CASE Initialize(FactoryAdmin, ProtocolFeeBps)
  BY <1>1, InitializeStep
<1>2. ASSUME NEW shipper \in Users, NEW r \in Rwas, NEW raise \in RaiseAmounts,
             NEW bps \in InterestBps, NEW p \in Permits,
             CreateRwaToken(shipper, r, raise, bps, p.token, p.nonce, p.deadline)
      PROVE  IInv'
  <2>1. raise \in Int /\ bps \in Int /\ p.token \in Tokens
    BY FactoryInputsType, PermitsType DEF Permit
  <2> QED BY <1>2, <2>1, CreateStep
<1>3. ASSUME NEW i \in Users, NEW r \in Rwas, NEW amount \in BuyAmounts,
             BuyShares(i, r, amount)
      PROVE  IInv'
  <2>1. amount \in Int
    BY FactoryInputsType
  <2> QED BY <1>3, <2>1, BuyStep
<1>4. ASSUME NEW shipper \in Users, NEW r \in Rwas, CollectFund(shipper, r)
      PROVE  IInv'
  BY <1>4, CollectStep
<1>5. ASSUME NEW shipper \in Users, NEW r \in Rwas, NEW principal \in SettleAmounts,
             SettleDebt(shipper, r, principal)
      PROVE  IInv'
  <2>1. principal \in Int
    BY FactoryInputsType
  <2> QED BY <1>5, <2>1, SettleStep
<1>6. ASSUME NEW p \in Permits, NEW r \in Rwas, p.account \in Users,
             Claim(p.account, r, p.amount, p.nonce, p.deadline)
      PROVE  IInv'
  <2>1. p.amount \in Nat
    BY PermitsType DEF Permit
  <2> QED BY <1>6, <2>1, ClaimStep
<1>7. ASSUME NEW caller \in Users, NEW r \in Rwas, WithdrawFees(caller, r)
      PROVE  IInv'
  BY <1>7, WithdrawFeesStep
<1>8. ASSUME NEW caller \in Users, NEW amount \in EmergencyAmounts,
             EmergencyWithdrawUsdc(caller, amount)
      PROVE  IInv'
  <2>1. amount \in Int
    BY FactoryInputsType
  <2> QED BY <1>8, <2>1, EmergencyUsdcStep
<1>9. ASSUME NEW caller \in Users, NEW amount \in EmergencyAmounts, NEW t \in Tokens,
             EmergencyWithdrawToken(caller, t, amount)
      PROVE  IInv'
  <2>1. amount \in Int
    BY FactoryInputsType
  <2> QED BY <1>9, <2>1, EmergencyTokenStep
<1> QED BY <1>1, <1>2, <1>3, <1>4, <1>5, <1>6, <1>7, <1>8, <1>9 DEF FactoryStep

\* The invariant is inductive.
LEMMA NextIInv == IInv /\ [Next]_vars => IInv'
<1> SUFFICES ASSUME IInv, [Next]_vars PROVE IInv'
  OBVIOUS
<1>1. CASE FactoryStep
  BY <1>1, FactorySteps
<1>2. CASE DirectStep /\ UNCHANGED <<factoryVars, historyVars>>
  BY <1>2, DirectSteps
<1>3. CASE UNCHANGED vars
  <2>1. TypeOK'
    BY <1>3 DEF IInv, TypeOK, vars, sepVars, verifierVars, complianceVars, tokenVars,
         usdcVars, factoryVars, historyVars, SequenceType, VerifierType,
         ComplianceType, TokenType, UsdcType, FactoryType
  <2>2. Accounts'
    BY <1>3, AccountsKept DEF IInv, Accounts, vars, factoryVars, historyVars
  <2> QED BY <2>1, <2>2 DEF IInv, Accounts
<1> QED BY <1>1, <1>2, <1>3 DEF Next

\* Every reachable state satisfies the inductive invariant.
THEOREM InductiveInvariant == Spec => []IInv
<1> QED BY InitIInv, NextIInv, PTL DEF Spec

\* Every state has the types TypeOK gives it: in particular no pool, balance or
\* allocation is ever negative, whatever sequence of calls led there.
THEOREM TypeCorrect == Spec => []TypeOK
<1>1. IInv => TypeOK
  BY DEF IInv
<1> QED BY <1>1, InductiveInvariant, PTL

\* buy_shares and claim never lose or invent a share of an offering.
THEOREM SharesAreConserved == Spec => []SharesConserved
<1>1. IInv => SharesConserved
  BY DEF IInv
<1> QED BY <1>1, InductiveInvariant, PTL

\* The prepaid interest covers the shares not yet redeemed under any rounding.
THEOREM InterestIsCovered == Spec => []InterestCovered
<1>1. IInv => InterestCovered
  BY DEF IInv
<1> QED BY <1>1, InductiveInvariant, PTL
-----------------------------------------------------------------------------
(***************************************************************************)
(* 3. Custody: what the factory holds of each token and of USDC accounts for*)
(* what it owes, and money leaves a principal pool by redemption alone.    *)
(***************************************************************************)

\* initialize only ever runs with the admin of the deployment.
AdminKnown == admin \in {FactoryAdmin, None}

\* UnsoldSharesHeld is inductive only together with OneTokenPerOffering: a
\* purchase takes tokens of one offering, which must back no other.
Custody == OneTokenPerOffering /\ UnsoldSharesHeld /\ EscrowAccounted
CInv == IInv /\ AdminKnown /\ Custody
-----------------------------------------------------------------------------
(* What a call moves between the factory and the others. *)

\* transfer_from by the factory moves the amount from the user to the factory.
LEMMA PullMoves ==
    ASSUME UsdcType, NEW from \in Users, NEW amount \in Nat, PullUsdc(from, amount)
    PROVE  /\ usdc[Factory] \in Nat /\ usdc'[Factory] = usdc[Factory] + amount
           /\ usdc[from] \in Nat /\ amount <= usdc[from]
           /\ \A u \in Users : usdc'[u] = IF u = from THEN usdc[u] - amount ELSE usdc[u]
BY FactoryIsNoUser DEF PullUsdc, Paid, UsdcType, Addresses

\* A payment by the factory moves the amount to the user.
LEMMA SendMoves ==
    ASSUME UsdcType, NEW to \in Users, NEW amount \in Nat,
           SendUsdc(Factory, to, amount)
    PROVE  /\ usdc[Factory] \in Nat /\ amount <= usdc[Factory]
           /\ usdc'[Factory] = usdc[Factory] - amount
           /\ \A u \in Users : usdc'[u] = IF u = to THEN usdc[u] + amount ELSE usdc[u]
BY FactoryIsNoUser DEF SendUsdc, Paid, UsdcType, Addresses

\* A payment between accounts takes nothing from the factory.
LEMMA PaymentsSpareFactory ==
    ASSUME UsdcType, UsdcNext
    PROVE  usdc[Factory] \in Nat /\ usdc'[Factory] \in Nat /\ usdc'[Factory] >= usdc[Factory]
<1>0. usdc[Factory] \in Nat
  BY DEF UsdcType, Addresses
<1>1. ASSUME NEW a \in Approvals, Approve(a.from, a.amount, a.until)
      PROVE  usdc' = usdc
  BY <1>1 DEF Approve
<1>2. ASSUME NEW p \in Payments, SendUsdc(p.from, p.to, p.amount)
      PROVE  usdc'[Factory] \in Nat /\ usdc'[Factory] >= usdc[Factory]
  <2>1. p.from \in Users /\ p.to \in Addresses /\ p.amount \in Nat
    BY PaymentsType
  <2> QED BY <1>2, <2>1, FactoryIsNoUser DEF SendUsdc, Paid, UsdcType, Addresses
<1> QED BY <1>0, <1>1, <1>2 DEF UsdcNext

\* A transfer out of the factory takes the amount of that token from it, and no
\* other token.
LEMMA FactoryTransfers ==
    ASSUME TokenType, NEW t \in Tokens, NEW to \in Users, NEW amount \in Nat,
           TransferToken(t, Factory, to, amount)
    PROVE  /\ deployed' = deployed
           /\ \A s \in Tokens :
                balance'[s][Factory] = balance[s][Factory] - (IF s = t THEN amount ELSE 0)
<1>1. /\ deployed' = deployed
      /\ balance' = [balance EXCEPT ![t] = Moved(balance[t], Factory, to, amount)]
  BY DEF TransferToken
<1>2. Moved(balance[t], Factory, to, amount)[Factory] = balance[t][Factory] - amount
  BY FactoryIsNoUser DEF Moved, TokenType, Addresses
<1>3. \A s \in Tokens : balance[s][Factory] \in Nat
  BY DEF TokenType, Addresses
<1> QED BY <1>1, <1>2, <1>3 DEF TokenType

\* A burn of an investor's tokens leaves the factory's alone.
LEMMA BurnSparesFactory ==
    ASSUME TokenType, NEW t \in Tokens, NEW from, NEW amount, NEW nonce, NEW deadline,
           Burn(t, from, amount, nonce, deadline)
    PROVE  /\ deployed' = deployed
           /\ \A s \in Tokens : balance'[s][Factory] = balance[s][Factory]
<1>1. UsePermit("burn", t, from, amount, nonce, deadline)
  BY DEF Burn
<1>2. from \in Users
  BY <1>1, BurnPermitsAreInvestors DEF UsePermit
<1>3. balance' = [balance EXCEPT ![t][from] = @ - amount] /\ deployed' = deployed
  BY DEF Burn
<1> QED BY <1>2, <1>3, FactoryIsNoUser DEF TokenType, Addresses

\* Direct calls of the tokens take nothing from the factory.
LEMMA TokenCallsSpareFactory ==
    ASSUME TokenType, DirectTransfer \/ RelayPermit
    PROVE  /\ deployed' = deployed
           /\ \A s \in Tokens : balance'[s][Factory] >= balance[s][Factory]
<1>0. \A s \in Tokens : balance[s][Factory] \in Nat
  BY DEF TokenType, Addresses
<1>1. ASSUME NEW t \in Tokens, NEW from \in Users, NEW to \in Addresses,
             NEW amount \in TransferAmounts, TransferToken(t, from, to, amount)
      PROVE  /\ deployed' = deployed
             /\ \A s \in Tokens : balance'[s][Factory] >= balance[s][Factory]
  <2>1. amount \in Nat
    BY TransferAmountsType
  <2>2. /\ deployed' = deployed
        /\ balance' = [balance EXCEPT ![t] = Moved(balance[t], from, to, amount)]
    BY <1>1 DEF TransferToken
  <2>3. Moved(balance[t], from, to, amount)[Factory] >= balance[t][Factory]
    BY <1>0, <2>1, FactoryIsNoUser DEF Moved, TokenType, Addresses
  <2> QED BY <1>0, <2>2, <2>3 DEF TokenType
<1>2. ASSUME NEW p \in Permits,
             Mint(p.token, p.account, p.amount, p.nonce, p.deadline)
      PROVE  /\ deployed' = deployed
             /\ \A s \in Tokens : balance'[s][Factory] >= balance[s][Factory]
  <2>1. p.token \in Tokens /\ p.account \in Addresses /\ p.amount \in Nat
    BY PermitsType DEF Permit
  <2>2. /\ deployed' = deployed
        /\ balance' = [balance EXCEPT ![p.token][p.account] = @ + p.amount]
    BY <1>2 DEF Mint
  <2> QED BY <1>0, <2>1, <2>2 DEF TokenType, Addresses
<1>3. ASSUME NEW p \in Permits,
             Burn(p.token, p.account, p.amount, p.nonce, p.deadline)
      PROVE  /\ deployed' = deployed
             /\ \A s \in Tokens : balance'[s][Factory] >= balance[s][Factory]
  <2>1. p.token \in Tokens
    BY PermitsType DEF Permit
  <2> QED BY <1>0, <1>3, <2>1, BurnSparesFactory
<1> QED BY <1>1, <1>2, <1>3 DEF DirectTransfer, RelayPermit
-----------------------------------------------------------------------------
(* Which parts of custody a step can disturb. *)

\* What the factory owes on an offering with this record.
Owed(o) ==
    o.interest_pool + o.protocol_fee_pool + o.principal_pool + o.shares_bought

\* A purchase takes the amount off the shares on sale and adds it to what is
\* owed.
LEMMA BoughtOwes ==
    ASSUME NEW o \in Rwa, NEW i \in Users, NEW amount \in Nat
    PROVE  /\ SharesAvailable(Bought(o, i, amount)) <= SharesAvailable(o) - amount
           /\ Owed(Bought(o, i, amount)) = Owed(o) - (0 - amount)
<1> DEFINE n == Bought(o, i, amount)
<1>1. /\ n.shares_bought = o.shares_bought + amount
      /\ n.interest_pool = o.interest_pool /\ n.protocol_fee_pool = o.protocol_fee_pool
      /\ n.principal_pool = o.principal_pool /\ n.shares_total = o.shares_total
  BY BoughtFields
<1>2. /\ o.shares_bought \in Nat /\ o.interest_pool \in Nat /\ o.protocol_fee_pool \in Nat
      /\ o.principal_pool \in Nat /\ o.shares_total \in Nat
  BY DEF Rwa
<1> HIDE DEF n
<1>3. SharesAvailable(n) <= SharesAvailable(o) - amount /\ Owed(n) = Owed(o) - (0 - amount)
  BY <1>1, <1>2 DEF SharesAvailable, Owed
<1> QED BY <1>3 DEF n

\* A claim takes its payout off what is owed and leaves the shares on sale.
LEMMA RedeemedOwes ==
    ASSUME NEW o \in Rwa, NEW i \in Users, NEW amount \in Nat
    PROVE  /\ SharesAvailable(Redeemed(o, i, amount)) <= SharesAvailable(o) - 0
           /\ Owed(Redeemed(o, i, amount)) = Owed(o) - Payout(o, amount)
<1> DEFINE n == Redeemed(o, i, amount)
           int == Interest(o, amount)
<1>1. /\ n.shares_bought = o.shares_bought
      /\ n.interest_pool = o.interest_pool - int
      /\ n.protocol_fee_pool = o.protocol_fee_pool
      /\ n.principal_pool = o.principal_pool - amount /\ n.shares_total = o.shares_total
  BY RedeemedFields
<1>2. /\ o.shares_bought \in Nat /\ o.interest_pool \in Nat /\ o.protocol_fee_pool \in Nat
      /\ o.principal_pool \in Nat /\ o.shares_total \in Nat /\ o.interest_bps \in Nat
  BY DEF Rwa
<1>3. int \in Nat /\ Payout(o, amount) = amount + int
  BY <1>2, FeeType DEF Interest, Payout
<1> HIDE DEF n, int
<1>4. SharesAvailable(n) <= SharesAvailable(o) - 0 /\ Owed(n) = Owed(o) - Payout(o, amount)
  BY <1>1, <1>2, <1>3 DEF SharesAvailable, Owed
<1> QED BY <1>4 DEF n

\* The pools and the raise of an offering are amounts, and what it owes.
LEMMA PoolsType ==
    ASSUME FactoryType
    PROVE  /\ [s \in Rwas |-> PoolsOf(s)] \in [Rwas -> Nat]
           /\ [s \in Rwas |-> RaisedBy(s)] \in [Rwas -> Nat]
           /\ Pools \in Nat /\ Raised \in Nat /\ Total(collected) \in Nat
<1>1. \A s \in Rwas : PoolsOf(s) \in Nat /\ RaisedBy(s) \in Nat
  <2> SUFFICES ASSUME NEW s \in Rwas PROVE PoolsOf(s) \in Nat /\ RaisedBy(s) \in Nat
    OBVIOUS
  <2>1. CASE rwas[s] = None
    BY <2>1 DEF PoolsOf, RaisedBy
  <2>2. CASE rwas[s] \in Rwa
    BY <2>2, NoneIsNoRwa DEF PoolsOf, RaisedBy, Rwa
  <2> QED BY <2>1, <2>2 DEF FactoryType
<1>2. collected \in [Rwas -> Nat]
  BY DEF FactoryType
<1>3. Total(collected) \in Nat
  BY <1>2, RwasFinite, TotalType
<1>4. /\ [s \in Rwas |-> PoolsOf(s)] \in [Rwas -> Nat]
      /\ [s \in Rwas |-> RaisedBy(s)] \in [Rwas -> Nat]
  BY <1>1
<1>5. Pools \in Nat /\ Raised \in Nat
  <2> DEFINE f == [s \in Rwas |-> PoolsOf(s)]
             g == [s \in Rwas |-> RaisedBy(s)]
  <2> HIDE DEF f, g
  <2>1. f \in [Rwas -> Nat] /\ g \in [Rwas -> Nat]
    BY <1>4 DEF f, g
  <2>2. Total(f) \in Nat /\ Total(g) \in Nat
    BY <2>1, RwasFinite, TotalType
  <2> QED BY <2>2 DEF Pools, Raised, f, g
<1> QED BY <1>3, <1>4, <1>5

\* Replacing the record of one offering changes what all are owed by what
\* that one is.
LEMMA OwedByOne ==
    ASSUME FactoryType, NEW r \in Rwas, NEW o \in Rwa, rwas' = [rwas EXCEPT ![r] = o]
    PROVE  /\ Pools' \in Nat /\ Raised' \in Nat
           /\ Pools' + Raised' = Pools + Raised - PoolsOf(r) - RaisedBy(r) + Owed(o)
<1> DEFINE f == [s \in Rwas |-> PoolsOf(s)]
           g == [s \in Rwas |-> RaisedBy(s)]
           p == o.interest_pool + o.protocol_fee_pool + o.principal_pool
           b == o.shares_bought
<1>1. /\ f \in [Rwas -> Nat] /\ g \in [Rwas -> Nat]
      /\ Pools = Total(f) /\ Raised = Total(g)
      /\ Pools \in Nat /\ Raised \in Nat
      /\ f[r] = PoolsOf(r) /\ g[r] = RaisedBy(r)
  BY PoolsType DEF Pools, Raised
<1>2. p \in Nat /\ b \in Nat /\ Owed(o) = p + b
  BY DEF Rwa, Owed
<1>3. /\ rwas'[r] = o /\ o # None
      /\ \A s \in Rwas \ {r} : rwas'[s] = rwas[s]
  BY OfferingChange, NoneIsNoRwa
<1>4. [s \in Rwas |-> PoolsOf(s)'] = [f EXCEPT ![r] = p]
  <2>1. PoolsOf(r)' = p /\ \A s \in Rwas \ {r} : PoolsOf(s)' = PoolsOf(s)
    BY <1>3 DEF PoolsOf
  <2> HIDE DEF p
  <2> QED BY <2>1
<1>5. [s \in Rwas |-> RaisedBy(s)'] = [g EXCEPT ![r] = b]
  <2>1. RaisedBy(r)' = b /\ \A s \in Rwas \ {r} : RaisedBy(s)' = RaisedBy(s)
    BY <1>3 DEF RaisedBy
  <2> HIDE DEF b
  <2> QED BY <2>1
<1>6. Pools' = Total([f EXCEPT ![r] = p]) /\ Raised' = Total([g EXCEPT ![r] = b])
  BY <1>4, <1>5 DEF Pools, Raised
<1>7. /\ Total([f EXCEPT ![r] = p]) = Total(f) - f[r] + p
      /\ Total([g EXCEPT ![r] = b]) = Total(g) - g[r] + b
  <2> HIDE DEF f, g, p, b
  <2>1. Total([f EXCEPT ![r] = p]) = Total(f) - f[r] + p
    BY <1>1, <1>2, RwasFinite, TotalExcept
  <2>2. Total([g EXCEPT ![r] = b]) = Total(g) - g[r] + b
    BY <1>1, <1>2, RwasFinite, TotalExcept
  <2> QED BY <2>1, <2>2
<1>8. f[r] \in Nat /\ g[r] \in Nat /\ f[r] <= Total(f) /\ g[r] <= Total(g)
  <2> HIDE DEF f, g
  <2>1. f[r] <= Total(f) /\ g[r] <= Total(g)
    BY <1>1, RwasFinite, TotalBoundsMembers
  <2> QED BY <1>1, <2>1
<1> HIDE DEF f, g, p, b
<1> QED BY <1>1, <1>2, <1>6, <1>7, <1>8

\* A step that leaves the offerings alone, lets no token leave the factory
\* uncounted and no USDC either, keeps custody.
LEMMA CustodyKept ==
    ASSUME TypeOK, TypeOK', Custody, rwas' = rwas,
           bound' = bound, maxBalance' = maxBalance, deployed' = deployed,
           \A t \in Tokens : balance'[t][Factory] + rescued'[t]
                               >= balance[t][Factory] + rescued[t],
           usdc'[Factory] + Total(collected') + rescuedUsdc'
             >= usdc[Factory] + Total(collected) + rescuedUsdc
    PROVE  Custody'
<1>1. Offerings' = Offerings
  BY DEF Offerings
<1>2. OneTokenPerOffering'
  BY <1>1 DEF Custody, OneTokenPerOffering
<1>3. UnsoldSharesHeld'
  <2> SUFFICES ASSUME NEW r \in Offerings
               PROVE  balance'[rwas[r].token][Factory] + rescued'[rwas[r].token]
                        >= SharesAvailable(rwas[r])
    BY <1>1 DEF UnsoldSharesHeld
  <2> DEFINE t == rwas[r].token
  <2>1. rwas[r] \in Rwa
    BY DEF Offerings, TypeOK, FactoryType
  <2>2. t \in Tokens /\ SharesAvailable(rwas[r]) \in Int
    BY <2>1 DEF Rwa, SharesAvailable
  <2>3. balance[t][Factory] \in Nat /\ rescued[t] \in Nat
    BY <2>2 DEF TypeOK, TokenType, FactoryType, Addresses
  <2>4. balance[t][Factory] + rescued[t] >= SharesAvailable(rwas[r])
    BY DEF Custody, UnsoldSharesHeld
  <2>5. balance'[t][Factory] \in Nat /\ rescued'[t] \in Nat
    BY <2>2 DEF TypeOK, TokenType, FactoryType, Addresses
  <2>6. balance'[t][Factory] + rescued'[t] >= balance[t][Factory] + rescued[t]
    BY <2>2
  <2> HIDE DEF t
  <2>7. balance'[t][Factory] + rescued'[t] >= SharesAvailable(rwas[r])
    BY <2>2, <2>3, <2>4, <2>5, <2>6
  <2> QED BY <2>7 DEF t
<1>4. EscrowAccounted'
  <2>1. Pools' = Pools /\ Raised' = Raised
    BY DEF Pools, Raised, PoolsOf, RaisedBy
  <2>2. /\ Pools \in Nat /\ Raised \in Nat /\ Total(collected) \in Nat
        /\ usdc[Factory] \in Nat /\ rescuedUsdc \in Nat
    BY PoolsType DEF TypeOK, FactoryType, UsdcType, Addresses
  <2>3. usdc'[Factory] \in Nat /\ Total(collected') \in Nat /\ rescuedUsdc' \in Nat
    BY RwasFinite, TotalType DEF TypeOK, FactoryType, UsdcType, Addresses
  <2> QED BY <2>1, <2>2, <2>3 DEF Custody, EscrowAccounted
<1> QED BY <1>2, <1>3, <1>4 DEF Custody

\* A step that changes one existing offering's record keeps custody if it
\* takes no more tokens and no more USDC than it takes off the record.
LEMMA CustodyOfOne ==
    ASSUME TypeOK, Custody, NEW r \in Offerings, NEW o \in Rwa,
           rwas' = [rwas EXCEPT ![r] = o], o.token = rwas[r].token,
           UNCHANGED complianceVars, deployed' = deployed, rescued' = rescued,
           NEW left \in Nat, NEW out \in Int,
           \A t \in Tokens : balance'[t][Factory]
               = balance[t][Factory] - (IF t = o.token THEN left ELSE 0),
           SharesAvailable(o) <= SharesAvailable(rwas[r]) - left,
           UNCHANGED <<collected, rescuedUsdc>>,
           usdc'[Factory] = usdc[Factory] - out,
           Owed(o) = Owed(rwas[r]) - out
    PROVE  Custody'
<1>0. r \in Rwas /\ rwas[r] # None /\ rwas[r] \in Rwa
  BY DEF Offerings, TypeOK, FactoryType
<1>1. /\ rwas'[r] = o
      /\ \A s \in Rwas \ {r} : rwas'[s] = rwas[s]
      /\ Offerings' = Offerings
  <2>1. FactoryType /\ rwas' = [rwas EXCEPT ![r] = o]
    BY DEF TypeOK
  <2>2. /\ rwas'[r] = o /\ \A s \in Rwas \ {r} : rwas'[s] = rwas[s]
        /\ Offerings' = Offerings \cup {r}
    BY ONLY <1>0, <2>1, OfferingChange, o \in Rwa
  <2>3. Offerings \cup {r} = Offerings
    OBVIOUS
  <2> QED BY <2>2, <2>3
<1>2. \A s \in Offerings : rwas'[s].token = rwas[s].token
  BY <1>1 DEF Offerings
<1>3. OneTokenPerOffering'
  BY <1>1, <1>2 DEF Custody, OneTokenPerOffering, complianceVars
<1>4. UnsoldSharesHeld'
  <2> SUFFICES ASSUME NEW s \in Offerings
               PROVE  balance'[rwas[s].token][Factory] + rescued[rwas[s].token]
                        >= SharesAvailable(rwas'[s])
    BY <1>1, <1>2 DEF UnsoldSharesHeld
  <2> DEFINE t == rwas[s].token
  <2>1. rwas[s] \in Rwa /\ s \in Rwas
    BY DEF Offerings, TypeOK, FactoryType
  <2>2. t \in Tokens /\ SharesAvailable(rwas[s]) \in Int /\ SharesAvailable(o) \in Int
    BY <2>1 DEF Rwa, SharesAvailable
  <2>3. balance[t][Factory] \in Nat /\ rescued[t] \in Nat
    BY <2>2 DEF TypeOK, TokenType, FactoryType, Addresses
  <2>4. balance[t][Factory] + rescued[t] >= SharesAvailable(rwas[s])
    BY DEF Custody, UnsoldSharesHeld
  <2>5. CASE s = r
    <3>1. balance'[t][Factory] = balance[t][Factory] - left
      BY <2>2, <2>5
    <3>2. SharesAvailable(o) <= SharesAvailable(rwas[s]) - left /\ rwas'[s] = o
      BY <1>1, <2>5
    <3> HIDE DEF t
    <3>3. balance'[t][Factory] + rescued[t] >= SharesAvailable(rwas'[s])
      BY <2>2, <2>3, <2>4, <3>1, <3>2
    <3> QED BY <3>3 DEF t
  <2>6. CASE s # r
    <3>1. t # o.token
      BY <2>6 DEF Custody, OneTokenPerOffering
    <3>2. balance'[t][Factory] = balance[t][Factory]
      BY <2>2, <2>3, <3>1
    <3> QED BY <1>1, <2>1, <2>4, <2>6, <3>2
  <2> QED BY <2>5, <2>6
<1>5. EscrowAccounted'
  <2>1. /\ Pools' \in Nat /\ Raised' \in Nat
        /\ Pools' + Raised' = Pools + Raised - PoolsOf(r) - RaisedBy(r) + Owed(o)
    BY <1>0, OwedByOne DEF TypeOK
  <2>2. PoolsOf(r) \in Nat /\ RaisedBy(r) \in Nat /\ PoolsOf(r) + RaisedBy(r) = Owed(rwas[r])
    BY <1>0 DEF PoolsOf, RaisedBy, Owed, Rwa
  <2>3. /\ Pools \in Nat /\ Raised \in Nat /\ Total(collected) \in Nat
        /\ usdc[Factory] \in Nat /\ rescuedUsdc \in Nat
    BY PoolsType DEF TypeOK, FactoryType, UsdcType, Addresses
  <2>4. Pools' + Raised' = Pools + Raised - out
    BY <2>1, <2>2, <2>3
  <2>5. Total(collected') = Total(collected) /\ rescuedUsdc' = rescuedUsdc
    OBVIOUS
  <2>6. usdc[Factory] + Total(collected) + rescuedUsdc >= Pools + Raised
    BY DEF Custody, EscrowAccounted
  <2>7. usdc'[Factory] + Total(collected) + rescuedUsdc >= Pools + Raised - out
    BY <2>3, <2>6
  <2>8. usdc'[Factory] + Total(collected') + rescuedUsdc' >= Pools' + Raised'
    BY <2>4, <2>5, <2>7
  <2> QED BY <2>8 DEF EscrowAccounted
<1> QED BY <1>3, <1>4, <1>5 DEF Custody
-----------------------------------------------------------------------------
(* Every entry point keeps custody. *)

\* create_rwa_token: the new token is bound, uncapped and held whole, no other
\* offering has it, and the prepaid pools have arrived.
LEMMA CreateCustody ==
    ASSUME IInv, Custody, NEW shipper \in Users, NEW r \in Rwas, NEW raise \in Int,
           NEW bps \in Int, NEW t \in Tokens, NEW nonce, NEW deadline,
           CreateRwaToken(shipper, r, raise, bps, t, nonce, deadline)
    PROVE  Custody'
<1> DEFINE o == NewOffering(shipper, raise, bps, t)
           upfront == Upfront(raise, bps)
<1> USE DEF IInv
<1>1. /\ raise \in Nat /\ bps \in Nat /\ protocolFeeBps \in Nat /\ rwas[r] = None
      /\ rwas' = [rwas EXCEPT ![r] = o]
      /\ PullUsdc(shipper, upfront)
      /\ IssueToken(t, raise, nonce, deadline)
      /\ UNCHANGED historyVars
  BY DEF CreateRwaToken, TypeOK, FactoryType
<1>2. o \in Rwa /\ o.token = t
  BY <1>1, NewOfferingType DEF NewOffering
<1>3. upfront \in Nat /\ Owed(o) = upfront /\ SharesAvailable(o) = raise
  <2>1. Fee(raise, bps) \in Nat /\ Fee(raise, protocolFeeBps) \in Nat
    BY <1>1, FeeType
  <2>2. /\ o.interest_pool = Fee(raise, bps)
        /\ o.protocol_fee_pool = Fee(raise, protocolFeeBps)
        /\ o.principal_pool = 0 /\ o.shares_bought = 0 /\ o.shares_total = raise
    BY DEF NewOffering
  <2> HIDE DEF o
  <2> QED BY <1>1, <2>1, <2>2 DEF Upfront, Owed, SharesAvailable
<1>4. /\ rwas'[r] = o /\ Offerings' = Offerings \cup {r} /\ r \notin Offerings
      /\ \A s \in Offerings : rwas'[s] = rwas[s]
  <2>1. FactoryType
    BY DEF TypeOK
  <2> HIDE DEF o
  <2> QED BY <1>1, <1>2, <2>1, OfferingChange DEF Offerings
<1>5. /\ t \notin deployed /\ deployed' = deployed \cup {t} /\ bound' = bound \cup {t}
      /\ maxBalance' = [maxBalance EXCEPT ![t] = I128Max]
      /\ balance' = [balance EXCEPT ![t][Factory] = @ + raise]
  BY <1>1 DEF IssueToken
<1>6. \A s \in Offerings : /\ rwas[s] \in Rwa /\ rwas[s].token \in Tokens
                           /\ rwas[s].token \in deployed /\ rwas[s].token # t
  BY <1>5 DEF Offerings, TypeOK, FactoryType, Rwa, Custody, OneTokenPerOffering
<1>7. OneTokenPerOffering'
  <2>1. \A s \in Offerings : /\ rwas'[s].token \in deployed' \cap bound'
                             /\ maxBalance'[rwas'[s].token] = I128Max
    BY <1>4, <1>5, <1>6 DEF Custody, OneTokenPerOffering, TypeOK, ComplianceType
  <2>2. rwas'[r].token \in deployed' \cap bound' /\ maxBalance'[rwas'[r].token] = I128Max
    BY <1>2, <1>4, <1>5 DEF TypeOK, ComplianceType
  <2>3. \A s \in Offerings : rwas'[s].token # rwas'[r].token
    BY <1>2, <1>4, <1>6
  <2>4. \A s, q \in Offerings : rwas'[s].token = rwas'[q].token => s = q
    BY <1>4 DEF Custody, OneTokenPerOffering
  <2> HIDE DEF o
  <2> QED BY <1>4, <2>1, <2>2, <2>3, <2>4 DEF OneTokenPerOffering
<1>8. UnsoldSharesHeld'
  <2>1. rescued' = rescued
    BY <1>1 DEF historyVars
  <2>2. ASSUME NEW s \in Offerings
        PROVE  balance'[rwas'[s].token][Factory] + rescued'[rwas'[s].token]
                 >= SharesAvailable(rwas'[s])
    <3>1. balance'[rwas[s].token] = balance[rwas[s].token]
      BY <1>5, <1>6 DEF TypeOK, TokenType
    <3>2. balance[rwas[s].token][Factory] + rescued[rwas[s].token]
            >= SharesAvailable(rwas[s])
      BY DEF Custody, UnsoldSharesHeld
    <3> QED BY <1>4, <2>1, <3>1, <3>2
  <2>3. balance'[t][Factory] + rescued'[t] >= raise
    BY <1>1, <1>5, <2>1 DEF TypeOK, TokenType, FactoryType, Addresses
  <2> HIDE DEF o
  <2> QED BY <1>2, <1>3, <1>4, <2>2, <2>3 DEF UnsoldSharesHeld
<1>9. EscrowAccounted'
  <2>1. usdc'[Factory] = usdc[Factory] + upfront /\ usdc[Factory] \in Nat
    BY <1>1, <1>3, PullMoves DEF TypeOK
  <2>2. /\ Pools' \in Nat /\ Raised' \in Nat
        /\ Pools' + Raised' = Pools + Raised - PoolsOf(r) - RaisedBy(r) + Owed(o)
    <3>1. FactoryType
      BY DEF TypeOK
    <3> HIDE DEF o
    <3> QED BY <1>1, <1>2, <3>1, OwedByOne
  <2>3. PoolsOf(r) = 0 /\ RaisedBy(r) = 0
    BY <1>1 DEF PoolsOf, RaisedBy
  <2>4. /\ Pools \in Nat /\ Raised \in Nat /\ Total(collected) \in Nat
        /\ rescuedUsdc \in Nat
    BY PoolsType DEF TypeOK, FactoryType
  <2>5. collected' = collected /\ rescuedUsdc' = rescuedUsdc
    BY <1>1 DEF historyVars
  <2>6. usdc[Factory] + Total(collected) + rescuedUsdc >= Pools + Raised
    BY DEF Custody, EscrowAccounted
  <2> HIDE DEF o, upfront
  <2>7. Pools' + Raised' = Pools + Raised + upfront
    <3>1. Pools' + Raised' = Pools + Raised - 0 - 0 + upfront
      BY <1>3, <2>2, <2>3
    <3> QED BY <1>3, <2>4, <3>1
  <2>8. usdc'[Factory] + Total(collected) + rescuedUsdc >= Pools + Raised + upfront
    BY <1>3, <2>1, <2>4, <2>6
  <2> QED BY <2>5, <2>7, <2>8 DEF EscrowAccounted
<1> QED BY <1>7, <1>8, <1>9 DEF Custody

\* buy_shares: the tokens that leave the factory come off the shares on sale,
\* and the price that arrives is counted as raised.
LEMMA BuyCustody ==
    ASSUME IInv, Custody, NEW i \in Users, NEW r \in Rwas, NEW amount \in Int,
           BuyShares(i, r, amount)
    PROVE  Custody'
<1> DEFINE o == Bought(rwas[r], i, amount)
<1>1. /\ amount \in Nat /\ r \in Offerings /\ TypeOK
      /\ rwas' = [rwas EXCEPT ![r] = o]
      /\ PullUsdc(i, amount)
      /\ TransferToken(rwas[r].token, Factory, i, amount)
      /\ UNCHANGED <<complianceVars, historyVars>>
  BY DEF BuyShares, Offerings, IInv
<1>2. rwas[r] \in Rwa /\ rwas[r].token \in Tokens
  BY <1>1 DEF Offerings, TypeOK, FactoryType, Rwa
<1>3. o \in Rwa /\ o.token = rwas[r].token
  BY <1>1, <1>2, BoughtType, BoughtFields
<1>4. SharesAvailable(o) <= SharesAvailable(rwas[r]) - amount
  BY <1>1, <1>2, BoughtOwes
<1>5. Owed(o) = Owed(rwas[r]) - (0 - amount)
  BY <1>1, <1>2, BoughtOwes
<1>6. usdc'[Factory] = usdc[Factory] - (0 - amount)
  BY <1>1, PullMoves DEF TypeOK
<1>7. /\ deployed' = deployed
      /\ \A s \in Tokens :
           balance'[s][Factory] = balance[s][Factory] - (IF s = o.token THEN amount ELSE 0)
  BY <1>1, <1>2, <1>3, FactoryTransfers DEF TypeOK
<1>8. UNCHANGED complianceVars /\ rescued' = rescued /\ UNCHANGED <<collected, rescuedUsdc>>
  BY <1>1 DEF historyVars
<1>9. 0 - amount \in Int
  OBVIOUS
<1> HIDE DEF o
<1> QED BY <1>1, <1>3, <1>4, <1>5, <1>6, <1>7, <1>8, <1>9, CustodyOfOne

\* settle_debt: the principal that arrives is counted in the pool.
LEMMA SettleCustody ==
    ASSUME IInv, Custody, NEW shipper \in Users, NEW r \in Rwas, NEW principal \in Int,
           SettleDebt(shipper, r, principal)
    PROVE  Custody'
<1> DEFINE o == Repaid(rwas[r], principal)
<1>1. /\ principal \in Nat /\ r \in Offerings /\ TypeOK
      /\ rwas' = [rwas EXCEPT ![r] = o]
      /\ PullUsdc(shipper, principal)
      /\ UNCHANGED <<sepVars, historyVars>>
  BY DEF SettleDebt, Offerings, IInv
<1>2. rwas[r] \in Rwa
  BY <1>1 DEF Offerings, TypeOK, FactoryType
<1>3. o \in Rwa /\ o.token = rwas[r].token
  BY <1>1, <1>2, RepaidType, RepaidFields
<1>4. SharesAvailable(o) <= SharesAvailable(rwas[r]) - 0
  BY <1>1, <1>2, RepaidFields DEF SharesAvailable, Rwa
<1>5. Owed(o) = Owed(rwas[r]) - (0 - principal)
  BY <1>1, <1>2, RepaidFields DEF Owed, Rwa
<1>6. usdc'[Factory] = usdc[Factory] - (0 - principal)
  BY <1>1, PullMoves DEF TypeOK
<1>7. /\ deployed' = deployed
      /\ \A s \in Tokens :
           balance'[s][Factory] = balance[s][Factory] - (IF s = o.token THEN 0 ELSE 0)
  BY <1>1 DEF TypeOK, TokenType, Addresses, sepVars, tokenVars
<1>8. UNCHANGED complianceVars /\ rescued' = rescued /\ UNCHANGED <<collected, rescuedUsdc>>
  BY <1>1 DEF historyVars, sepVars
<1>9. 0 - principal \in Int /\ 0 \in Nat
  OBVIOUS
<1> HIDE DEF o
<1> QED BY <1>1, <1>3, <1>4, <1>5, <1>6, <1>7, <1>8, <1>9, CustodyOfOne

\* claim: what is paid out is exactly what comes off the two pools, and the
\* tokens burnt are the investor's.
LEMMA ClaimCustody ==
    ASSUME IInv, Custody, NEW i \in Users, NEW r \in Rwas, NEW amount \in Nat,
           NEW nonce, NEW deadline, Claim(i, r, amount, nonce, deadline)
    PROVE  Custody'
<1> DEFINE o == Redeemed(rwas[r], i, amount)
           paid == Payout(rwas[r], amount)
<1>1. /\ r \in Offerings /\ TypeOK
      /\ rwas' = [rwas EXCEPT ![r] = o]
      /\ Burn(rwas[r].token, i, amount, nonce, deadline)
      /\ SendUsdc(Factory, i, paid)
      /\ UNCHANGED <<complianceVars, collected, rescued, rescuedUsdc>>
  BY DEF Claim, Offerings, IInv
<1>2. rwas[r] \in Rwa /\ rwas[r].token \in Tokens
  BY <1>1 DEF Offerings, TypeOK, FactoryType, Rwa
<1>3. o \in Rwa /\ o.token = rwas[r].token /\ paid \in Nat
  BY <1>2, ClaimRecord, RedeemedFields
<1>4. SharesAvailable(o) <= SharesAvailable(rwas[r]) - 0
  BY <1>2, RedeemedOwes
<1>5. Owed(o) = Owed(rwas[r]) - paid
  BY <1>2, RedeemedOwes
<1>6. usdc'[Factory] = usdc[Factory] - paid
  BY <1>1, <1>3, SendMoves DEF TypeOK
<1>7. /\ deployed' = deployed
      /\ \A s \in Tokens :
           balance'[s][Factory] = balance[s][Factory] - (IF s = o.token THEN 0 ELSE 0)
  <2>1. deployed' = deployed /\ \A s \in Tokens : balance'[s][Factory] = balance[s][Factory]
    <3>1. TokenType
      BY <1>1 DEF TypeOK
    <3> QED BY <1>1, <1>2, <3>1, BurnSparesFactory
  <2>2. \A s \in Tokens : balance[s][Factory] \in Nat
    BY <1>1 DEF TypeOK, TokenType, Addresses
  <2> QED BY <2>1, <2>2
<1>8. paid \in Int /\ 0 \in Nat
  BY <1>3
<1> HIDE DEF o, paid
<1> QED BY <1>1, <1>3, <1>4, <1>5, <1>6, <1>7, <1>8, CustodyOfOne

\* withdraw_fees: what the admin receives comes off the fee pool.
LEMMA WithdrawFeesCustody ==
    ASSUME IInv, Custody, NEW caller \in Users, NEW r \in Rwas, WithdrawFees(caller, r)
    PROVE  Custody'
<1> DEFINE o == [rwas[r] EXCEPT !.protocol_fee_pool = 0]
           fees == rwas[r].protocol_fee_pool
<1>1. /\ r \in Offerings /\ TypeOK /\ admin \in Users
      /\ rwas' = [rwas EXCEPT ![r] = o]
      /\ SendUsdc(Factory, admin, fees)
      /\ UNCHANGED <<sepVars, historyVars>>
  BY DEF WithdrawFees, Offerings, IInv
<1>2. rwas[r] \in Rwa /\ fees \in Nat
  BY <1>1 DEF Offerings, TypeOK, FactoryType, Rwa
<1>3. o \in Rwa /\ o.token = rwas[r].token
  BY <1>2 DEF Rwa
<1>4. SharesAvailable(o) <= SharesAvailable(rwas[r]) - 0
  BY <1>2 DEF SharesAvailable, Rwa
<1>5. Owed(o) = Owed(rwas[r]) - fees
  BY <1>2 DEF Owed, Rwa
<1>6. usdc'[Factory] = usdc[Factory] - fees
  BY <1>1, <1>2, SendMoves DEF TypeOK
<1>7. /\ deployed' = deployed
      /\ \A s \in Tokens :
           balance'[s][Factory] = balance[s][Factory] - (IF s = o.token THEN 0 ELSE 0)
  BY <1>1 DEF TypeOK, TokenType, Addresses, sepVars, tokenVars
<1>8. UNCHANGED complianceVars /\ rescued' = rescued /\ UNCHANGED <<collected, rescuedUsdc>>
  BY <1>1 DEF historyVars, sepVars
<1>9. fees \in Int /\ 0 \in Nat
  BY <1>2
<1> HIDE DEF o, fees
<1> QED BY <1>1, <1>3, <1>4, <1>5, <1>6, <1>7, <1>8, <1>9, CustodyOfOne
\* collect_fund: what leaves is counted as collected, however often.
LEMMA CollectCustody ==
    ASSUME IInv, Custody, NEW shipper \in Users, NEW r \in Rwas, CollectFund(shipper, r)
    PROVE  Custody'
<1> DEFINE raised == rwas[r].shares_bought
<1>1. /\ r \in Offerings /\ TypeOK
      /\ SendUsdc(Factory, shipper, raised)
      /\ collected' = [collected EXCEPT ![r] = @ + raised]
      /\ UNCHANGED <<sepVars, factoryVars, claimed, rescued, rescuedUsdc>>
  BY DEF CollectFund, Offerings, IInv
<1>2. rwas[r] \in Rwa /\ raised \in Nat
  BY <1>1 DEF Offerings, TypeOK, FactoryType, Rwa
<1>3. usdc'[Factory] = usdc[Factory] - raised /\ usdc[Factory] \in Nat
  BY <1>1, <1>2, SendMoves DEF TypeOK
<1>4. Total(collected') = Total(collected) + raised /\ Total(collected) \in Nat
  <2>1. collected \in [Rwas -> Nat] /\ collected[r] \in Nat
    BY <1>1 DEF TypeOK, FactoryType
  <2>2. collected[r] + raised \in Nat
    BY <1>2, <2>1
  <2>3. Total(collected') = Total(collected) - collected[r] + (collected[r] + raised)
    <3> HIDE DEF raised
    <3>1. Total([collected EXCEPT ![r] = collected[r] + raised])
            = Total(collected) - collected[r] + (collected[r] + raised)
      BY <2>1, <2>2, RwasFinite, TotalExcept
    <3> QED BY <1>1, <3>1
  <2>4. Total(collected) \in Nat
    BY <2>1, RwasFinite, TotalType
  <2> HIDE DEF raised
  <2> QED BY <1>2, <2>1, <2>3, <2>4
<1>5. TypeOK'
  BY CollectStep DEF IInv
<1>6. /\ rwas' = rwas /\ bound' = bound /\ maxBalance' = maxBalance
      /\ deployed' = deployed /\ balance' = balance /\ rescued' = rescued
      /\ rescuedUsdc' = rescuedUsdc
  BY <1>1 DEF sepVars, factoryVars, complianceVars, tokenVars
<1>7. \A t \in Tokens : balance[t][Factory] + rescued[t] \in Nat
  BY <1>1 DEF TypeOK, TokenType, FactoryType, Addresses
<1>8. rescuedUsdc \in Nat
  BY <1>1 DEF TypeOK, FactoryType
<1> HIDE DEF raised
<1>9. usdc'[Factory] + Total(collected') + rescuedUsdc'
        >= usdc[Factory] + Total(collected) + rescuedUsdc
  BY <1>2, <1>3, <1>4, <1>6, <1>8
<1> QED BY <1>1, <1>5, <1>6, <1>7, <1>9, CustodyKept

\* emergency_withdraw of USDC: what leaves is counted as rescued.
LEMMA EmergencyUsdcCustody ==
    ASSUME IInv, Custody, NEW caller \in Users, NEW amount \in Int,
           EmergencyWithdrawUsdc(caller, amount)
    PROVE  Custody'
<1>1. /\ TypeOK /\ amount \in Nat /\ admin \in Users
      /\ SendUsdc(Factory, admin, amount)
      /\ rescuedUsdc' = rescuedUsdc + amount
      /\ UNCHANGED <<sepVars, factoryVars, collected, claimed, rescued>>
  BY DEF EmergencyWithdrawUsdc, IInv
<1>2. usdc'[Factory] = usdc[Factory] - amount /\ usdc[Factory] \in Nat
  BY <1>1, SendMoves DEF TypeOK
<1>3. TypeOK'
  BY EmergencyUsdcStep DEF IInv
<1>4. /\ rwas' = rwas /\ bound' = bound /\ maxBalance' = maxBalance
      /\ deployed' = deployed /\ balance' = balance /\ rescued' = rescued
      /\ collected' = collected
  BY <1>1 DEF sepVars, factoryVars, complianceVars, tokenVars
<1>5. \A t \in Tokens : balance[t][Factory] + rescued[t] \in Nat
  BY <1>1 DEF TypeOK, TokenType, FactoryType, Addresses
<1>6. rescuedUsdc \in Nat /\ Total(collected) \in Nat
  BY <1>1, PoolsType DEF TypeOK, FactoryType
<1>7. usdc'[Factory] + Total(collected') + rescuedUsdc'
        >= usdc[Factory] + Total(collected) + rescuedUsdc
  BY <1>1, <1>2, <1>4, <1>6
<1> QED BY <1>1, <1>3, <1>4, <1>5, <1>7, CustodyKept

\* emergency_withdraw of an RWA token: what leaves is counted as rescued.
LEMMA EmergencyTokenCustody ==
    ASSUME IInv, Custody, NEW caller \in Users, NEW t \in Tokens, NEW amount \in Int,
           EmergencyWithdrawToken(caller, t, amount)
    PROVE  Custody'
<1>1. /\ TypeOK /\ amount \in Nat /\ admin \in Users
      /\ TransferToken(t, Factory, admin, amount)
      /\ rescued' = [rescued EXCEPT ![t] = @ + amount]
      /\ UNCHANGED <<complianceVars, usdcVars, factoryVars, collected, rescuedUsdc>>
  BY DEF EmergencyWithdrawToken, IInv
<1>2. /\ deployed' = deployed
      /\ \A s \in Tokens :
           balance'[s][Factory] = balance[s][Factory] - (IF s = t THEN amount ELSE 0)
  BY <1>1, FactoryTransfers DEF TypeOK
<1>3. TypeOK'
  BY EmergencyTokenStep DEF IInv
<1>4. /\ rwas' = rwas /\ bound' = bound /\ maxBalance' = maxBalance
      /\ usdc' = usdc /\ collected' = collected /\ rescuedUsdc' = rescuedUsdc
  BY <1>1 DEF factoryVars, complianceVars, usdcVars
<1>5. \A s \in Tokens : balance'[s][Factory] + rescued'[s] >= balance[s][Factory] + rescued[s]
  <2> SUFFICES ASSUME NEW s \in Tokens
               PROVE  balance'[s][Factory] + rescued'[s] >= balance[s][Factory] + rescued[s]
    OBVIOUS
  <2>1. balance[s][Factory] \in Nat /\ rescued[s] \in Nat
    BY <1>1 DEF TypeOK, TokenType, FactoryType, Addresses
  <2>2. rescued'[s] = rescued[s] + (IF s = t THEN amount ELSE 0)
    BY <1>1, <2>1 DEF TypeOK, FactoryType
  <2> QED BY <1>1, <1>2, <2>1, <2>2
<1>6. usdc[Factory] \in Nat /\ rescuedUsdc \in Nat /\ Total(collected) \in Nat
  BY <1>1, PoolsType DEF TypeOK, FactoryType, UsdcType, Addresses
<1>7. usdc'[Factory] + Total(collected') + rescuedUsdc'
        >= usdc[Factory] + Total(collected) + rescuedUsdc
  BY <1>4, <1>6
<1> QED BY <1>1, <1>2, <1>3, <1>4, <1>5, <1>7, CustodyKept

\* Calls that go past the factory keep custody: they bring the factory tokens
\* or USDC, and take neither from it.
LEMMA DirectCustody ==
    ASSUME IInv, Custody, DirectStep, UNCHANGED <<factoryVars, historyVars>>
    PROVE  Custody'
<1>1. /\ TypeOK /\ TypeOK' /\ rwas' = rwas /\ collected' = collected
      /\ rescued' = rescued /\ rescuedUsdc' = rescuedUsdc
  BY DirectSteps DEF IInv, factoryVars, historyVars
<1>2. \A t \in Tokens : balance[t][Factory] \in Nat /\ rescued[t] \in Nat
  BY <1>1 DEF TypeOK, TokenType, FactoryType, Addresses
<1>3. /\ usdc[Factory] \in Nat /\ usdc'[Factory] \in Nat
      /\ rescuedUsdc \in Nat /\ Total(collected) \in Nat
  BY <1>1, PoolsType DEF TypeOK, FactoryType, UsdcType, Addresses
<1>4. /\ bound' = bound /\ maxBalance' = maxBalance /\ deployed' = deployed
      /\ \A t \in Tokens : balance'[t][Factory] >= balance[t][Factory]
  <2>1. CASE (DirectTransfer \/ RelayPermit) /\ UNCHANGED complianceVars
    BY <1>1, <2>1, TokenCallsSpareFactory DEF TypeOK, complianceVars
  <2>2. CASE UNCHANGED <<bound, maxBalance, tokenVars>>
    BY <1>2, <2>2 DEF tokenVars
  <2> QED BY <2>1, <2>2 DEF DirectStep, InitializeCompliance, complianceVars, sepVars
<1>5. usdc'[Factory] >= usdc[Factory]
  <2>1. CASE UsdcNext
    BY <1>1, <2>1, PaymentsSpareFactory DEF TypeOK
  <2>2. CASE ~UsdcNext
    BY <1>3, <2>2 DEF DirectStep, usdcVars
  <2> QED BY <2>1, <2>2
<1>6. \A t \in Tokens : balance'[t][Factory] \in Nat
  BY <1>1 DEF TypeOK, TokenType, Addresses
<1>7. \A t \in Tokens : balance'[t][Factory] + rescued'[t] >= balance[t][Factory] + rescued[t]
  BY <1>1, <1>2, <1>4, <1>6
<1>8. usdc'[Factory] + Total(collected') + rescuedUsdc'
        >= usdc[Factory] + Total(collected) + rescuedUsdc
  BY <1>1, <1>3, <1>5
<1> QED BY <1>1, <1>4, <1>7, <1>8, CustodyKept
-----------------------------------------------------------------------------
(* The invariant, and what follows from it. *)

\* Before initialize nothing is held and nothing is owed.
LEMMA InitCInv == Init => CInv
<1> SUFFICES ASSUME Init PROVE CInv
  OBVIOUS
<1>1. IInv
  BY InitIInv
<1>2. AdminKnown
  BY DEF Init, AdminKnown
<1>3. Offerings = {}
  BY DEF Init, Offerings
<1>4. OneTokenPerOffering /\ UnsoldSharesHeld
  BY <1>3 DEF OneTokenPerOffering, UnsoldSharesHeld
<1>5. EscrowAccounted
  <2> DEFINE f == [s \in Rwas |-> PoolsOf(s)]
             g == [s \in Rwas |-> RaisedBy(s)]
  <2>1. /\ f \in [Rwas -> Nat] /\ \A s \in Rwas : f[s] = 0
        /\ g \in [Rwas -> Nat] /\ \A s \in Rwas : g[s] = 0
    BY DEF Init, PoolsOf, RaisedBy
  <2>2. Pools = 0 /\ Raised = 0
    <3> HIDE DEF f, g
    <3>1. Total(f) = 0 /\ Total(g) = 0
      BY <2>1, TotalOfZeros
    <3> QED BY <3>1 DEF f, g, Pools, Raised
  <2>3. usdc[Factory] = 0 /\ rescuedUsdc = 0
    BY DEF Init, UsdcInit, Addresses
  <2>4. Total(collected) \in Nat
    BY <1>1, PoolsType DEF IInv, TypeOK
  <2> QED BY <2>2, <2>3, <2>4 DEF EscrowAccounted
<1> QED BY <1>1, <1>2, <1>4, <1>5 DEF CInv, Custody

\* Every entry point of the factory keeps custody.
LEMMA FactoryCustody ==
    ASSUME IInv, Custody, FactoryStep
    PROVE  Custody'
<1>1. CASE Initialize(FactoryAdmin, ProtocolFeeBps)
  <2>1. /\ rwas' = rwas /\ UNCHANGED <<sepVars, usdcVars, historyVars>>
    BY <1>1 DEF Initialize
  <2>2. TypeOK /\ TypeOK'
    BY <1>1, InitializeStep DEF IInv
  <2>3. \A t \in Tokens : balance[t][Factory] + rescued[t] \in Nat
    BY <2>2 DEF TypeOK, TokenType, FactoryType, Addresses
  <2>4. usdc[Factory] + Total(collected) + rescuedUsdc \in Nat
    BY <2>2, PoolsType DEF TypeOK, FactoryType, UsdcType, Addresses
  <2>5. /\ UNCHANGED <<bound, maxBalance, deployed, balance, usdc>>
        /\ UNCHANGED <<collected, rescued, rescuedUsdc>>
    BY <2>1 DEF sepVars, complianceVars, tokenVars, usdcVars, historyVars
  <2> QED BY <2>1, <2>2, <2>3, <2>4, <2>5, CustodyKept
<1>2. ASSUME NEW shipper \in Users, NEW r \in Rwas, NEW raise \in RaiseAmounts,
             NEW bps \in InterestBps, NEW p \in Permits,
             CreateRwaToken(shipper, r, raise, bps, p.token, p.nonce, p.deadline)
      PROVE  Custody'
  <2>1. raise \in Int /\ bps \in Int /\ p.token \in Tokens
    BY FactoryInputsType, PermitsType DEF Permit
  <2> QED BY <1>2, <2>1, CreateCustody
<1>3. ASSUME NEW i \in Users, NEW r \in Rwas, NEW amount \in BuyAmounts,
             BuyShares(i, r, amount)
      PROVE  Custody'
  <2>1. amount \in Int
    BY FactoryInputsType
  <2> QED BY <1>3, <2>1, BuyCustody
<1>4. ASSUME NEW shipper \in Users, NEW r \in Rwas, CollectFund(shipper, r)
      PROVE  Custody'
  BY <1>4, CollectCustody
<1>5. ASSUME NEW shipper \in Users, NEW r \in Rwas, NEW principal \in SettleAmounts,
             SettleDebt(shipper, r, principal)
      PROVE  Custody'
  <2>1. principal \in Int
    BY FactoryInputsType
  <2> QED BY <1>5, <2>1, SettleCustody
<1>6. ASSUME NEW p \in Permits, NEW r \in Rwas, p.account \in Users,
             Claim(p.account, r, p.amount, p.nonce, p.deadline)
      PROVE  Custody'
  <2>1. p.amount \in Nat
    BY PermitsType DEF Permit
  <2> QED BY <1>6, <2>1, ClaimCustody
<1>7. ASSUME NEW caller \in Users, NEW r \in Rwas, WithdrawFees(caller, r)
      PROVE  Custody'
  BY <1>7, WithdrawFeesCustody
<1>8. ASSUME NEW caller \in Users, NEW amount \in EmergencyAmounts,
             EmergencyWithdrawUsdc(caller, amount)
      PROVE  Custody'
  <2>1. amount \in Int
    BY FactoryInputsType
  <2> QED BY <1>8, <2>1, EmergencyUsdcCustody
<1>9. ASSUME NEW caller \in Users, NEW amount \in EmergencyAmounts, NEW t \in Tokens,
             EmergencyWithdrawToken(caller, t, amount)
      PROVE  Custody'
  <2>1. amount \in Int
    BY FactoryInputsType
  <2> QED BY <1>9, <2>1, EmergencyTokenCustody
<1> QED BY <1>1, <1>2, <1>3, <1>4, <1>5, <1>6, <1>7, <1>8, <1>9 DEF FactoryStep

\* Only initialize writes the admin.
LEMMA AdminKept ==
    ASSUME AdminKnown, [Next]_vars
    PROVE  AdminKnown'
<1>1. CASE FactoryStep
  BY <1>1 DEF AdminKnown, FactoryStep, Initialize, CreateRwaToken, BuyShares, CollectFund,
     SettleDebt, Claim, WithdrawFees, EmergencyWithdrawUsdc, EmergencyWithdrawToken,
     factoryVars
<1>2. CASE UNCHANGED factoryVars
  BY <1>2 DEF AdminKnown, factoryVars
<1> QED BY <1>1, <1>2 DEF Next, vars

\* The invariant is inductive.
LEMMA NextCInv == CInv /\ [Next]_vars => CInv'
<1> SUFFICES ASSUME CInv, [Next]_vars PROVE CInv'
  OBVIOUS
<1>1. IInv' /\ AdminKnown'
  BY NextIInv, AdminKept DEF CInv
<1>2. Custody'
  <2>1. CASE FactoryStep
    BY <2>1, FactoryCustody DEF CInv
  <2>2. CASE DirectStep /\ UNCHANGED <<factoryVars, historyVars>>
    BY <2>2, DirectCustody DEF CInv
  <2>3. CASE UNCHANGED vars
    BY <2>3 DEF CInv, Custody, OneTokenPerOffering, UnsoldSharesHeld, EscrowAccounted,
       Offerings, Pools, Raised, PoolsOf, RaisedBy, vars, sepVars, complianceVars,
       tokenVars, usdcVars, factoryVars, historyVars
  <2> QED BY <2>1, <2>2, <2>3 DEF Next
<1> QED BY <1>1, <1>2 DEF CInv

\* Every reachable state satisfies the inductive invariant of custody.
THEOREM CustodyInvariant == Spec => []CInv
<1> QED BY InitCInv, NextCInv, PTL DEF Spec

\* Offerings never share a token, and each one's is deployed, bound and
\* uncapped.
THEOREM TokensAreDistinct == Spec => []OneTokenPerOffering
<1>1. CInv => OneTokenPerOffering
  BY DEF CInv, Custody
<1> QED BY <1>1, CustodyInvariant, PTL

\* buy_shares always finds the tokens it sells, unless the hatch took them.
THEOREM UnsoldSharesAreHeld == Spec => []UnsoldSharesHeld
<1>1. CInv => UnsoldSharesHeld
  BY DEF CInv, Custody
<1> QED BY <1>1, CustodyInvariant, PTL

\* The one balance and what left it by collect_fund and the hatch account for
\* the pools and raises of all offerings together.
THEOREM EscrowIsAccounted == Spec => []EscrowAccounted
<1>1. CInv => EscrowAccounted
  BY DEF CInv, Custody
<1> QED BY <1>1, CustodyInvariant, PTL
-----------------------------------------------------------------------------
(* Money leaves a principal pool by redemption alone. *)

\* What PrincipalLeavesByRedemption says of one step.
Redemptions ==
    \A r \in Offerings :
        LET paid == rwas[r].principal_pool - rwas'[r].principal_pool
        IN  paid > 0 =>
              \E i \in Users :
                  /\ rwas[r].investors[i] - rwas'[r].investors[i] = paid
                  /\ supply'[rwas[r].token] = supply[rwas[r].token] - paid
                  /\ usdc'[i] = usdc[i] + paid + Fee(paid, rwas[r].interest_bps)

\* A step that changes no offering takes nothing from a pool.
LEMMA PoolsUntouched ==
    ASSUME TypeOK, rwas' = rwas
    PROVE  Redemptions
<1> SUFFICES ASSUME NEW r \in Offerings
             PROVE  ~(rwas[r].principal_pool - rwas'[r].principal_pool > 0)
  BY DEF Redemptions
<1>1. rwas[r].principal_pool \in Nat
  BY DEF Offerings, TypeOK, FactoryType, Rwa
<1> QED BY <1>1

\* Nor does one that changes the record of one offering and not its pool down.
LEMMA PoolNotShrunk ==
    ASSUME TypeOK, NEW q \in Rwas, NEW o \in Rwa, rwas' = [rwas EXCEPT ![q] = o],
           q \in Offerings => o.principal_pool >= rwas[q].principal_pool
    PROVE  Redemptions
<1> SUFFICES ASSUME NEW r \in Offerings
             PROVE  ~(rwas[r].principal_pool - rwas'[r].principal_pool > 0)
  BY DEF Redemptions
<1>1. rwas[r].principal_pool \in Nat /\ o.principal_pool \in Nat
  BY DEF Offerings, TypeOK, FactoryType, Rwa
<1>2. rwas'[r] = IF r = q THEN o ELSE rwas[r]
  BY DEF Offerings, TypeOK, FactoryType
<1> QED BY <1>1, <1>2

\* claim takes the amount from the pool, from the claimant's recorded shares
\* and from the token's supply, and pays the claimant par and interest.
LEMMA ClaimRedeems ==
    ASSUME IInv, NEW i \in Users, NEW q \in Rwas, NEW amount \in Nat, NEW nonce,
           NEW deadline, Claim(i, q, amount, nonce, deadline)
    PROVE  Redemptions
<1> DEFINE o == rwas[q]
           n == Redeemed(rwas[q], i, amount)
<1>1. /\ TypeOK /\ q \in Offerings /\ o \in Rwa
      /\ Burn(o.token, i, amount, nonce, deadline)
      /\ SendUsdc(Factory, i, Payout(o, amount))
      /\ rwas' = [rwas EXCEPT ![q] = n]
  BY OfferingFacts DEF Claim, IInv, Offerings
<1>2. /\ n \in Rwa /\ Payout(o, amount) \in Nat
  BY ClaimRecord
<1>3. /\ n.principal_pool = o.principal_pool - amount
      /\ n.investors = [o.investors EXCEPT ![i] = o.investors[i] - amount]
  BY <1>1, RedeemedFields
<1>4. o.principal_pool \in Nat /\ o.investors \in [Users -> Nat] /\ o.token \in Tokens
  BY <1>1 DEF Rwa
<1>5. o.principal_pool - n.principal_pool = amount
  BY <1>3, <1>4
<1>6. o.investors[i] - n.investors[i] = amount
  BY <1>3, <1>4
<1>7. supply'[o.token] = supply[o.token] - amount
  BY <1>1, <1>4 DEF Burn, TypeOK, TokenType
<1>8. usdc'[i] = usdc[i] + amount + Fee(amount, o.interest_bps)
  <2>1. usdc'[i] = usdc[i] + Payout(o, amount)
    BY <1>1, <1>2, SendMoves DEF TypeOK
  <2>2. usdc[i] \in Nat /\ Fee(amount, o.interest_bps) \in Nat
    BY <1>1, FeeType DEF TypeOK, UsdcType, Addresses, Rwa
  <2> QED BY <2>1, <2>2 DEF Payout, Interest
<1>9. rwas'[q] = n /\ \A r \in Rwas \ {q} : rwas'[r] = rwas[r]
  BY <1>1 DEF TypeOK, FactoryType
<1> HIDE DEF n
<1>10. ASSUME NEW r \in Offerings, r # q
       PROVE  ~(rwas[r].principal_pool - rwas'[r].principal_pool > 0)
  <2>1. rwas'[r] = rwas[r] /\ rwas[r].principal_pool \in Nat
    BY <1>1, <1>9, <1>10 DEF Offerings, TypeOK, FactoryType, Rwa
  <2> QED BY <2>1
<1> QED BY <1>5, <1>6, <1>7, <1>8, <1>9, <1>10 DEF Redemptions

\* Every step of the composed contracts takes from pools by redemption alone.
LEMMA StepsRedeem == IInv /\ [Next]_vars => Redemptions
<1> SUFFICES ASSUME IInv, [Next]_vars PROVE Redemptions
  OBVIOUS
<1> USE DEF IInv
<1>1. ASSUME NEW shipper \in Users, NEW r \in Rwas, NEW raise \in RaiseAmounts,
             NEW bps \in InterestBps, NEW p \in Permits,
             CreateRwaToken(shipper, r, raise, bps, p.token, p.nonce, p.deadline)
      PROVE  Redemptions
  <2> DEFINE o == NewOffering(shipper, raise, bps, p.token)
  <2>1. raise \in Nat /\ bps \in Nat /\ p.token \in Tokens /\ protocolFeeBps \in Nat
    BY <1>1, FactoryInputsType, PermitsType
       DEF Permit, CreateRwaToken, TypeOK, FactoryType
  <2>2. o \in Rwa
    BY <2>1, NewOfferingType
  <2>3. rwas' = [rwas EXCEPT ![r] = o] /\ r \notin Offerings
    BY <1>1 DEF CreateRwaToken, Offerings
  <2> HIDE DEF o
  <2> QED BY <2>2, <2>3, PoolNotShrunk
<1>2. ASSUME NEW i \in Users, NEW r \in Rwas, NEW amount \in BuyAmounts,
             BuyShares(i, r, amount)
      PROVE  Redemptions
  <2> DEFINE o == Bought(rwas[r], i, amount)
  <2>1. amount \in Nat /\ rwas[r] \in Rwa /\ rwas' = [rwas EXCEPT ![r] = o]
    BY <1>2, FactoryInputsType DEF BuyShares, TypeOK, FactoryType
  <2>2. o \in Rwa /\ o.principal_pool = rwas[r].principal_pool
    BY <2>1, BoughtType, BoughtFields
  <2>3. rwas[r].principal_pool \in Nat
    BY <2>1 DEF Rwa
  <2>4. o.principal_pool >= rwas[r].principal_pool
    BY <2>2, <2>3
  <2> HIDE DEF o
  <2> QED BY <2>1, <2>2, <2>4, PoolNotShrunk
<1>3. ASSUME NEW shipper \in Users, NEW r \in Rwas, NEW principal \in SettleAmounts,
             SettleDebt(shipper, r, principal)
      PROVE  Redemptions
  <2> DEFINE o == Repaid(rwas[r], principal)
  <2>1. principal \in Nat /\ rwas[r] \in Rwa /\ rwas' = [rwas EXCEPT ![r] = o]
    BY <1>3, FactoryInputsType DEF SettleDebt, TypeOK, FactoryType
  <2>2. o \in Rwa /\ o.principal_pool = rwas[r].principal_pool + principal
    BY <2>1, RepaidType, RepaidFields
  <2>3. rwas[r].principal_pool \in Nat
    BY <2>1 DEF Rwa
  <2>4. o.principal_pool >= rwas[r].principal_pool
    BY <2>1, <2>2, <2>3
  <2> HIDE DEF o
  <2> QED BY <2>1, <2>2, <2>4, PoolNotShrunk
<1>4. ASSUME NEW p \in Permits, NEW r \in Rwas, p.account \in Users,
             Claim(p.account, r, p.amount, p.nonce, p.deadline)
      PROVE  Redemptions
  <2>1. p.amount \in Nat
    BY PermitsType DEF Permit
  <2> QED BY <1>4, <2>1, ClaimRedeems
<1>5. ASSUME NEW caller \in Users, NEW r \in Rwas, WithdrawFees(caller, r)
      PROVE  Redemptions
  <2> DEFINE o == [rwas[r] EXCEPT !.protocol_fee_pool = 0]
  <2>1. rwas[r] \in Rwa /\ rwas' = [rwas EXCEPT ![r] = o]
    BY <1>5 DEF WithdrawFees, TypeOK, FactoryType
  <2>2. /\ o \in Rwa /\ o.principal_pool = rwas[r].principal_pool
        /\ rwas[r].principal_pool \in Nat
    BY <2>1 DEF Rwa
  <2>3. o.principal_pool >= rwas[r].principal_pool
    BY <2>2
  <2> HIDE DEF o
  <2> QED BY <2>1, <2>2, <2>3, PoolNotShrunk
<1>6. CASE rwas' = rwas
  BY <1>6, PoolsUntouched
<1> QED BY <1>1, <1>2, <1>3, <1>4, <1>5, <1>6
    DEF Next, FactoryStep, Initialize, CollectFund, EmergencyWithdrawUsdc,
        EmergencyWithdrawToken, vars, factoryVars

\* No call takes principal out of a pool but a claim that burns as many tokens
\* and pays the investor whose recorded shares shrink.
THEOREM PrincipalIsRedeemed == Spec => PrincipalLeavesByRedemption
<1>1. IInv /\ [Next]_vars => [Redemptions]_vars
  BY StepsRedeem
<1> QED BY <1>1, InductiveInvariant, PTL DEF Spec, PrincipalLeavesByRedemption, Redemptions
-----------------------------------------------------------------------------
(***************************************************************************)
(* 4. Refinement: every step of the composed contracts is a step of        *)
(* OfferingLedger, under the mapping of FactoryLedger.                     *)
(***************************************************************************)

\* The ledger's offering and purse, as FactoryLedger maps them.
Offered == [r \in Rwas |-> IF rwas[r] = None THEN None ELSE Recorded(rwas[r])]
Purse   == [u \in Users |-> usdc[u]]

\* The ledger's actions under that mapping.
Issues(r, shipper, raise, rate, upfront) ==
    Ledger!Issue(r, shipper, raise, rate, upfront)
Sells(r, investor, amount)   == Ledger!Sell(r, investor, amount)
PaysOut(r)                   == Ledger!PayOut(r)
Repays(r, principal)         == Ledger!Repay(r, principal)
Redeems(r, investor, amount) == Ledger!Redeem(r, investor, amount)

\* A pull of USDC is the ledger's TakeIn.
LEMMA PullTakesIn ==
    ASSUME UsdcType, NEW from \in Users, NEW amount \in Nat, PullUsdc(from, amount)
    PROVE  Ledger!TakeIn(from, amount)
<1>1. /\ usdc'[Factory] = usdc[Factory] + amount /\ amount <= usdc[from]
      /\ \A u \in Users : usdc'[u] = IF u = from THEN usdc[u] - amount ELSE usdc[u]
  BY PullMoves
<1>2. Purse' = [Purse EXCEPT ![from] = @ - amount]
  BY <1>1 DEF Purse
<1> QED BY <1>1, <1>2 DEF Ledger!TakeIn, Purse

\* A payment by the factory is the ledger's GiveOut.
LEMMA SendGivesOut ==
    ASSUME UsdcType, NEW to \in Users, NEW amount \in Nat,
           SendUsdc(Factory, to, amount)
    PROVE  Ledger!GiveOut(to, amount)
<1>1. /\ usdc'[Factory] = usdc[Factory] - amount /\ amount <= usdc[Factory]
      /\ \A u \in Users : usdc'[u] = IF u = to THEN usdc[u] + amount ELSE usdc[u]
  BY SendMoves
<1>2. Purse' = [Purse EXCEPT ![to] = @ + amount]
  BY <1>1 DEF Purse
<1> QED BY <1>1, <1>2 DEF Ledger!GiveOut, Purse

\* Records with the same fields are the same.
LEMMA SameRecord ==
    ASSUME NEW p \in LedgerRecord, NEW q \in LedgerRecord,
           p.shipper = q.shipper, p.rate = q.rate, p.total = q.total, p.sold = q.sold,
           p.held = q.held, p.principal = q.principal, p.status = q.status
    PROVE  p = q
BY DEF LedgerRecord

\* What the ledger keeps of an offering is well typed.
LEMMA RecordedType ==
    ASSUME NEW o \in Rwa
    PROVE  Recorded(o) \in LedgerRecord
BY DEF Recorded, Rwa, LedgerRecord

\* What the ledger keeps of an existing offering.
LEMMA OfferedRecord ==
    ASSUME FactoryType, NEW r \in Rwas, rwas[r] # None
    PROVE  Offered[r] = Recorded(rwas[r]) /\ Offered[r] # None
<1>1. rwas[r] \in Rwa
  BY DEF FactoryType
<1>2. Recorded(rwas[r]) # None
  BY <1>1, NoneIsNoRecord, RecordedType
<1> QED BY <1>2 DEF Offered

\* Replacing an offering's record replaces what the ledger keeps of it.
LEMMA OfferedChange ==
    ASSUME FactoryType, NEW r \in Rwas, NEW o \in Rwa, rwas' = [rwas EXCEPT ![r] = o]
    PROVE  Offered' = [Offered EXCEPT ![r] = Recorded(o)]
<1>1. /\ rwas'[r] = o /\ o # None
      /\ \A s \in Rwas \ {r} : rwas'[s] = rwas[s]
  BY OfferingChange, NoneIsNoRwa
<1>2. Offered'[r] = Recorded(o) /\ \A s \in Rwas \ {r} : Offered'[s] = Offered[s]
  BY <1>1 DEF Offered, Recorded
<1>3. Offered' = [s \in Rwas |-> Offered'[s]] /\ Offered = [s \in Rwas |-> Offered[s]]
  BY DEF Offered
<1> QED BY <1>2, <1>3

\* What settle_debt does to a record, the ledger's Repay does to what it keeps
\* of it.
LEMMA RepaidRecorded ==
    ASSUME NEW o \in Rwa, NEW principal \in Nat
    PROVE  Recorded(Repaid(o, principal))
             = [Recorded(o) EXCEPT !.principal = @ + principal, !.status = "Settled"]
<1> DEFINE n == Repaid(o, principal)
           k == Recorded(o)
           k1 == [k EXCEPT !.principal = @ + principal]
           k2 == [k1 EXCEPT !.status = "Settled"]
<1>1. /\ n.principal_pool = o.principal_pool + principal /\ n.status = "Settled"
      /\ n.shipper = o.shipper /\ n.interest_bps = o.interest_bps
      /\ n.shares_total = o.shares_total /\ n.shares_bought = o.shares_bought
      /\ n.investors = o.investors
  BY DEF Repaid, Rwa
<1>2. k \in LedgerRecord /\ Recorded(n) \in LedgerRecord
  BY RepaidType, RecordedType
<1>3. k1 \in LedgerRecord
  <2> HIDE DEF k
  <2> QED BY <1>2 DEF LedgerRecord
<1>4. k2 \in LedgerRecord
  <2> HIDE DEF k1
  <2> QED BY <1>3 DEF LedgerRecord, Statuses
<1>5. /\ Recorded(n).shipper = k2.shipper /\ Recorded(n).rate = k2.rate
      /\ Recorded(n).total = k2.total /\ Recorded(n).sold = k2.sold
      /\ Recorded(n).held = k2.held /\ Recorded(n).principal = k2.principal
      /\ Recorded(n).status = k2.status
  BY <1>1 DEF Recorded
<1> HIDE DEF k2, n
<1>6. Recorded(n) = k2
  BY <1>2, <1>4, <1>5, SameRecord
<1> QED BY <1>6 DEF k2, n

\* What buy_shares does to a record, Sell does to what the ledger keeps of it.
LEMMA BoughtRecorded ==
    ASSUME NEW o \in Rwa, NEW i \in Users, NEW amount \in Nat,
           amount <= o.shares_total - o.shares_bought
    PROVE  Recorded(Bought(o, i, amount))
             = [Recorded(o) EXCEPT !.sold = @ + amount, !.held[i] = @ + amount,
                  !.status = IF amount = o.shares_total - o.shares_bought
                             THEN "Funded" ELSE @]
<1> DEFINE left == o.shares_total - o.shares_bought
           n == Bought(o, i, amount)
           k == Recorded(o)
           k1 == [k EXCEPT !.sold = @ + amount]
           k2 == [k1 EXCEPT !.held[i] = @ + amount]
           k3 == [k2 EXCEPT !.status = IF amount = left THEN "Funded" ELSE @]
<1>1. /\ n.shares_bought = o.shares_bought + amount
      /\ n.investors = [o.investors EXCEPT ![i] = o.investors[i] + amount]
      /\ n.shares_total = o.shares_total /\ n.interest_bps = o.interest_bps
      /\ n.principal_pool = o.principal_pool
  BY BoughtFields
<1>2. n.shipper = o.shipper /\ n.status = IF amount = left THEN "Funded" ELSE o.status
  <2>1. SharesAvailable(o) - amount <= 0 <=> amount = left
    BY DEF SharesAvailable, Rwa
  <2> QED BY <2>1 DEF Bought, Rwa
<1>3. k \in LedgerRecord /\ Recorded(n) \in LedgerRecord
  BY BoughtType, RecordedType
<1>4. k1 \in LedgerRecord
  <2> HIDE DEF k
  <2> QED BY <1>3 DEF LedgerRecord
<1>5. k2 \in LedgerRecord
  <2> HIDE DEF k1
  <2> QED BY <1>4 DEF LedgerRecord
<1>6. k3 \in LedgerRecord
  <2> DEFINE st == IF amount = left THEN "Funded" ELSE k2.status
  <2>1. st \in Statuses
    <3> HIDE DEF k2
    <3> QED BY <1>5 DEF LedgerRecord, Statuses
  <2> HIDE DEF k2, st
  <2>2. [k2 EXCEPT !.status = st] \in LedgerRecord
    BY <1>5, <2>1 DEF LedgerRecord
  <2> QED BY <2>2 DEF st
<1>7. /\ Recorded(n).shipper = k3.shipper /\ Recorded(n).rate = k3.rate
      /\ Recorded(n).total = k3.total /\ Recorded(n).sold = k3.sold
      /\ Recorded(n).held = k3.held /\ Recorded(n).principal = k3.principal
      /\ Recorded(n).status = k3.status
  <2> HIDE DEF n
  <2> QED BY <1>1, <1>2 DEF Recorded
<1> HIDE DEF k3, n
<1>8. Recorded(n) = k3
  BY <1>3, <1>6, <1>7, SameRecord
<1> QED BY <1>8 DEF k3, n

\* What claim does to a record, Redeem does to what the ledger keeps of it.
LEMMA RedeemedRecorded ==
    ASSUME NEW o \in Rwa, NEW i \in Users, NEW amount \in Nat,
           Redeemed(o, i, amount) \in Rwa, amount <= o.investors[i],
           amount <= o.principal_pool
    PROVE  Recorded(Redeemed(o, i, amount))
             = [Recorded(o) EXCEPT !.held[i] = @ - amount, !.principal = @ - amount]
<1> DEFINE n == Redeemed(o, i, amount)
           k == Recorded(o)
           k1 == [k EXCEPT !.held[i] = @ - amount]
           k2 == [k1 EXCEPT !.principal = @ - amount]
<1>1. /\ n.principal_pool = o.principal_pool - amount
      /\ n.investors = [o.investors EXCEPT ![i] = o.investors[i] - amount]
      /\ n.shares_total = o.shares_total /\ n.interest_bps = o.interest_bps
      /\ n.shares_bought = o.shares_bought
  BY RedeemedFields
<1>2. n.shipper = o.shipper /\ n.status = o.status
  BY DEF Redeemed, Rwa
<1>3. k \in LedgerRecord /\ Recorded(n) \in LedgerRecord
  BY RecordedType
<1>4. k.held[i] - amount \in Nat /\ k.principal - amount \in Nat
  BY DEF Recorded, Rwa
<1>5. k1 \in LedgerRecord /\ k1.principal = k.principal
  <2> HIDE DEF k
  <2> QED BY <1>3, <1>4 DEF LedgerRecord
<1>6. k2 \in LedgerRecord
  <2> HIDE DEF k, k1
  <2> QED BY <1>4, <1>5 DEF LedgerRecord
<1>7. /\ Recorded(n).shipper = k2.shipper /\ Recorded(n).rate = k2.rate
      /\ Recorded(n).total = k2.total /\ Recorded(n).sold = k2.sold
      /\ Recorded(n).held = k2.held /\ Recorded(n).principal = k2.principal
      /\ Recorded(n).status = k2.status
  <2> HIDE DEF n
  <2> QED BY <1>1, <1>2 DEF Recorded
<1> HIDE DEF k2, n
<1>8. Recorded(n) = k2
  BY <1>3, <1>6, <1>7, SameRecord
<1> QED BY <1>8 DEF k2, n

\* create_rwa_token is the ledger's Issue.
LEMMA CreateIssues ==
    ASSUME TypeOK, NEW shipper \in Users, NEW r \in Rwas, NEW raise \in RaiseAmounts,
           NEW bps \in InterestBps, NEW t \in Tokens, NEW nonce, NEW deadline,
           CreateRwaToken(shipper, r, raise, bps, t, nonce, deadline)
    PROVE  Ledger!LedgerNext
<1> DEFINE o == NewOffering(shipper, raise, bps, t)
           upfront == Upfront(raise, bps)
<1>1. /\ raise \in Nat /\ bps \in Nat /\ protocolFeeBps \in Nat /\ rwas[r] = None
      /\ rwas' = [rwas EXCEPT ![r] = o] /\ PullUsdc(shipper, upfront)
  BY FactoryInputsType DEF CreateRwaToken, TypeOK, FactoryType
<1>2. upfront \in Nat /\ upfront >= Fee(raise, bps)
  <2>1. Fee(raise, bps) \in Nat /\ Fee(raise, protocolFeeBps) \in Nat
    BY <1>1, FeeType
  <2> QED BY <2>1 DEF Upfront
<1>3. upfront \in 0..usdc[shipper] /\ Ledger!TakeIn(shipper, upfront)
  <2>1. UsdcType
    BY DEF TypeOK
  <2>2. usdc[shipper] \in Nat /\ upfront <= usdc[shipper]
    BY <1>1, <1>2, <2>1, PullMoves
  <2> HIDE DEF upfront
  <2>3. Ledger!TakeIn(shipper, upfront)
    BY <1>1, <1>2, <2>1, PullTakesIn DEF Ledger!TakeIn
  <2>4. upfront \in 0..usdc[shipper]
    BY <1>2, <2>2
  <2> QED BY <2>3, <2>4
<1>4. Offered' = [Offered EXCEPT ![r] = Recorded(o)]
  BY <1>1, NewOfferingType, OfferedChange DEF TypeOK
<1>5. Recorded(o) = [shipper |-> shipper, rate |-> bps, total |-> raise, sold |-> 0,
                     held |-> [u \in Users |-> 0], principal |-> 0, status |-> "Open"]
  BY DEF Recorded, NewOffering
<1>6. Offered[r] = None
  BY <1>1 DEF Offered
<1> HIDE DEF o, upfront
<1>7. Issues(r, shipper, raise, bps, upfront)
  BY <1>2, <1>3, <1>4, <1>5, <1>6
     DEF Issues, Ledger!Issue, Offered, Ledger!Fee, Fee, Ledger!BpsScale, BpsScale
<1>8. upfront \in 0..Purse[shipper]
  BY <1>3 DEF Purse
<1>9. \E rate \in InterestBps, up \in 0..Purse[shipper] :
        Issues(r, shipper, raise, rate, up)
  BY <1>7, <1>8
<1> QED BY <1>9 DEF Ledger!LedgerNext, Purse, Issues

\* collect_fund is the ledger's PayOut.
LEMMA CollectPaysOut ==
    ASSUME TypeOK, NEW shipper \in Users, NEW r \in Rwas, CollectFund(shipper, r)
    PROVE  Ledger!LedgerNext
<1>1. /\ rwas[r] # None /\ rwas[r].shipper = shipper
      /\ SendUsdc(Factory, shipper, rwas[r].shares_bought)
      /\ rwas' = rwas
  BY DEF CollectFund, factoryVars
<1>2. rwas[r].shares_bought \in Nat /\ UsdcType
  BY <1>1 DEF TypeOK, FactoryType, Rwa
<1>3. Ledger!GiveOut(shipper, rwas[r].shares_bought)
  BY <1>1, <1>2, SendGivesOut DEF Ledger!GiveOut
<1>4. /\ Offered[r].shipper = shipper /\ Offered[r].sold = rwas[r].shares_bought
      /\ Offered' = Offered
  BY <1>1 DEF Offered, Recorded
<1>5. PaysOut(r)
  BY <1>3, <1>4 DEF PaysOut, Ledger!PayOut, Ledger!GiveOut, Offered
<1>6. Offered[r] # None
  BY <1>1, OfferedRecord DEF TypeOK
<1> QED BY <1>5, <1>6 DEF Ledger!LedgerNext, Offered, PaysOut

\* settle_debt is the ledger's Repay.
LEMMA SettleRepays ==
    ASSUME TypeOK, NEW shipper \in Users, NEW r \in Rwas, NEW principal \in SettleAmounts,
           SettleDebt(shipper, r, principal)
    PROVE  Ledger!LedgerNext
<1> DEFINE o == rwas[r]
           n == Repaid(rwas[r], principal)
<1>1. /\ principal \in Nat /\ principal > 0 /\ o # None /\ o.shipper = shipper
      /\ PullUsdc(shipper, principal)
      /\ rwas' = [rwas EXCEPT ![r] = n]
      /\ UsdcType /\ FactoryType /\ o \in Rwa
  BY FactoryInputsType DEF SettleDebt, TypeOK, FactoryType
<1>2. Ledger!TakeIn(shipper, principal)
  BY <1>1, PullTakesIn DEF Ledger!TakeIn
<1>3. Offered' = [Offered EXCEPT ![r] = Recorded(n)]
  BY <1>1, RepaidType, OfferedChange
<1>4. Recorded(n) = [Recorded(o) EXCEPT !.principal = @ + principal, !.status = "Settled"]
  BY <1>1, RepaidRecorded
<1>5. Offered[r] = Recorded(o) /\ Offered[r] # None /\ Offered[r].shipper = shipper
  BY <1>1, OfferedRecord DEF Recorded
<1> HIDE DEF n, o
<1>6. Offered' = [Offered EXCEPT ![r].principal = @ + principal, ![r].status = "Settled"]
  BY <1>3, <1>4, <1>5 DEF Offered
<1>7. Repays(r, principal)
  BY <1>1, <1>2, <1>5, <1>6 DEF Repays, Ledger!Repay, Ledger!TakeIn, Offered
<1> QED BY <1>5, <1>7 DEF Ledger!LedgerNext, Offered, Repays

\* buy_shares is the ledger's Sell: it funds the offering exactly when nothing
\* is left.
LEMMA BuySells ==
    ASSUME TypeOK, NEW i \in Users, NEW r \in Rwas, NEW amount \in BuyAmounts,
           BuyShares(i, r, amount)
    PROVE  Ledger!LedgerNext
<1> DEFINE o == rwas[r]
           n == Bought(rwas[r], i, amount)
           left == o.shares_total - o.shares_bought
<1>1. /\ amount \in Nat /\ amount > 0 /\ o # None /\ o.status = "Open"
      /\ amount <= left
      /\ PullUsdc(i, amount)
      /\ rwas' = [rwas EXCEPT ![r] = n]
      /\ UsdcType /\ FactoryType /\ o \in Rwa
  BY FactoryInputsType DEF BuyShares, TypeOK, FactoryType, SharesAvailable, Rwa
<1>2. Ledger!TakeIn(i, amount)
  BY <1>1, PullTakesIn DEF Ledger!TakeIn
<1>3. Offered' = [Offered EXCEPT ![r] = Recorded(n)]
  BY <1>1, BoughtType, OfferedChange
<1>4. left \in Nat /\ amount \in 1..left
  BY <1>1 DEF Rwa
<1>5. Recorded(n) = [Recorded(o) EXCEPT !.sold = @ + amount, !.held[i] = @ + amount,
                       !.status = IF amount = left THEN "Funded" ELSE @]
  <2>1. o \in Rwa /\ amount \in Nat /\ amount <= o.shares_total - o.shares_bought
    BY <1>1
  <2>2. n = Bought(o, i, amount)
    OBVIOUS
  <2> HIDE DEF o, n
  <2> QED BY <2>1, <2>2, BoughtRecorded
<1>6. /\ Offered[r] = Recorded(o) /\ Offered[r] # None
      /\ Offered[r].status = "Open" /\ Offered[r].total - Offered[r].sold = left
  BY <1>1, OfferedRecord DEF Recorded
<1> HIDE DEF n, o, left
<1>7. Offered' = [Offered EXCEPT ![r].sold = @ + amount, ![r].held[i] = @ + amount,
                    ![r].status = IF amount = left THEN "Funded" ELSE @]
  BY <1>3, <1>5, <1>6 DEF Offered
<1>8. Sells(r, i, amount)
  BY <1>1, <1>2, <1>4, <1>6, <1>7
     DEF Sells, Ledger!Sell, Ledger!CanSell, Ledger!SharesLeft, Ledger!TakeIn, Offered
<1>9. \E a \in 1..left : Sells(r, i, a)
  BY <1>4, <1>8
<1> QED BY <1>6, <1>9 DEF Ledger!LedgerNext, Ledger!SharesLeft, Offered, Sells

\* claim is the ledger's Redeem.
LEMMA ClaimRedeemsLedger ==
    ASSUME IInv, NEW i \in Users, NEW r \in Rwas, NEW amount \in Nat, NEW nonce,
           NEW deadline, Claim(i, r, amount, nonce, deadline)
    PROVE  Ledger!LedgerNext
<1> DEFINE o == rwas[r]
           n == Redeemed(rwas[r], i, amount)
<1>1. /\ amount > 0 /\ o # None /\ o.status = "Settled"
      /\ amount <= o.investors[i] /\ amount <= o.principal_pool
      /\ SendUsdc(Factory, i, Payout(o, amount))
      /\ rwas' = [rwas EXCEPT ![r] = n]
      /\ UsdcType /\ FactoryType /\ o \in Rwa /\ o.investors[i] \in Nat
  <2>1. /\ amount > 0 /\ o # None /\ o.status = "Settled"
        /\ o.investors[i] >= amount /\ o.principal_pool >= amount
        /\ SendUsdc(Factory, i, Payout(o, amount))
        /\ rwas' = [rwas EXCEPT ![r] = n]
    BY DEF Claim
  <2>2. UsdcType /\ FactoryType /\ o \in Rwa
    BY <2>1 DEF IInv, TypeOK, FactoryType
  <2>3. o.investors[i] \in Nat /\ o.principal_pool \in Nat
    BY <2>2 DEF Rwa
  <2> QED BY <2>1, <2>2, <2>3
<1>2. n \in Rwa /\ Payout(o, amount) \in Nat
  BY ClaimRecord
<1>3. Ledger!GiveOut(i, Payout(o, amount))
  BY <1>1, <1>2, SendGivesOut DEF Ledger!GiveOut
<1>4. Offered' = [Offered EXCEPT ![r] = Recorded(n)]
  BY <1>1, <1>2, OfferedChange
<1>5. Recorded(n) = [Recorded(o) EXCEPT !.held[i] = @ - amount, !.principal = @ - amount]
  BY <1>1, <1>2, RedeemedRecorded
<1>6. /\ Offered[r] = Recorded(o) /\ Offered[r] # None /\ Offered[r].status = "Settled"
      /\ Offered[r].held[i] = o.investors[i] /\ Offered[r].principal = o.principal_pool
      /\ Offered[r].rate = o.interest_bps
  BY <1>1, OfferedRecord DEF Recorded
<1>7. Payout(o, amount) = amount + Fee(amount, Offered[r].rate)
  BY <1>6 DEF Payout, Interest
<1> HIDE DEF n, o
<1>8. Offered' = [Offered EXCEPT ![r].held[i] = @ - amount, ![r].principal = @ - amount]
  BY <1>4, <1>5, <1>6 DEF Offered
<1>9. Redeems(r, i, amount)
  BY <1>1, <1>3, <1>6, <1>7, <1>8
     DEF Redeems, Ledger!Redeem, Ledger!CanRedeem, Ledger!Due, Ledger!GiveOut,
         Ledger!Fee, Fee, Ledger!BpsScale, BpsScale, Offered
<1>10. \E a \in 1..Offered[r].held[i] : Redeems(r, i, a)
  BY <1>1, <1>6, <1>9
<1> QED BY <1>6, <1>10 DEF Ledger!LedgerNext, Offered, Redeems

\* Whatever pays the admin, or brings the factory USDC, and leaves what the
\* ledger keeps of the offerings alone, happens elsewhere.
LEMMA PaysAdmin ==
    ASSUME TypeOK, AdminKnown, admin \in Users, NEW amount \in Nat,
           SendUsdc(Factory, admin, amount), Offered' = Offered
    PROVE  Ledger!LedgerNext
<1>1. admin = FactoryAdmin /\ UsdcType
  BY FactoryIsNoUser DEF AdminKnown, TypeOK
<1>2. Ledger!GiveOut(FactoryAdmin, amount)
  BY <1>1, FactoryAdminType, SendGivesOut DEF Ledger!GiveOut
<1>3. usdc[Factory] - usdc'[Factory] = amount
  BY <1>1, FactoryAdminType, SendMoves
<1> QED BY <1>2, <1>3 DEF Ledger!LedgerNext, Ledger!Elsewhere, Ledger!GiveOut, Offered

\* USDC that comes in from outside is the ledger's Elsewhere.
LEMMA VaultGrows ==
    ASSUME Offered' = Offered, usdc'[Factory] >= usdc[Factory]
    PROVE  Ledger!LedgerNext
BY DEF Ledger!LedgerNext, Ledger!Elsewhere, Offered

\* withdraw_fees changes nothing the ledger keeps.
LEMMA WithdrawFeesElsewhere ==
    ASSUME TypeOK, AdminKnown, NEW caller \in Users, NEW r \in Rwas,
           WithdrawFees(caller, r)
    PROVE  Ledger!LedgerNext
<1> DEFINE o == rwas[r]
           n == [rwas[r] EXCEPT !.protocol_fee_pool = 0]
<1>1. /\ o # None /\ admin \in Users
      /\ SendUsdc(Factory, admin, o.protocol_fee_pool)
      /\ rwas' = [rwas EXCEPT ![r] = n]
      /\ FactoryType
  BY DEF WithdrawFees, TypeOK
<1>2. o \in Rwa /\ o.protocol_fee_pool \in Nat
  BY <1>1 DEF FactoryType, Rwa
<1>3. n \in Rwa /\ Recorded(n) = Recorded(o)
  BY <1>2 DEF Rwa, Recorded
<1>4. Offered' = [Offered EXCEPT ![r] = Recorded(n)]
  <2> HIDE DEF n
  <2> QED BY <1>1, <1>3, OfferedChange
<1>5. Offered[r] = Recorded(o)
  BY <1>1, OfferedRecord
<1>6. Offered' = Offered
  BY <1>3, <1>4, <1>5 DEF Offered
<1> QED BY <1>1, <1>2, <1>6, PaysAdmin

\* Every step of the composed contracts is a step of the ledger.
LEMMA StepsImplement ==
    ASSUME IInv, AdminKnown, Next
    PROVE  Ledger!LedgerNext
<1> USE DEF IInv
<1>0. usdc[Factory] \in Nat
  BY DEF TypeOK, UsdcType, Addresses
<1>1. CASE Initialize(FactoryAdmin, ProtocolFeeBps)
  BY <1>0, <1>1, VaultGrows DEF Initialize, usdcVars, Offered
<1>2. ASSUME NEW shipper \in Users, NEW r \in Rwas, NEW raise \in RaiseAmounts,
             NEW bps \in InterestBps, NEW p \in Permits,
             CreateRwaToken(shipper, r, raise, bps, p.token, p.nonce, p.deadline)
      PROVE  Ledger!LedgerNext
  <2>1. p.token \in Tokens
    BY PermitsType DEF Permit
  <2> QED BY <1>2, <2>1, CreateIssues
<1>3. ASSUME NEW i \in Users, NEW r \in Rwas, NEW amount \in BuyAmounts,
             BuyShares(i, r, amount)
      PROVE  Ledger!LedgerNext
  BY <1>3, BuySells
<1>4. ASSUME NEW shipper \in Users, NEW r \in Rwas, CollectFund(shipper, r)
      PROVE  Ledger!LedgerNext
  BY <1>4, CollectPaysOut
<1>5. ASSUME NEW shipper \in Users, NEW r \in Rwas, NEW principal \in SettleAmounts,
             SettleDebt(shipper, r, principal)
      PROVE  Ledger!LedgerNext
  BY <1>5, SettleRepays
<1>6. ASSUME NEW p \in Permits, NEW r \in Rwas, p.account \in Users,
             Claim(p.account, r, p.amount, p.nonce, p.deadline)
      PROVE  Ledger!LedgerNext
  <2>1. p.amount \in Nat
    BY PermitsType DEF Permit
  <2> QED BY <1>6, <2>1, ClaimRedeemsLedger
<1>7. ASSUME NEW caller \in Users, NEW r \in Rwas, WithdrawFees(caller, r)
      PROVE  Ledger!LedgerNext
  BY <1>7, WithdrawFeesElsewhere
<1>8. ASSUME NEW caller \in Users, NEW amount \in EmergencyAmounts,
             EmergencyWithdrawUsdc(caller, amount)
      PROVE  Ledger!LedgerNext
  <2>1. /\ amount \in Nat /\ admin \in Users /\ SendUsdc(Factory, admin, amount)
        /\ Offered' = Offered
    BY <1>8, FactoryInputsType DEF EmergencyWithdrawUsdc, factoryVars, Offered
  <2> QED BY <2>1, PaysAdmin
<1>9. ASSUME NEW caller \in Users, NEW amount \in EmergencyAmounts, NEW t \in Tokens,
             EmergencyWithdrawToken(caller, t, amount)
      PROVE  Ledger!LedgerNext
  BY <1>0, <1>9, VaultGrows DEF EmergencyWithdrawToken, usdcVars, factoryVars, Offered
<1>10. CASE DirectStep /\ UNCHANGED <<factoryVars, historyVars>>
  <2>1. Offered' = Offered
    BY <1>10 DEF factoryVars, Offered
  <2>2. usdc'[Factory] >= usdc[Factory]
    <3>1. CASE UsdcNext
      BY <3>1, PaymentsSpareFactory DEF TypeOK
    <3>2. CASE ~UsdcNext
      BY <1>0, <1>10, <3>2 DEF DirectStep, usdcVars
    <3> QED BY <3>1, <3>2
  <2> QED BY <2>1, <2>2, VaultGrows
<1> QED BY <1>1, <1>2, <1>3, <1>4, <1>5, <1>6, <1>7, <1>8, <1>9, <1>10
        DEF Next, FactoryStep

\* The factory, composed with every contract beside it, implements the ledger.
THEOREM FactoryImplementsLedger == Spec => ImplementsLedger
<1>1. Init => Ledger!LedgerInit
  BY DEF Init, UsdcInit, Addresses, Ledger!LedgerInit
<1>2. CInv /\ [Next]_vars => [Ledger!LedgerNext]_(Ledger!ledgerVars)
  <2>1. CInv /\ Next => Ledger!LedgerNext
    BY StepsImplement DEF CInv
  <2>2. UNCHANGED vars => UNCHANGED Ledger!ledgerVars
    BY DEF vars, usdcVars, factoryVars, Ledger!ledgerVars
  <2> QED BY <2>1, <2>2
<1> QED BY <1>1, <1>2, CustodyInvariant, PTL DEF Spec, ImplementsLedger, Ledger!LedgerSpec
=============================================================================
