SPECIFICATION SepSpec
CONSTANTS
    ann = ann
    bob = bob
    tok = tok
    n1 = n1
    n2 = n2
    n3 = n3
    Users = {ann, bob}
    Factory = factory
    None = none
    I128Max = 100
    MaxSequence = 3
    IdentityCalls <- MCIdentityCalls
    Tokens = {tok}
    MaxBalances = {2, 3}
    Nonces = {n1, n2, n3}
    Permits <- MCPermits
    MaxHeld = 3
    TransferAmounts = {0, 1, 2}
INVARIANTS
    BalancesCoverSupply
PROPERTIES
    ReceiptsAreChecked
    SupplyMovesByPermit
CHECK_DEADLOCK FALSE
