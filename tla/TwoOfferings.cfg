SPECIFICATION Spec
CONSTANTS
    shipper = shipper
    ann = ann
    bob = bob
    ops = ops
    rwa1 = rwa1
    rwa2 = rwa2
    tok1 = tok1
    tok2 = tok2
    n1 = n1
    n2 = n2
    n3 = n3
    n4 = n4
    Users = {shipper, ann}
    Factory = factory
    None = none
    I128Max = 100000
    MaxSequence = 2
    IdentityCalls <- TwoOfferingsIdentities
    Tokens = {tok1, tok2}
    MaxBalances = {}
    Nonces = {n1, n2, n3, n4}
    Permits <- TwoOfferingsPermits
    MaxHeld = 16
    TransferAmounts = {16}
    InitialUsdc <- TwoOfferingsUsdc
    Approvals <- TwoOfferingsApprovals
    Payments = {}
    FactoryAdmin = ann
    ProtocolFeeBps = 700
    Rwas = {rwa1, rwa2}
    RaiseAmounts = {16}
    InterestBps = {950}
    BuyAmounts = {16}
    SettleAmounts = {16}
    EmergencyAmounts = {16}
    MaxRescued = 16
    MaxCollected = 32
    MaxPrincipal = 16
INVARIANTS
    EscrowAccounted
    OneTokenPerOffering
    UnsoldSharesHeld
SYMMETRY TwoOfferingsSymmetry
CHECK_DEADLOCK FALSE
