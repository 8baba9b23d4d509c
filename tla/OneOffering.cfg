SPECIFICATION Spec
CONSTANTS
    shipper = shipper
    ann = ann
    bob = bob
    ops = ops
    rwa1 = rwa1
    rwa2 = rwa2
    tok1 = tok1
    tok2 = tok2
    n1 = n1
    n2 = n2
    n3 = n3
    n4 = n4
    Users = {shipper, ann, bob, ops}
    Factory = factory
    None = none
    I128Max = 100000
    MaxSequence = 1
    IdentityCalls <- OneOfferingIdentities
    Tokens = {tok1}
    MaxBalances = {}
    Nonces = {n1, n2, n3, n4}
    Permits <- OneOfferingPermits
    MaxHeld = 0
    TransferAmounts = {}
    InitialUsdc <- OneOfferingUsdc
    Approvals <- OneOfferingApprovals
    Payments <- OneOfferingPayments
    FactoryAdmin = ops
    ProtocolFeeBps = 700
    Rwas = {rwa1}
    RaiseAmounts = {24}
    InterestBps = {950}
    BuyAmounts = {8, 16}
    SettleAmounts = {8, 16}
    EmergencyAmounts = {}
    MaxRescued = 0
    MaxCollected = 32
    MaxPrincipal = 24
INVARIANTS
    TypeOK
    SharesConserved
    InterestCovered
PROPERTIES
    PrincipalLeavesByRedemption
    ImplementsLedger
CHECK_DEADLOCK FALSE
