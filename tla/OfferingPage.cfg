SPECIFICATION Spec
CONSTANTS
    shipper = shipper
    ann = ann
    s1 = s1
    s2 = s2
    a1 = a1
    rwa = rwa
    Users = {shipper, ann}
    FactoryAdmin = shipper
    Rwas = {rwa}
    None = none
    Null = null
    RaiseAmounts = {24}
    InterestBps = {950}
    SettleAmounts = {}
    Tabs = {s1, s2, a1}
    UserOf <- MCUserOf
    Shipper = shipper
    Rwa = rwa
    InitialPurse <- MCPurse
    TypedAmounts = {12}
    Cent = 8
    Thousand = 24
    MaxPresses <- MCPresses
    MaxFaults = 1
INVARIANTS
    EscrowWhole
SYMMETRY ShipperTabs
CHECK_DEADLOCK FALSE
