SPECIFICATION FairSpec
CONSTANTS
    shipper = shipper
    rwa1 = rwa1
    rwa2 = rwa2
    Users = {shipper}
    FactoryAdmin = shipper
    Rwas = {rwa1, rwa2}
    None = none
    RaiseAmounts = {}
    InterestBps = {}
    SettleAmounts = {}
    Shipper = shipper
    Tabs = {t1, t2}
    Docs = {invoice}
    Terms <- MCTerms
    InitialPurse <- MCPurse
    ProtocolFeeBps = 700
    PROTOCOL_FEE_BPS = 700
    MaxFaults = 2
INVARIANTS
    SomeoneSucceeds
    UntoldOnlyByFaults
PROPERTY
    RecordsCatchUp
CHECK_DEADLOCK FALSE
