SPECIFICATION FairSpec
CONSTANTS
    r1 = r1
    r2 = r2
    Requests = {r1, r2}
    None = none
    Service = service
    UserRoles = {"INVESTOR", "SHIPPING_COMPANY"}
    DefaultRole = "INVESTOR"
    MaxStarts = 4
    MaxEndUsers = 2
    MaxFaults = 2
INVARIANTS
    ProvisionedUnlessInterrupted
    TrustSentBeforeDelegated
    OrphansNeverDelegated
PROPERTY
    RetryLinks
CHECK_DEADLOCK FALSE
