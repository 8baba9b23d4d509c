SPECIFICATION Spec
CONSTANTS
    tab = tab
    page = page
    Tab = tab
    Page = page
    Nothing = none
    AccessTtl = 5
    RefreshTtl = 8
    Margin = 3
    MinDelay = 1
    Latency = 1
    MaxClock = 10
    MaxLogins = 2
INVARIANTS
    CookieMatchesHash
    TabStaysAuthenticated
    LogoutHolds
PROPERTIES
    DeadStaysDead
CHECK_DEADLOCK FALSE
