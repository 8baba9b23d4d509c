SPECIFICATION OnboardingSpec

CONSTANTS
    Missing = Missing
    Asked = Asked
    Attempts = 2
    Timers = {1}
    MaxMounts = 3
    MaxReviews = 3
    MaxTokens = 1
    MaxFailures = 1

INVARIANTS
    ProfileBeforeVerification
    FlowOfRole
    DismissalExpires

PROPERTIES
    ApprovalReachesPage

CHECK_DEADLOCK FALSE
