SPECIFICATION Spec
CONSTANTS
    user = user
    ops = ops
    Users = {user, ops}
    Factory = factory
    None = none
    I128Max = 1
    MaxSequence = 1
    IdentityCalls = {}
    User = user
    Admin = ops
    MaxEvents = 6
    MaxTokens = 2
    MaxFaults = 1
INVARIANTS
    VerifiedWasApproved
    ChainFollowsReviews
    DecisionsAgree
CHECK_DEADLOCK FALSE
