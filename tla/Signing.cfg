SPECIFICATION FairSpec
CONSTANTS
    f1 = f1
    f2 = f2
    Flows = {f1, f2}
    Endpoints = 2
    DfnsFields = {"signedTransaction", "signedData"}
    MaxFaults = 4
INVARIANTS
    DoneMeansApplied
    FailedIsFinal
    AloneSucceeds
PROPERTY
    EveryFlowEnds
CHECK_DEADLOCK FALSE
