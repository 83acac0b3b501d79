SPECIFICATION FairSpec
CONSTANTS
    Slots = {s1}
    NumMonitors = 2
    AlertThreshold = 2
    RecoveryThreshold = 1
    BodyChecked = {}
    TimeLimited = {1}
    MaxBoundParams = 15
    FaultKinds = {}
PROPERTIES Detects
