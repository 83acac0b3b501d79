SPECIFICATION FairSpec
CONSTANTS
    Slots = {s1, s2}
    NumMonitors = 1
    AlertThreshold = 2
    RecoveryThreshold = 1
    BodyChecked = {}
    TimeLimited = {1}
    MaxBoundParams = 100
    FaultKinds = {"insert", "select", "batch", "lost", "webhook", "kill"}
PROPERTIES Detects
