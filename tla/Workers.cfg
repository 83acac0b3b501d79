SPECIFICATION MCSpec
CONSTANTS
    Slots = {s1}
    NumMonitors = 2
    AlertThreshold = 2
    RecoveryThreshold = 1
    BodyChecked = {1}
    TimeLimited = {2}
    MaxBoundParams = 100
    FaultKinds = {"insert", "select", "batch"}
    r1 = r1
    Absent = 0
    None = None
INVARIANTS TypeOK Informed SiteFreshWhenOrdered SiteAddedIsVisible BaseUploadedOnce ImageOfTree
PROPERTIES AlertJustified
