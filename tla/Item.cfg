SPECIFICATION Spec
CONSTANTS
    MaxRetries = 1
    Uuids = {u1, u2, u3}
    Titles = {t1, t2}
    Labels = {a, b}
    Values = {v1}
    NoLabel = NoLabel
    Hand = Hand
    Absent = Absent
    NoItem = NoItem
    NoGoal = NoGoal
    NoState = NoState
    NoUuid = NoUuid
    HandKinds = {"create", "write", "delete", "rename"}
    FaultKinds = {"lost", "dropped", "late", "crash"}
    MaxEdits = 2
    MaxHands = 2
    MaxFaults = 2
SYMMETRY Symmetry
INVARIANTS TypeOK AdoptsAtMostOne
PROPERTIES SeenUnmanagedSurvive
CHECK_DEADLOCK FALSE
