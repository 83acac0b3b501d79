SPECIFICATION Spec
CONSTANTS
    MaxRetries = 1
    Uuids = {u1, u2, u3}
    Titles = {t1, t2}
    Labels = {a}
    Values = {v1}
    NoLabel = NoLabel
    Hand = Hand
    Absent = Absent
    NoItem = NoItem
    NoGoal = NoGoal
    NoState = NoState
    NoUuid = NoUuid
    HandKinds = {}
    FaultKinds = {"crash"}
    MaxEdits = 3
    MaxHands = 0
    MaxFaults = 1
INVARIANTS RecordedItemExists
CHECK_DEADLOCK FALSE
