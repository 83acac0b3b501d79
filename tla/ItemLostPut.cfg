SPECIFICATION AnsweredPosts
CONSTANTS
    MaxRetries = 1
    Uuids = {u1, u2}
    Titles = {t1}
    Labels = {a, b}
    Values = {v1}
    NoLabel = NoLabel
    Hand = Hand
    Absent = Absent
    NoItem = NoItem
    NoGoal = NoGoal
    NoState = NoState
    NoUuid = NoUuid
    HandKinds = {}
    FaultKinds = {"lost"}
    MaxEdits = 3
    MaxHands = 0
    MaxFaults = 2
INVARIANTS DroppedLabelsGo
CHECK_DEADLOCK FALSE
