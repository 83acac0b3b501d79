SPECIFICATION MCSpec
CONSTANTS
    v1 = v1
    t1 = t1
    MaxRetries = 1
    Uuids = {u1, u2, u3, u4, u5}
    Titles = {t1}
    Labels = {a, b}
    Values = {v1, v2}
    NoLabel = NoLabel
    Hand = Hand
    Absent = Absent
    NoItem = NoItem
    NoGoal = NoGoal
    NoState = NoState
    NoUuid = NoUuid
    HandKinds = {"create"}
    FaultKinds = {"lost", "dropped", "crash"}
    MaxEdits = 3
    MaxHands = 1
    MaxFaults = 3
INVARIANTS AtMostOneMade ProgramInSync ProgramRecordedItemExists
PROPERTIES RunsConverge
CHECK_DEADLOCK FALSE
