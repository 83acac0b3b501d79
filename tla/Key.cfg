SPECIFICATION MCSpec
CONSTANTS
    a1 = a1
    c1 = c1
    MaxRetries = 1
    Values = {v1, v2}
    HandValues = {h1}
    Aliases = {a1, a2}
    Teams = {NoTeam, t1}
    Configs = {c1, c2}
    NoTeam = NoTeam
    NoKey = NoKey
    NoGoal = NoGoal
    NoState = NoState
    MissingAs = "status"
    HandKinds = {"create", "delete"}
    FaultKinds = {"dropped", "lost", "lostGenerate", "late", "uninspected", "crash"}
    MaxEdits = 3
    MaxHands = 2
    MaxFaults = 2
INVARIANTS TypeOK OnlyRecordedLives AloneNoStaleCredential
PROPERTIES ForeignKeysKept AloneConverges
CHECK_DEADLOCK FALSE
