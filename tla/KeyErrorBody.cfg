SPECIFICATION FairSpec
CONSTANTS
    MaxRetries = 1
    Values = {v1}
    HandValues = {}
    Aliases = {a1}
    Teams = {NoTeam}
    Configs = {c1}
    NoTeam = NoTeam
    NoKey = NoKey
    NoGoal = NoGoal
    NoState = NoState
    MissingAs = "errorBody"
    HandKinds = {}
    FaultKinds = {"lost"}
    MaxEdits = 2
    MaxHands = 0
    MaxFaults = 2
PROPERTIES Converges
CHECK_DEADLOCK FALSE
