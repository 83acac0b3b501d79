SPECIFICATION MCSpec
CONSTANTS
    MaxRetries = 3
    Calls = {get, post}
    Idempotent = {get}
    NoAge = NoAge
    NoLabel = NoLabel
    Null = Null
    NonString = NonString
    Garbage = Garbage
    Stamp = Stamp
    Current = Current
    NoItem = NoItem
    r1 = r1
    r2 = r2
    r3 = r3
INVARIANTS TypeOK AtMostOnce ContractCachesSound ContractCredentials
PROPERTIES SilentAfterCancel KeepsPromise CallsReturn ContractServedFresh ContractOneSnapshot ContractAllEnd
CHECK_DEADLOCK FALSE
