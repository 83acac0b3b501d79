SPECIFICATION Spec
CONSTANTS
    Unset = Unset
    PlatformDns = PlatformDns
    UpperSnake <- MCUpperSnake
    Lower <- MCLower
    Programs <- MCPrograms
    Plans <- MCPlans
    Follows <- MCFollows
    Args <- MCNamedAtDeployment
    DnsChar <- MCDnsChar
    KeyChars <- MCKeyChars
    EnvVarNaming <- MCEnvVarNaming
    Families = {"litellm"}
    Growing = {"litellm"}
    MaxEdits = 1
    MaxFaults = 1
INVARIANT FallbacksFire
CHECK_DEADLOCK FALSE
