SPECIFICATION FairSpec
CONSTANTS
    Unset = Unset
    PlatformDns = PlatformDns
    UpperSnake <- MCUpperSnake
    Lower <- MCLower
    Programs <- MCPrograms
    Plans <- MCPlans
    Follows <- MCFollows
    Args <- MCArgs
    DnsChar <- MCDnsChar
    KeyChars <- MCKeyChars
    EnvVarNaming <- MCEnvVarNaming
    Families = {"litellm", "tenant", "site", "monitor"}
    Growing = {"tenant", "litellm", "site"}
    MaxEdits = 2
    MaxFaults = 1
INVARIANTS PodsServed GroupsServed QuotaAdmits Connected ReferencesRead Gated
PROPERTIES Rolled NothingLost InOrder Converges
CHECK_DEADLOCK FALSE
