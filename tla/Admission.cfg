CONSTANTS
    Exe <- MCExe
    Mapping <- MCMapping
    NotUtf8 <- MCNotUtf8
    Policies <- MCPolicies
    MaxTtl = 2
SPECIFICATION Spec
INVARIANTS
    LongestPrefixWins
    CacheMatchesPolicy
    RejectionsExpire
PROPERTIES
    AdmittedInTheEnd
