CONSTANTS
    Label = {"a", "foo", "org"}
    Characters <- MCCharacters
    Hostnames <- MCHostnames
    Patterns <- MCPatterns
    Lists <- MCLists
    now = 10
    minimalCertValidityPeriod = 2
    NoCertificate = NoCertificate
SPECIFICATION MatchSpec
CHECK_DEADLOCK FALSE
INVARIANTS
    MatchTypeOK
    MostSpecific
    BestOfItsLength
