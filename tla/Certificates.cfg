CONSTANTS
    acm = acm
    iam = iam
    c1 = c1
    c2 = c2
    c3 = c3
    c4 = c4
    Providers = {acm, iam}
    ProviderOf <- MCProviderOf
    filterTag = TRUE
    TagsFirst = {acm}
    Tagged = {c1, c2, c3}
    Blacklist = {c2}
    MaxFaults = 2
    Certs = {c1, c2, c3, c4}
    None = None
SPECIFICATION CacheSpec
INVARIANT CacheTypeOK
PROPERTIES
    CacheIsView
    CatchesUp
