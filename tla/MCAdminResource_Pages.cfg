CONSTANTS
    k1 = k1
    k2 = k2
    NoData = NoData
    NoId = NoId
    Clicks <- MCClicks
    ServerIds <- MCServerIds
    InitialIds <- MCInitialIds
    EditId <- MCEditId
    Forms = {"user", "team", "role", "permission"}
    Overlap = FALSE
    Preloaded = TRUE
    MaxFetches = 3
    Fallback = TRUE
SPECIFICATION Spec
INVARIANT TypeOK SettledCacheIsConfirmed CacheMatchesServerWhenQuiet
