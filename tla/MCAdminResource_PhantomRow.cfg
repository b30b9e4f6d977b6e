CONSTANTS
    k1 = k1
    k2 = k2
    NoData = NoData
    NoId = NoId
    Clicks <- MCClicks
    ServerIds <- MCServerIds
    InitialIds <- MCInitialIds
    EditId <- MCEditId
    Forms = {"user"}
    Overlap = TRUE
    Preloaded = FALSE
    MaxFetches = 2
    Fallback = TRUE
INIT Init
NEXT Next
INVARIANT SettledCacheIsConfirmed
