CONSTANTS
    NoFrom = NoFrom
    Variant = "inline"
    Pages <- MCPages
    Visits <- MCVisits
    Froms <- MCAllFroms
    Locales = {"en"}
    MaxToggles = 0
    Cached <- MCCached
    Deployments = {FALSE, TRUE}
SPECIFICATION Spec
INVARIANT PostLoginSameOrigin
