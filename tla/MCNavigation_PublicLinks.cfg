CONSTANTS
    NoFrom = NoFrom
    Variant = "helper"
    Pages <- MCPages
    Visits <- MCVisits
    Froms = {}
    Locales = {"en"}
    MaxToggles = 0
    Cached <- MCCached
    Deployments = {FALSE}
SPECIFICATION Spec
INVARIANT AppNavigationReachesPage
