CONSTANTS
    NoFrom = NoFrom
    Variant = "helper"
    Pages <- MCPages
    Visits <- MCVisits
    Froms <- MCFroms
    Locales = {"en", "es", "ja"}
    MaxToggles = 1
    Cached <- MCCached
    Deployments = {FALSE, TRUE}
SPECIFICATION Spec
INVARIANT PostLoginSameOrigin ShownStatusIsLatestAnswer OverlayHiddenOnlyWhenReady PageDictFollowsLocale
PROPERTY EveryNavigationSettles VerificationSettles LocaleFollowsSaved
