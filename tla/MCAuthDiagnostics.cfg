CONSTANTS
    xsrf = xsrf
    session = session
    v1 = v1
    v2 = v2
    NoCookie = NoCookie
    E1 = E1
    Blank = Blank
    Tmpl = Tmpl
    Stamped = Stamped
    EnvBases = {"none"}
    NoConfig = NoConfig
    CookieNames <- MCCookieNames
    CookieValues <- MCCookieValues
    MaxSetCookies = 2
    HasGetSetCookie = TRUE
    LoginBodies <- MCLoginBodies

SPECIFICATION Spec

INVARIANT TypeOK
INVARIANT JarReflectsResponses
INVARIANT TokenFollowsLogin
INVARIANT LoginTokenAsLoginPage
INVARIANT VerificationSkipReason

\* A diagnostics run ends after its last stage.
CHECK_DEADLOCK FALSE
