CONSTANTS
    xsrf = xsrf
    session = session
    v1 = v1
    v2 = v2
    NoCookie = NoCookie
    E1 = E1
    Blank = Blank
    Tmpl = Tmpl
    Stamped = Stamped
    EnvBases = {"valid"}
    NoConfig = NoConfig
    CookieNames <- MCCookieNames
    CookieValues <- MCCookieValues
    MaxSetCookies = 0
    HasGetSetCookie = TRUE
    LoginBodies <- MCLoginBodies

SPECIFICATION Spec

\* The page leaves the verification email empty under its default
\* register template: the notification goes to the raw template.
INVARIANT VerificationTargetsRegistered


\* A diagnostics run ends after its last stage.
CHECK_DEADLOCK FALSE
