CONSTANTS
    c1 = c1
    t1 = t1
    t2 = t2
    LoginPage = LoginPage
    UserNav = UserNav
    NoToken = NoToken
    Calls <- MCCalls
    Tokens <- MCTokens
    Env <- MCEnv
    CallPaths <- MCCallPaths
    LoginPath <- MCLoginPath
    UserCall <- MCUserCall
    UserResources <- MCUserResources

SPECIFICATION Spec

INVARIANT CredentialLifecycle

\* Stops at the first violation.
CHECK_DEADLOCK FALSE
