CONSTANTS
    c1 = c1
    t1 = t1
    t2 = t2
    LoginPage = LoginPage
    UserNav = UserNav
    NoToken = NoToken
    Calls <- MCCalls
    Tokens <- MCTokens
    Env <- MCEnv
    CallPaths <- MCCallPaths
    LoginPath <- MCLoginPath
    UserCall <- MCUserCall
    UserResources <- MCUserResources

SPECIFICATION Spec

INVARIANT TypeOK UserNavShowsUserCall
PROPERTY RejectedTokenNotReused
PROPERTY EveryCallEnds
PROPERTY ImplementsCredentialStore

\* The page stops once every component, the login form and the sign-out
\* item have made their one call.
CHECK_DEADLOCK FALSE
