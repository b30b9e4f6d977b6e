CONSTANTS
    PublicBases <- MCPublicBases
    ServerBases <- MCServerBases
    Inputs <- MCInputs

SPECIFICATION Spec

INVARIANT TypeOK
INVARIANT EndpointAgreement
INVARIANT RulesAgree

\* A call ends after at most two attempts.
CHECK_DEADLOCK FALSE
