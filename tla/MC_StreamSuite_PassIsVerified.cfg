CONSTANTS
    NowMs <- MC_NowMs
    NONE = NONE
    WRONGTYPE = WRONGTYPE
SPECIFICATION Spec
VIEW MC_View
CHECK_DEADLOCK FALSE
INVARIANT
    PassIsVerified
