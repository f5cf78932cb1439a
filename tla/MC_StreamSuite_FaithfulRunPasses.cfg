CONSTANTS
    NowMs <- MC_NowMs
    NONE = NONE
    WRONGTYPE = WRONGTYPE
SPECIFICATION Spec
VIEW MC_FaithfulView
CHECK_DEADLOCK FALSE
INVARIANT
    FaithfulRunPasses
