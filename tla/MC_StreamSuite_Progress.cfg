CONSTANTS
    NowMs <- MC_NowMs
    NONE = NONE
    WRONGTYPE = WRONGTYPE
    Live <- MC_EngineIdle
SPECIFICATION FairSpec
VIEW MC_IdleView
CHECK_DEADLOCK FALSE
PROPERTY
    EndsUnlessHung
