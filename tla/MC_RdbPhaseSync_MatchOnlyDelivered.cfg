CONSTANTS
    N <- MC_N
    WaitTicks <- MC_WaitTicks
    NONE = NONE
SPECIFICATION Spec
CHECK_DEADLOCK FALSE
PROPERTY
    MatchOnlyDelivered
