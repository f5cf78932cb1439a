CONSTANTS
    d1 = d1
    d2 = d2
    Ids <- MC_Ids
    Data <- MC_Data
    MaxLen <- MC_MaxLen
    NONE = NONE
    WRONGTYPE = WRONGTYPE
SPECIFICATION Spec
CHECK_DEADLOCK FALSE
INVARIANT
    CompareSound
