CONSTANTS
    cluster = cluster
    pipeline = pipeline
    multi = multi
    journal = journal
    NONE = NONE
    OLD = OLD
    PARTIAL = PARTIAL
    Files <- MC_Files
    PngDims <- MC_PngDims
    Contents <- MC_Contents
SPECIFICATION Spec
CHECK_DEADLOCK FALSE
INVARIANTS
    TypeOK
    SvgWrapsPng
    
