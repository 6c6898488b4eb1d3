SPECIFICATION Spec
CONSTANTS
    Inputs <- MCInputs
    Ranges <- MCRanges
    Lists <- MCLists
    Lines <- MCLines
    Values <- MCValues
    Threads = {t1, t2}
    s2rS2dConfig = 1
    Int32Half = 128
    None = None
CHECK_DEADLOCK FALSE
INVARIANTS
    DeclarationsFollowFiles
    RangesFollowFiles
    ListenerCatchesUp
    
