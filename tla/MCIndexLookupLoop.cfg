\* Every start height 0..6, size list and store content.
CONSTANTS
    MaxBlock = 5
    FileSizes <- MCFileSizes
    SizeLists <- MCLoopSizeLists
SPECIFICATION Spec
INVARIANT LoopMeetsContract
\* The sweep of start heights ends at MaxBlock + 1.
CHECK_DEADLOCK FALSE
