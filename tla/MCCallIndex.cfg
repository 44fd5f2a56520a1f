\* Every lookup order, zero and negative sizes, two start blocks, a parse
\* error, with and without a stop block, with and without irreversible
\* indexes, over every pair of store contents.
CONSTANTS
    MaxBlock = 3
    BadArg = BadArg
    FileSizes <- MCFileSizes
    SizeLists <- MCSizeLists
    StartArgs <- MCStartArgs
    StopArgs <- MCStopArgs
SPECIFICATION FairSpec
INVARIANT TypeOK IndexComplete StartIsFirstGap
PROPERTY EventuallyReturns RefinesIndexRange
CHECK_DEADLOCK FALSE
