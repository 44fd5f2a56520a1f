\* The same instances, asking whether sizes that pass the flag validation
\* can crash the lookup.
CONSTANTS
    MaxBlock = 3
    BadArg = BadArg
    FileSizes <- MCFileSizes
    SizeLists <- MCSizeLists
    StartArgs <- MCStartArgs
    StopArgs <- MCStopArgs
SPECIFICATION Spec
INVARIANT ValidatedSizesNoPanic
CHECK_DEADLOCK FALSE
