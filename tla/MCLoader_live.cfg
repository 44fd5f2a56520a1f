\* Live tailing with no stop block on a table that may be empty, with
\* AllowLiveOnEmptyTable off, and three process starts.
CONSTANTS
    GenesisNum = 0
    FirstStreamable = 1
    BatchSize = 2
    EndBlock = 0
    AllowLiveOnEmptyTable = FALSE
    ForkAt <- MCForkAt
    MaxBlock = 4
    MaxGroup = 2
    MaxStarts = 3
SPECIFICATION Spec
PROPERTY RefinesDurableTable
CHECK_DEADLOCK FALSE
