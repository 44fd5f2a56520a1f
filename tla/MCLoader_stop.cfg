CONSTANTS
    GenesisNum = 0
    FirstStreamable = 1
    BatchSize = 2
    EndBlock = 3
    AllowLiveOnEmptyTable = TRUE
    ForkAt <- MCForkAt
    MaxBlock <- MCMaxBlock
    MaxGroup = 2
    MaxStarts = 2
SPECIFICATION Spec
INVARIANT StopBlockExclusive
CHECK_DEADLOCK FALSE
