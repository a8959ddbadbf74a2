CONSTANTS
    BUF_COUNT = 3
    BUF_SIZE = 2
    Capacity = 2
    MaxSamples = 8
    NoBuffer = NoBuffer
    Blank = Blank
    Torn = Torn
    Channels = {1}
    BadChannels = {0}
    Durations = {1}
    Rates = {100}
    CommandDepth = 1
    MaxCommands = 2
    Off = Off
SPECIFICATION FairExperiment
INVARIANTS ExperimentTypeOK PoolPartitioned BlocksWhole LaserOnlyInMain LaserOffWhenIdle HandOverLosesOnlyQueued MemoryHoldsRun
PROPERTIES DropOnlyWhenBehind ImplementsSampleLog  RunEnds 
