\* Two network workers; a failing or slow one meets stop() and a restart.
CONSTANTS
    N = 2
    FileProtocol = FALSE
    PublishEvents = 2
    MaxBatch = 1
    MaxEvents = 1
    MaxStarts = 2
SPECIFICATION NetworkSpec
INVARIANTS
    BarrierBeforeSend
    StopWins
    NoThreadOutlivesStop
    TotalsMatchTransport
PROPERTIES
    CallsReturn
    RunEnds
