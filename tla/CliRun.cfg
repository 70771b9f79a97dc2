\* A FILE run that limits, failures and Ctrl+C end, in any combination.
CONSTANTS
    N = 1
    FileProtocol = TRUE
    PublishEvents = 2
    MaxBatch = 2
    MaxEvents = 3
    MaxStarts = 1
    AllowInterrupt = TRUE
SPECIFICATION CliSpec
CHECK_DEADLOCK FALSE
INVARIANTS
    ExitCodeHasReason
    TotalsMatchTransport
PROPERTIES
    RunComesToExit
