\* A FILE limit and Ctrl+C at the same time: the process must still exit.
CONSTANTS
    N = 1
    FileProtocol = TRUE
    PublishEvents = 1
    MaxBatch = 1
    MaxEvents = 2
    MaxStarts = 1
    AllowInterrupt = TRUE
SPECIFICATION CliSpec
CHECK_DEADLOCK FALSE
PROPERTIES ExitsOnLimit
