\* Two processes whose clocks agree, one under limits, with disk errors and crashes.
CONSTANTS
    p1 = p1
    p2 = p2
    Procs = {p1, p2}
    Stamps = {t1}
    ByteLimits <- MCByteLimits
    CountLimits <- MCCountLimits
    Timed <- MCTimed
    MaxLogs <- MCMaxLogs
    MaxBytes <- MCMaxBytes
    MaxConnects <- MCMaxConnects
    MaxSends <- MCMaxSends
SPECIFICATION FairSpec
CHECK_DEADLOCK FALSE
INVARIANTS
    PartialsExplained
    CountsMatchFiles
    LimitsHold
PROPERTIES
    WholeFilesStay
    SendReturns
