\* Two workers at most, three payloads of different length and one too long.
CONSTANTS
    Kinds = {"packed", "datagrams", "stream", "file"}
    Targets = {0, 1, 5}
    Plain <- MCPlain
    Odd <- MCOdd
    Catalogs <- MCCatalogs
    Detected = 2
    UdpWorkers = 8
    Width = 8
    Reservation = 2
    HighRate = 9
    Span = 3
    EventLimit = 2
    DatagramTarget = 6
    BatchTarget = 9
    MaximumPayload = 7
    Divisor <- MCDivisor
    MaxEvents <- MCMaxEvents
    Second = 2
    MaxPicks = 5
    MaxTime = 2
SPECIFICATION Spec
CHECK_DEADLOCK FALSE
INVARIANTS
    NothingLost
    DatagramsFit
    Balanced
    TimestampsDealt
    RateHeld
