\* Every transport of both builds, two addresses, a handshake of two messages.
CONSTANTS
    Addresses = 2
    Messages = 2
    MaxPayloads = 2
    MaxUnits = 3
    MaximumBatch = 2
    MaximumMessage = 2
SPECIFICATION FairSpec
CHECK_DEADLOCK FALSE
INVARIANTS
    HandlesOwned
    HandshakeWhole
    SentInOrder
PROPERTIES
    ConnectReturns
