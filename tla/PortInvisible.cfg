SPECIFICATION PortSpec
CONSTANTS
    a = a
    b = b
    c = c
    m = m
    Client <- MCClient
    Message <- MCMessage
    Driver = Driver
    NoPort = NoPort
    MAX_CLIENTS = 2
    MaxReads = 1
    MaxLoad = 2
SYMMETRY Symmetry
INVARIANTS
    ConnectedClientIsSeen
