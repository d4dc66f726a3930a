SPECIFICATION LifeFairSpec
CONSTANTS
    a = a
    v1 = v1
    v2 = v2
    readOnly = readOnly
    t1 = t1
    m = m
    Client = {a}
    Message <- MCMessage
    Driver = Driver
    NoPort = NoPort
    MAX_CLIENTS = 2
    MaxReads = 0
    MaxLoad = 2
    Thread = {t1}
    Vol = {v1, v2, readOnly}
    Writable = {v1, v2}
    NoVol = NoVol
    Torn = Torn
    Garbage = Garbage
CHECK_DEADLOCK FALSE
INVARIANTS
    NotificationNamesVolume
    ImageCallbackHasBuffer
    NothingLeftBehind
    FreedNameOnlyInUnload
PROPERTIES
    UnloadEnds
