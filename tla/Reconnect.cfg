SPECIFICATION FairSpec
CONSTANTS
    f1 = f1
    f2 = f2
    f3 = f3
    d1 = d1
    d2 = d2
    n1 = n1
    n2 = n2
    n3 = n3
    t1 = t1
    t2 = t2
    app = app
    other = other
    App = app
    NoPath = NoPath
    NoFile = NoFile
    NoPort = NoPort
    Driver = Driver
    Message <- MCMessage
    File = {f1}
    Dir = {d1}
    Name = {n1}
    Thread = {t1}
    Op = {"Disposition"}
    Mode = {"UserMode"}
    Protected = {}
    ProtectedWhenHeld = {}
    Ignored = {}
    IgnoredDir = {}
    TooLong = {}
    Client = {app}
    MAX_CLIENTS = 3
    MaxReads = 1
    MaxLoad = 2
    MAX_NUM_TRIES = 0
    MaxLaunch = 1
    MaxQueue = 2
CHECK_DEADLOCK FALSE
PROPERTIES
    ClientReconnects
