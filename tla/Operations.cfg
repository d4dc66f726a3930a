SPECIFICATION Spec
CONSTANTS
    f1 = f1
    f2 = f2
    f3 = f3
    d1 = d1
    d2 = d2
    n1 = n1
    n2 = n2
    n3 = n3
    t1 = t1
    t2 = t2
    app = app
    other = other
    App = app
    NoPath = NoPath
    NoFile = NoFile
    NoPort = NoPort
    Driver = Driver
    Message <- MCMessage
    File = {f1}
    Dir = {d1, d2}
    Name = {n1, n2}
    Thread = {t1}
    Op = {"CreateDeleteOnClose", "CreateOther", "Disposition",
          "DispositionClear", "Rename", "RenameBypass", "SetOther"}
    Mode = {"UserMode", "KernelMode"}
    Protected = {n2}
    ProtectedWhenHeld = {n2}
    Ignored = {}
    IgnoredDir = {d2}
    TooLong = {}
    Client = {app}
    MAX_CLIENTS = 3
    MaxReads = 1
    MaxLoad = 1
    MAX_NUM_TRIES = 0
    MaxLaunch = 1
    MaxQueue = 1
CHECK_DEADLOCK FALSE
INVARIANTS
    TypeOK
    ClientDeletesOnlyHeldFiles
    NoStrandedFile
PROPERTIES
    ImplementsCustody
