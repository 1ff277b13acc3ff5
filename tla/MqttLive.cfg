SPECIFICATION Spec
CONSTANTS
    Conns = {1, 2}
    KeepAlive = 1
    SendTimeout = 2
    DnsTries = 2
    SndBuf = 2
    IdSpan = 65536
    MaxEvents = 1
    MaxQueue = 2
    MaxSegments = 1
PROPERTIES BusyEnds
CHECK_DEADLOCK FALSE
