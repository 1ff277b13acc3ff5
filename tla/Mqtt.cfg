SPECIFICATION Spec
CONSTANTS
    Conns = {1, 2}
    KeepAlive = 1
    SendTimeout = 1
    DnsTries = 2
    SndBuf = 2
    IdSpan = 65536
    MaxEvents = 2
    MaxQueue = 2
    MaxSegments = 1
INVARIANTS ClientKept AckedMeansReceived MessagesInOrder
PROPERTIES ReadyOnConnect
CHECK_DEADLOCK FALSE
