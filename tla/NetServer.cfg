SPECIFICATION Spec
SYMMETRY Symmetry
CHECK_DEADLOCK FALSE
CONSTANTS
    Conns = {c1, c2, c3}
    Socks = {s1, s2}
    Funs = {f}
    Events = {"disconnection"}
    MAX_SOCKET = 2
    MaxCon = 2
    MaxAccepts = 4
INVARIANTS RegistryExact SlotsExact OwnSocket
