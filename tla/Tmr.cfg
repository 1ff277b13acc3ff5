SPECIFICATION Spec
CONSTANTS
    Wrap = 4
    Fraction = 4
    Periods = {5, 7}
    MaxTicks = 5
    MaxUpdates = 2
    Ids = {"t0", "t1"}
    Funs = {"f", "g"}
    Others = {"net", "mqtt"}
    MaxAlarms = 3
INVARIANTS RtcExact RegistryExact
PROPERTIES CallsLastGiven
