SPECIFICATION Spec
CONSTANTS
    Chars = {"a", "b"}
    RX_BUFF_SIZE = 3
    FifoSize = 4
    TrigLvl = 2
INVARIANTS NonEmptyStays
PROPERTIES IsLossyQueue
