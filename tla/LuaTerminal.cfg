SPECIFICATION Spec
CONSTANTS
    Chars = {"a", "o"}
    EndChar = "a"
    Opener = "o"
    LineLen = 3
    RingSize = 3
    MaxInput = 4
    MaxRuns = 1
    Payloads <- MCPayloads
    NeedMax = 2
    Calls <- MCCalls
INVARIANTS TypeOK LineAsEntered ReaderAlive
PROPERTIES RunKeepsTypedKeys RunExecutesPayload LineIsExecuted
