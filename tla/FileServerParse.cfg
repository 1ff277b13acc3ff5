SPECIFICATION Spec
CONSTANTS
    Conns = {c1}
    MaxBufferSize = 9
    NameMax = 1
    Digits <- MCDigits
    DigitFor <- MCDigitFor
    Letters = {"x"}
    Scripts <- MCScripts
    FlashMayFail = TRUE
    MayStop = FALSE
    MaxConnects = 2
INVARIANTS TypeOK FileOfClient InOrder
PROPERTY HandlerReturns
