SPECIFICATION Spec
CONSTANTS
    Conns = {c1}
    MaxBufferSize = 9
    NameMax = 1
    Digits <- MCDigits
    DigitFor <- MCDigitFor
    Letters = {"x"}
    Scripts <- OpenClose
    FlashMayFail = FALSE
    MayStop = TRUE
    MaxConnects = 1
INVARIANT NoFault
