SPECIFICATION Spec
CONSTANTS
    Conns = {c1, c2}
    MaxBufferSize = 9
    NameMax = 1
    Digits <- MCDigits
    DigitFor <- MCDigitFor
    Letters = {"x"}
    Scripts <- SlotScripts
    FlashMayFail = FALSE
    MayStop = TRUE
    MaxConnects = 4
INVARIANTS SlotMatches FreshSlot
PROPERTIES SlotIsFreed
