SPECIFICATION TransferSpec
CONSTANTS
    Conns = {c1, c2}
    MaxBufferSize = 6
    NameMax = 1
    Digits <- MCDigits
    DigitFor <- MCDigitFor
    Letters = {"x"}
    Scripts = {}
    FlashMayFail = TRUE
    MayStop = FALSE
    MaxConnects = 2
    Sources <- MCSources
    Name <- MCName
    Remove <- MCRemove
    Chunk = 2
    PowerMayFail = TRUE
INVARIANTS AnswerIntact
PROPERTIES KeepsPromise NoMutualWait
