SPECIFICATION Spec
CONSTANTS
    Lengths = {2, 3, 4}
    Texts <- MCTexts
    LetterArgs <- MCLetterArgs
    Codes = {57, 97, 200}
    Masks = {1, 2}
    Font <- MCFont
    Levels = {1, 2}
    FullLevel = 2
    UIntSpan = 65536
INVARIANTS TypeOK BufferBound FinishNotSkipped ArmedHasObjects
PROPERTIES AllShownAtFinish SmoothScroll
