SPECIFICATION ClockSpec
CONSTANTS
    Lengths = {7}
    Texts = {}
    LetterArgs = {}
    Codes = {0, 1, 2, 3, 4}
    Masks = {1, 2, 3, 4, 5}
    Font <- MCFont
    Levels = {1}
    FullLevel = 1
    UIntSpan = 65536
    Retries = 2
    IpInTime = FALSE
    IpText <- MCIpText
    Label = 4
    StartCo2 = 0
    Co2Values = {0, 1}
    DhtValues = {2}
    Garbled = TRUE
INVARIANTS OneValueShown TextNeverPanics
PROPERTIES ValueIsShown
