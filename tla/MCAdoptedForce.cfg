SPECIFICATION Spec
CONSTANTS
    bytesA = bytesA
    bytesB = bytesB
    windows = windows
    NoBytes = NoBytes
    NoReceipt = NoReceipt
    Provider = "astral"
    Platform = windows
    Line <- MajorOne
    Listed <- Four
    Oldest <- First
    Revisions <- ThreeTries
    ReadLast = 1
    MaxEdits = 2
    Values <- SomeValues
    Texts <- ThreeTexts
    Lower <- LowerCase
    Versions <- FullNames
    Platforms <- OnePlatform
    Sources <- ProviderOnly
    Built <- NoSource
    Epochs <- OneEpoch
    Keys <- FourKeys
    Contents <- TwoContents
INVARIANTS
    ForcedAccepted
