SPECIFICATION Spec
CONSTANTS
    bytesA = bytesA
    bytesB = bytesB
    windows = windows
    NoBytes = NoBytes
    NoReceipt = NoReceipt
    Provider = "theseus"
    Platform = windows
    Line <- MajorOne
    Listed <- Four
    Oldest <- First
    Revisions <- ThreeTries
    ReadLast = 1
    MaxEdits = 3
    Values <- SomeValues
    Texts <- ThreeTexts
    Lower <- LowerCase
    Versions <- Names
    Platforms <- OnePlatform
    Sources <- ProviderOnly
    Built <- NoSource
    Epochs <- OneEpoch
    Keys <- FourKeys
    Contents <- TwoContents
INVARIANTS
    TypeOK
    NewestResolved
    RecordsReceipted
PROPERTIES
    SourceNeverRegresses
    Converges
