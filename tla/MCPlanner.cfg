SPECIFICATION Spec
CONSTANTS
    php84 = php84
    linux = linux
    msys = msys
    pinA = pinA
    pinB = pinB
    bytesA = bytesA
    bytesB = bytesB
    NoBuild = NoBuild
    NoReceipt = NoReceipt
    Versions <- OneVersion
    Platforms <- OnePlatform
    Sources <- OneSource
    Built <- OneSource
    Provider = msys
    Target <- Php84Linux
    Epochs <- TwoEpochs
    Keys <- ThreeKeys
    Contents <- TwoContents
    Pins <- TwoPins
    InitialPins = pinA
    MaxEdits = 3
INVARIANTS
    TypeOK
    RecordsPublic
PROPERTIES
    RevisionNeverRegresses
    Converges
