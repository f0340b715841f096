SPECIFICATION Spec
CONSTANTS
    bytesA = bytesA
    php84 = php84
    linux = linux
    msys = msys
    ScrapedVersions <- TwoVersions
    ScrapedContents <- OneContent
    Retain = 1
    OtherLines = FALSE
    Versions <- OneVersion
    Platforms <- OnePlatform
    Sources <- OneSource
    Built <- OneSource
    Epochs <- TwoEpochs
    Keys <- OneKey
    Contents <- OneContent
    MaxAttempts = 2
    Feeds <- AnyFeed
    Retirable <- Components
    MaxEdits = 3
INVARIANTS
    TypeOK
    SignedServed
    GatesHold
PROPERTIES
    OverwritesNobody
    Converges
