SPECIFICATION Spec
CONSTANTS
    bytesA = bytesA
    php84 = php84
    linux = linux
    msys = msys
    ScrapedVersions <- TwoVersions
    ScrapedContents <- OneContent
    Retain = 1
    OtherLines = TRUE
    Versions <- Nothing
    Platforms <- OnePlatform
    Sources <- OneSource
    Built <- OneSource
    Epochs <- OneEpoch
    Keys <- TwoKeys
    Contents <- OneContent
    MaxAttempts = 2
    Feeds <- StillListed
    Retirable <- Components
    MaxEdits = 1
PROPERTIES
    RetirementLands
