SPECIFICATION Spec
CONSTANTS
    unix = unix
    windows = windows
    tarball = tarball
    zipball = zipball
    bytesA = bytesA
    bytesB = bytesB
    NoBuild = NoBuild
    NoLeg = NoLeg
    Platforms <- TwoPlatforms
    Sources <- OneSource
    SourceOf <- Shared
    Builds <- TwoBuilds
    DraftsListed = FALSE
    MaxFaults = 1
PROPERTIES
    UndraftedVerified
