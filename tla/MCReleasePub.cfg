SPECIFICATION Spec
CONSTANTS
    unix = unix
    windows = windows
    tarball = tarball
    zipball = zipball
    bytesA = bytesA
    bytesB = bytesB
    NoBuild = NoBuild
    NoLeg = NoLeg
    Platforms <- TwoPlatforms
    Sources <- OneSource
    SourceOf <- Shared
    Builds <- TwoBuilds
    DraftsListed = FALSE
    MaxFaults = 2
INVARIANTS
    TypeOK
    SourceFirst
    RecordsServed
    ReceiptsBind
PROPERTIES
    PublicImmutable
    Converges
