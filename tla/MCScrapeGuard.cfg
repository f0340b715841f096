SPECIFICATION Spec
CONSTANTS
    bytesA = bytesA
    bytesB = bytesB
    Versions <- MCVersions
    Contents <- MCContents
    Retain = 2
    MaxCandidates = 2
SYMMETRY ContentSymmetry
INVARIANTS
    TypeOK
    FloorIsHighWater
    RevokedNotServed
    BytesImmutable
    NoResurrection
PROPERTIES
    OnlyNewerEvicts
