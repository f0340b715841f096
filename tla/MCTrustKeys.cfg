SPECIFICATION Spec
CONSTANTS
    node = node
    go = go
    NoKey = NoKey
    Manifests <- TwoManifests
    Keys <- TwoKeys
    ResignAge = 1
    FutureSkew = 1
    RefuseAge = 3
    ClientSkew = 1
    MaxGap = 1
    Broken <- Wrong
    Records <- SomeRecords
    MaxAge = 4
    MaxAttempts = 2
    MaxQueued = 1
    MaxEdits = 2
INVARIANTS
    TypeOK
    NeverRefused
PROPERTIES
    NormalRunVerifies
    InstallsAuthorized
    Recovers
