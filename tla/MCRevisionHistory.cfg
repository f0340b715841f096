SPECIFICATION Spec
CONSTANTS
    nodejson = nodejson
    gojson = gojson
    Files <- TwoFiles
    Bodies <- TwoBodies
    MaxRevision = 3
    MaxCommits = 3
CHECK_DEADLOCK FALSE
INVARIANTS
    TypeOK
    GreenMeansSafe
