SPECIFICATION Spec
CONSTANTS
    php84 = php84
    linux = linux
    msys = msys
    bytesA = bytesA
    bytesB = bytesB
    Versions <- OneVersion
    Platforms <- OnePlatform
    Built <- OneSource
    Keys <- TwoKeys
    Sources <- OneSource
    Epochs <- TwoEpochs
    Contents <- TwoContents
    Droppable <- NoPlatform
    MaxPending = 1
    MaxRevocations = 1
SYMMETRY ContentSymmetry
INVARIANTS
    TypeOK
    BytesBound
PROPERTIES
    OrderNeverRegresses
    NewestWins
    TombstoneFence
    RevocationSticks
    LifecycleSettled
