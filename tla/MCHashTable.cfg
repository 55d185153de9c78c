SPECIFICATION Spec
CONSTANTS
    Key = {1, 2, 3, 4, 5, 6, 7, 9, 10, 11}
    NoKey = 0
    HashFun <- HashValues
    InitSize = 2
    MaxCount = 9
    BatchSize = 3
INVARIANTS
    HashTypeOK
    hash_verify
    ScanSound
    ScanComplete
PROPERTY
    ImplementsContents
