SPECIFICATION ReplySpec
CONSTANTS
    Protos <- MCProtos
    Apis <- MCApis
    MaxSaid = 5
    MaxTools = 2
INVARIANTS
    ContentArrives
    TruncationTold
PROPERTIES
    KeepsPromise
CHECK_DEADLOCK FALSE
