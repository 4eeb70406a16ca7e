SPECIFICATION FairSpec
CONSTANTS
    Streams = {s1}
    Slots = 2
    MaxResume = 2
    Vendors = 2
    Chain = 2
    MaxLines = 2
INVARIANTS
    SlotsMatchStreams
    OneEnding
    NoDoubleReply
    Safe
PROPERTIES
    ResumeKnowsAll
    EveryStreamEnds
CHECK_DEADLOCK FALSE
