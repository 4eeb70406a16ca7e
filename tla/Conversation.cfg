SPECIFICATION Spec
CONSTANTS
    Protos <- MCProtos
    Apis <- MCApis
    Functions <- MCFunctions
    ToolKind <- MCToolKind
    ArgForms <- MCArgForms
    MaxReplies = 2
    MaxCalls = 2
    MaxAnswers = 2
INVARIANTS
    ConversationKept
    EveryCallAnswered
CHECK_DEADLOCK FALSE
