CONSTANTS
    Messages <- AllMessages
    Bytes = {0, 1, 2, 8}
SPECIFICATION Spec
INVARIANTS
    AcceptedIsComplete
    MessagesSurvive
    CutMessagesFail
    ReadersAreExact
    KeysSurvive
    OnlySignedAikPasses
CHECK_DEADLOCK FALSE
