CONSTANTS
    A = A
    B = B
    C = C
    Session = {s1, s2}
    Card = {A, B, C}
    NoCard = NoCard
    NoCert = NoCert
    RotDB <- MissingRecord
    EndStyles = {"return", "ack"}
SPECIFICATION FairSpec
INVARIANTS
    TypeOK
    FinalizeProvesEk
    IssuedForThisStream
    SuccessOnSoundStream
PROPERTIES
    KeepsAikPromise
    Termination
    HandlerReleased
CHECK_DEADLOCK FALSE
