CONSTANTS
    A = A
    B = B
    C = C
    Session = {s1}
    Card = {A, B, C}
    NoCard = NoCard
    NoSerial = NoSerial
    NoCert = NoCert
    NoRequest = NoRequest
    Requests <- OneSession
    GoodIak = {A, B}
    GoodIDevID = {A, C}
    AtomicCards = {A, C}
SPECIFICATION FairSpec
INVARIANTS
    TypeOK
    IssuedAfterAllVerified
    IssuedForVerifiedKeys
    ErrorTellsReach
    AcceptedAllOrPrefix
    SuccessLeavesNoOrphan
PROPERTY
    KeepsPromise
    Termination
