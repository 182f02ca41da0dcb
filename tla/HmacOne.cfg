CONSTANTS
    A = A
    B = B
    C = C
    Session = {s1}
    Card = {A, B, C}
    NoCard = NoCard
    NoSerial = NoSerial
    NoCert = NoCert
    NoRequest = NoRequest
    Requests <- OneSession
    GoodIak = {A, B, C}
    GoodIDevID = {A, B}
    RotDB <- Database
SPECIFICATION FairSpec
INVARIANTS
    TypeOK
    IssuedAfterAllVerified
    AllCardsOrNone
    SuccessEnrollsFully
    SuccessEnrollsBothRoles
PROPERTY
    Termination
