CONSTANTS
    A = A
    B = B
    C = C
    Call = s1
    Card = {A, B, C}
    NoCard = NoCard
    NoSerial = NoSerial
    NoCert = NoCert
    NoRequest = NoRequest
    MaxExponent = 65539
    Publics <- Shown
    Loaded <- InTpms
    Iak <- IakOf
    IDevID <- IDevIDOf
    EKs <- TpmKeys
    RotDB <- Database
    Seatings <- Seats
    FitCards = {A, B}
    FitEKs <- FitKeys
SPECIFICATION Spec
INVARIANTS
    TypeOK
    AcceptedKeysResident
    SoundCardsPass
PROPERTY
    VerifiesForEnrollment
CHECK_DEADLOCK FALSE
