CONSTANTS
    A = A
    B = B
    C = C
    Session = {s1, s2}
    Card = {A, B}
    NoCard = NoCard
    NoSerial = NoSerial
    NoCert = NoCert
    NoRequest = NoRequest
    Requests <- TwoSessions
    GoodIak = {A, B}
    GoodIDevID = {A, B}
    RotDB <- Database
SPECIFICATION Spec
INVARIANTS
    CertNamesTheTpm
    IssuedToChallengedTpm
PROPERTY
    KeepsPromise
