CONSTANTS
    A = A
    B = B
    C = C
    Session = {s1, s2}
    Card = {A, B, C}
    NoCard = NoCard
    NoSerial = NoSerial
    NoCert = NoCert
    NoRequest = NoRequest
    Requests <- TwoSessions
    GoodIak = {A, B, C}
    GoodIDevID = {A, B}
    AtomicCards = {A, B}
SPECIFICATION Spec
INVARIANTS
    InstalledIsOwn
    AtomicEnrollsBothRoles
