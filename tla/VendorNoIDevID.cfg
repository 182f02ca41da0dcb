CONSTANTS
    A = A
    B = B
    C = C
    Session = {s1}
    Card = {A, B}
    NoCard = NoCard
    NoSerial = NoSerial
    NoCert = NoCert
    NoRequest = NoRequest
    Requests <- ActiveOnly
    GoodIak = {A, B}
    GoodIDevID = {A, B}
    AtomicCards = {A, B}
SPECIFICATION Spec
INVARIANT
    ActiveEnrolledWithBothCerts
