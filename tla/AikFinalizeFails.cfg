CONSTANTS
    A = A
    B = B
    C = C
    Session = {s1}
    Card = {A, B}
    NoCard = NoCard
    NoCert = NoCert
    RotDB <- Records
    EndStyles = {"return"}
SPECIFICATION Spec
INVARIANT
    SuccessMeansFinalized
CHECK_DEADLOCK FALSE
