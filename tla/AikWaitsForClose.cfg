CONSTANTS
    A = A
    B = B
    C = C
    Session = {s1}
    Card = {A, B}
    NoCard = NoCard
    NoCert = NoCert
    RotDB <- Records
    EndStyles = {"wait"}
SPECIFICATION FairSpec
PROPERTY
    ClientClosesTheRpc
CHECK_DEADLOCK FALSE
