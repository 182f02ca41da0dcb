CONSTANTS
    Call = {c1, c2}
    Cert <- Certs
    Roots <- RootNames
    Given <- Vendor
    Garbage = Garbage
    Requests <- AllRequests
SPECIFICATION Spec
INVARIANTS
    TypeOK
    VerdictIsBounded
    VerdictIsOwn
    KeysShareSerial
CHECK_DEADLOCK FALSE
