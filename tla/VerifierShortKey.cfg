CONSTANTS
    Call = {c1}
    Cert <- Certs
    Roots <- RootNames
    Given <- Vendor
    Garbage = Garbage
    Requests <- AllRequests
SPECIFICATION Spec
INVARIANT
    AcceptedKeysAreStrong
CHECK_DEADLOCK FALSE
