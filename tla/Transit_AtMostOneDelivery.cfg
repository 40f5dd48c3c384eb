\* Violation run: the code against the spec's statement AtMostOneDelivery.
CONSTANTS
    Node = {n1, n2}
    CallId = {c1, c2}
    None = None
    Unencodable = {}
    MaxConnects <- MCMaxConnects
    Lossy = FALSE
    MayLeave = TRUE
    CallBeforeConnect = FALSE
SPECIFICATION Spec
INVARIANTS AtMostOneDelivery
CHECK_DEADLOCK FALSE
