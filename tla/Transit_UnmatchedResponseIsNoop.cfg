\* Violation run: the code against the spec's statement UnmatchedResponseIsNoop.
CONSTANTS
    Node = {n1, n2}
    CallId = {c1, c2}
    None = None
    Unencodable = {}
    MaxConnects <- MCMaxConnects
    Lossy = FALSE
    MayLeave = TRUE
    CallBeforeConnect = FALSE
SPECIFICATION Spec
INVARIANTS UnmatchedResponseIsNoop
CHECK_DEADLOCK FALSE
