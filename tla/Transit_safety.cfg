\* Every behaviour of the code: reconnects, lost messages, departures,
\* unencodable params, calls before the caller's own connect completed.
CONSTANTS
    Node = {n1, n2}
    CallId = {c1, c2, c3}
    None = None
    Unencodable = {c3}
    MaxConnects <- MCMaxConnects
    Lossy = TRUE
    MayLeave = TRUE
    CallBeforeConnect = TRUE
SPECIFICATION Spec
INVARIANTS TypeOK
 
\* A runtime with no call left to make and no message in flight idles.
CHECK_DEADLOCK FALSE
