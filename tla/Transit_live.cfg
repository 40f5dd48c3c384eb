\* No message loss and callers that have connected: does every call to a
\* target that stays up get an answer?  Reconnects and departures remain.
CONSTANTS
    Node = {n1, n2}
    CallId = {c1, c2}
    None = None
    Unencodable = {}
    MaxConnects <- MCMaxConnects
    Lossy = FALSE
    MayLeave = TRUE
    CallBeforeConnect = FALSE
SPECIFICATION FairSpec
PROPERTIES CallEventuallyAnswered
\* A runtime with no call left to make and no message in flight idles.
CHECK_DEADLOCK FALSE
