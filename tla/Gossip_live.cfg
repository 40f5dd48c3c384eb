\* Probes after the prober connected, over a transport that loses nothing;
\* nodes may still leave.
CONSTANTS
    Node = {n1, n2}
    CallId = {}
    None = None
    Unencodable = {}
    MaxConnects <- MCMaxConnects
    Lossy = FALSE
    MayLeave = TRUE
    CallBeforeConnect = FALSE
    Bcast = Bcast
    MaxSends <- MCMaxSends
SPECIFICATION GFairSpec
PROPERTIES DiscoveryAnswered
\* A node with nothing left to send and no copy in flight idles.
CHECK_DEADLOCK FALSE
