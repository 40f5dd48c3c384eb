\* Every order of connects, heartbeats, probes, pings, broker starts and
\* deliveries between two nodes, with loss, departures and sends before
\* the node's own connect; no calls, which Transit's runs cover.
CONSTANTS
    Node = {n1, n2}
    CallId = {}
    None = None
    Unencodable = {}
    MaxConnects <- MCMaxConnects
    Lossy = TRUE
    MayLeave = TRUE
    CallBeforeConnect = TRUE
    Bcast = Bcast
    MaxSends <- MCMaxSends
SPECIFICATION GSpec
INVARIANTS GTypeOK InfoAnswersDiscover
\* A node with nothing left to send and no copy in flight idles.
CHECK_DEADLOCK FALSE
