\* One ping/pong exchange per initial state, over bounded timestamps.
CONSTANTS
    Node = {a, b}
    MaxTime <- MCMaxTime
    MaxLatency <- MCMaxLatency
    MaxSkew <- MCMaxSkew
SPECIFICATION Spec
INVARIANTS RoundsHalfUp
