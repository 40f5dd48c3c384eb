----------------------------- MODULE MCPongSkew -----------------------------
(* Model-checking instance of PongSkew: two nodes, latencies up to two    *)
(* seconds and skews up to two seconds either way, so that every parity  *)
(* of the doubled estimate, of either sign, occurs.                       *)
EXTENDS PongSkew

MCMaxTime == 1
MCMaxLatency == 2
MCMaxSkew == 2
=============================================================================
