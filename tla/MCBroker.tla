------------------------------ MODULE MCBroker ------------------------------
(* Model-checking instance of Broker: s1 needs a remote service, s2 needs  *)
(* s1, so both the remote discovery and the local start order matter.     *)
EXTENDS Broker

MCDeps == [s \in Svc |-> IF s = "s1" THEN {"r1"} ELSE {"s1"}]

\* Two polling rounds before the timeout: waits that end by discovery,
\* by the timeout, and by the started check are all reachable.
MCMaxWait == 2
=============================================================================
