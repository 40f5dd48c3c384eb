------------------------------ MODULE MCGossip ------------------------------
(* Model-checking instance of Gossip: node IDs and the broadcast ID are   *)
(* model values given in the .cfg files.                                  *)
EXTENDS Gossip

\* One Connect() call per node: the duplicate subscriptions of a second one
\* are explored by Transit's runs.
MCMaxConnects == 1

\* Two sends per node: a probe and its repetition, or a probe and a
\* heartbeat, ping or broker start, in either order.
MCMaxSends == 2
=============================================================================
