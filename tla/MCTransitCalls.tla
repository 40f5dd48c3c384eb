---------------------------- MODULE MCTransitCalls ----------------------------
(* Model-checking instance of the refinement of Calls by Transit.          *)
EXTENDS TransitCalls

\* Two Connect() calls per node reach the duplicate-subscription paths.
MCMaxConnects == 2
=============================================================================
