------------------------------ MODULE MCTransit ------------------------------
(* Model-checking instance of Transit: node and call ids are model values  *)
(* given in the .cfg files; this module adds the bound on Connect calls.   *)
EXTENDS Transit

\* Two Connect() calls per node reach the duplicate-subscription paths.
MCMaxConnects == 2
=============================================================================
