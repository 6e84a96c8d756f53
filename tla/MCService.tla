----------------------------- MODULE MCService -----------------------------
(* Service with two loops and one endpoint that the peer may use again. *)
EXTENDS Service

CONSTANTS w1, w2, e1
============================================================================
