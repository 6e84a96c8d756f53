---------------------------- MODULE MCConnection ----------------------------
(* Instances of Connection for TLC: the server's and the client's end of it. *)
EXTENDS Connection
============================================================================
