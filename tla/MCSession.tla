----------------------------- MODULE MCSession -----------------------------
(* Session on small instances. *)
EXTENDS Session

CONSTANTS t1, k1, k2, k3

=============================================================================
