---------------------------- MODULE MCDashboard ----------------------------
(* Dashboard on small instances. *)
EXTENDS Dashboard

CONSTANTS f1

=============================================================================
