------------------------------- MODULE MCTab -------------------------------
(* Tab on small instances. *)
EXTENDS Tab

CONSTANTS t1, k1, k2, k3

(* Bound: how often the counter may have been found unreset by a load. *)
FewUnread == unread <= 4

=============================================================================
