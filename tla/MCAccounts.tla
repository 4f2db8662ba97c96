----------------------------- MODULE MCAccounts -----------------------------
(* Accounts on small instances. *)
EXTENDS Accounts, TLC

CONSTANTS s1, s2, c1, c2

=============================================================================
