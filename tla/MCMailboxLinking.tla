-------------------------- MODULE MCMailboxLinking --------------------------
(* MailboxLinking on small instances. *)
EXTENDS MailboxLinking, TLC

CONSTANTS r1, r2

RequestSymmetry == Permutations(Requests)

=============================================================================
