--------------------------- MODULE MCOutboundMail ---------------------------
(* OutboundMail on small instances. *)
EXTENDS OutboundMail, TLC

CONSTANTS j1, m1, w1, w2

OneMailbox == [j \in Jobs |-> m1]

WorkerSymmetry == Permutations({w1, w2})

=============================================================================
