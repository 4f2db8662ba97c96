---------------------------- MODULE MCInboundMail ----------------------------
(* InboundMail on small instances. *)
EXTENDS InboundMail, TLC

CONSTANTS w1, w2

WorkerSymmetry == Permutations({w1, w2})

=============================================================================
