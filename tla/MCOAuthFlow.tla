---------------------------- MODULE MCOAuthFlow ----------------------------
(* OAuthFlow on small instances. *)
EXTENDS OAuthFlow, TLC

CONSTANTS d1, d2, e1, e2, c1, c2

FlowSymmetry ==
    {e @@ c : e \in Permutations(Emails), c \in Permutations(Clients)}

=============================================================================
