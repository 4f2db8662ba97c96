---------------------------- MODULE MCWsGateway ----------------------------
(* WsGateway on small instances. *)
EXTENDS WsGateway, TLC

CONSTANTS i1, i2, b1, b2, m1, m2

GatewaySymmetry ==
    {i @@ b : i \in Permutations(Instances), b \in Permutations(Browsers)}

=============================================================================
