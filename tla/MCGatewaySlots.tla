-------------------------- MODULE MCGatewaySlots --------------------------
(* Model values for GatewaySlots: two requests of one key, or three.       *)
EXTENDS GatewaySlots

CONSTANTS r1, r2, r3, k1, p1, p2

MCRequests == {r1, r2, r3}
MCTwoRequests == {r1, r2}
MCOneKey == {k1}
MCProviders == {p1, p2}
MCOneKeyOf == [r \in MCRequests |-> k1]
MCTwoKeyOf == [r \in MCTwoRequests |-> k1]
=============================================================================
