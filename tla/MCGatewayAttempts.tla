------------------------- MODULE MCGatewayAttempts -------------------------
(***************************************************************************)
(* Instances of GatewayAttempts: a funnel of two or three layers, two keys  *)
(* each, with the retry budgets of the code.                                *)
(***************************************************************************)
EXTENDS GatewayAttempts

MCProviderOf == [l \in Layers |-> IF l = 1 THEN "p1" ELSE "p2"]
MCKeysOf == [p \in Providers |-> IF p = "p1" THEN {"a"} ELSE {"b", "c"}]

=============================================================================
