--------------------------- MODULE MCGatewayClient ---------------------------
(* Instances of GatewayClient: calls are model values. *)
EXTENDS GatewayClient
=============================================================================
